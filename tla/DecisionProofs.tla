----------------------------- MODULE DecisionProofs -----------------------------
(***************************************************************************)
(* Proofs about what clients are played: PlayedAsAgreed holds for every    *)
(* client, player, file and command line, whenever the file is replaced,   *)
(* imported and probed.                                                    *)
(*                                                                         *)
(* Most of the property is about values, not about steps: what the code    *)
(* computes from a file, a client and a player.  The parts follow its      *)
(* order: limitations of a codec, the stream that is to be made, what the  *)
(* client declares once the player's settings are in it, the command line  *)
(* of ffmpeg, the request of an older client.  A loop over limitations or  *)
(* words is a function of the number of rounds; what it keeps is proved of *)
(* the least number of rounds that would break it.                         *)
(*                                                                         *)
(* PlayedAsAgreed is not inductive: it says nothing of a token that nobody *)
(* has used yet, nor of a probe whose answer is not stored.  DecisionInv   *)
(* says that a token is the decision for the client on the facts it was    *)
(* made from, and that these, the probe's answer and the probe in the row  *)
(* are of the same file unless a probe and an import have crossed.         *)
(***************************************************************************)
EXTENDS TranscodeDecision, FiniteSetTheorems, WellFoundedInduction, TLAPS

-------------------------------------------------------------------------------
(* TranscodeDecision: what the limitations of a codec leave of a stream        *)

\* A stream that is to be made, and the bit rate it comes out with.
Streams ==
    [how : {"transcode"}, format : STRING, codec : STRING, bitrate : Nat, depth : Nat, rate : Nat, ch : Nat]
RateOf(facts, t) == IF t.bitrate = 0 THEN facts.bitrate ELSE t.bitrate
Zero(lim) == lim.name = "bitrate" /\ \E k \in 1..Len(lim.values) : lim.values[k] = 0

LEMMA HasLeast == ASSUME NEW S, S \subseteq Nat, S # {} PROVE \E x \in S : \A y \in S : x <= y
<1>1. PICK x \in S : \A y \in S : ~(<<y, x>> \in OpToRel(<, Nat)) BY NatLessThanWellFounded, WFMin
<1>2. \A y \in S : ~(y < x) BY <1>1 DEF OpToRel
<1>3. QED BY <1>2

LEMMA GreatestBelow ==
    ASSUME NEW v \in Nat, NEW S, S # {}, S \subseteq 0..v
    PROVE  (CHOOSE l \in S : \A k \in S : k <= l) \in S
<1> DEFINE T == {v - l : l \in S}
<1>0. \A l \in S : l \in 0..v /\ v - l \in Nat OBVIOUS
<1>1. T \subseteq Nat /\ T # {} BY <1>0
<1>2. PICK m \in T : \A u \in T : m <= u BY <1>1, HasLeast
<1>3. PICK l \in S : m = v - l BY <1>2
<1>4. \A k \in S : v - l <= v - k BY <1>2, <1>3
<1>5. \A k \in S : k <= l BY <1>0, <1>4
<1>6. QED BY <1>5

\* A limitation leaves a value as it is, lowers it to one that it allows, or
\* cannot be met.
LEMMA LimitLeaves ==
    ASSUME NEW lim \in Limitations, NEW v \in Nat
    PROVE  LET left == applyIntLimitation(lim, v)
           IN  \/ left = -1
               \/ /\ left \in Nat /\ left <= v /\ Fits(lim, left)
                  /\ left # v => \E k \in 1..Len(lim.values) : left = lim.values[k]
<1> DEFINE left == applyIntLimitation(lim, v)
<1>1. lim.values \in Seq(Nat) /\ lim.cmp \in {"LE", "GE", "EQ", "NE"} BY DEF Limitations
<1>2. CASE Fits(lim, v) BY <1>2 DEF applyIntLimitation
<1>3. CASE ~Fits(lim, v) /\ lim.cmp = "LE"
  <2>1. lim.values # <<>> /\ ~(v <= lim.values[1]) BY <1>3 DEF Fits
  <2>2. 1 \in 1..Len(lim.values) /\ lim.values[1] \in Nat BY <1>1, <2>1
  <2>3. left = lim.values[1] BY <1>3 DEF applyIntLimitation
  <2>4. Fits(lim, left) BY <1>3, <2>2, <2>3 DEF Fits
  <2>5. QED BY <2>1, <2>2, <2>3, <2>4
<1>4. CASE ~Fits(lim, v) /\ lim.cmp = "EQ" /\ Below(lim, v) # {}
  <2>1. lim.values # <<>> BY <1>4 DEF Fits
  <2>2. \A x \in Below(lim, v) : x \in 0..v /\ \E k \in 1..Len(lim.values) : x = lim.values[k] BY <1>1 DEF Below
  <2>3. left = CHOOSE l \in Below(lim, v) : \A k \in Below(lim, v) : k <= l BY <1>4 DEF applyIntLimitation
  <2>4. left \in Below(lim, v) BY <1>4, <2>2, <2>3, GreatestBelow
  <2>5. Fits(lim, left) BY <1>4, <2>2, <2>4 DEF Fits
  <2>6. QED BY <2>2, <2>4, <2>5
<1>5. CASE ~Fits(lim, v) /\ lim.cmp # "LE" /\ ~(lim.cmp = "EQ" /\ Below(lim, v) # {})
  BY <1>5 DEF applyIntLimitation
<1>6. QED BY <1>2, <1>3, <1>4, <1>5

\* What one limitation may do to a stream.
Value(facts, t, name) == IF name = "bitrate" THEN RateOf(facts, t) ELSE t[name]
Met(facts, t, lim) ==
    \/ lim.name = "depth" /\ t.depth = 0
    \/ Zero(lim)
    \/ Fits(lim, Value(facts, t, lim.name))
Narrowed(facts, t, r) ==
    /\ r \in Streams /\ r.format = t.format /\ r.codec = t.codec
    /\ r.ch <= t.ch /\ r.rate <= t.rate
    /\ isLosslessFormat(t.format) => r.bitrate = t.bitrate
    /\ t.bitrate <= facts.bitrate => r.bitrate <= facts.bitrate
Lowers(facts, t, r) == RateOf(facts, r) <= RateOf(facts, t) /\ (t.bitrate > 0 => r.bitrate > 0)
OnlyChanges(t, r, name) == \A n \in {"bitrate", "ch", "rate", "depth"} \ {name} : r[n] = t[n]

LEMMA OneLimitation ==
    ASSUME NEW facts \in AudioFacts, NEW t \in Streams, NEW lim \in Limitations,
           NEW r, r = applyLimitation(facts, t, lim), r # Rejected
    PROVE  /\ Narrowed(facts, t, r) /\ OnlyChanges(t, r, lim.name) /\ Met(facts, r, lim)
           /\ ~Zero(lim) => Lowers(facts, t, r)
<1> DEFINE current == IF lim.name = "bitrate" /\ t.bitrate = 0 THEN facts.bitrate ELSE t[lim.name]
           left == applyIntLimitation(lim, current)
<1>1. lim.name \in {"bitrate", "ch", "rate", "depth"} BY DEF Limitations
<1>2. facts.bitrate \in Nat /\ t.bitrate \in Nat /\ t.ch \in Nat /\ t.rate \in Nat /\ t.depth \in Nat BY DEF AudioFacts, Streams
<1>3. current \in Nat /\ (lim.name = "bitrate" => current = RateOf(facts, t)) BY <1>1, <1>2 DEF RateOf
<1>4. CASE r = t
  <2>1. Narrowed(facts, t, r) /\ OnlyChanges(t, r, lim.name) /\ Lowers(facts, t, r)
    BY <1>2, <1>4 DEF Narrowed, OnlyChanges, Lowers, RateOf
  <2>2. Met(facts, r, lim)
    <3>1. CASE lim.name = "depth" /\ t.depth = 0 BY <1>4, <3>1 DEF Met
    <3>2. CASE ~(lim.name = "depth" /\ t.depth = 0)
      <4>1. left # -1 BY <3>2 DEF applyLimitation
      <4>2. CASE left = current BY <1>1, <1>3, <1>4, <4>1, <4>2, LimitLeaves DEF Met, Value, RateOf
      <4>3. CASE left # current
        <5>1. r = [t EXCEPT ![lim.name] = left] BY <3>2, <4>1, <4>3 DEF applyLimitation
        <5>2. left = t[lim.name] BY <1>1, <1>4, <5>1 DEF Streams
        <5>3. left = 0 /\ lim.name = "bitrate" BY <1>3, <4>3, <5>2
        <5>4. \E k \in 1..Len(lim.values) : left = lim.values[k] BY <1>3, <4>1, <4>3, LimitLeaves
        <5>5. QED BY <5>3, <5>4 DEF Met, Zero
      <4>4. QED BY <4>2, <4>3
    <3>3. QED BY <3>1, <3>2
  <2>3. QED BY <2>1, <2>2
<1>5. CASE r # t
  <2>1. /\ ~(lim.name = "depth" /\ t.depth = 0) /\ left # -1 /\ left # current
        /\ ~(lim.name = "bitrate" /\ isLosslessFormat(t.format)) /\ r = [t EXCEPT ![lim.name] = left]
    BY <1>5 DEF applyLimitation
  <2>2. left \in Nat /\ left < current /\ Fits(lim, left) /\ \E k \in 1..Len(lim.values) : left = lim.values[k]
    BY <1>3, <2>1, LimitLeaves
  <2>3. r \in Streams /\ r[lim.name] = left /\ OnlyChanges(t, r, lim.name) /\ r.format = t.format /\ r.codec = t.codec
    BY <1>1, <2>1, <2>2 DEF Streams, OnlyChanges
  <2>4. CASE lim.name = "bitrate"
    <3>1. r.bitrate = left /\ r.ch = t.ch /\ r.rate = t.rate BY <2>3, <2>4 DEF OnlyChanges
    <3>2. left = 0 => Zero(lim) BY <2>2, <2>4 DEF Zero
    <3>3. Narrowed(facts, t, r) BY <1>2, <1>3, <2>1, <2>2, <2>3, <2>4, <3>1 DEF Narrowed, RateOf
    <3>4. ~Zero(lim) => Lowers(facts, t, r) BY <1>2, <1>3, <2>2, <2>4, <3>1, <3>2 DEF Lowers, RateOf
    <3>5. Met(facts, r, lim) BY <2>2, <2>4, <3>1, <3>2 DEF Met, Value, RateOf
    <3>6. QED BY <2>3, <3>3, <3>4, <3>5
  <2>5. CASE lim.name # "bitrate"
    <3>1. r.bitrate = t.bitrate BY <2>3, <2>5 DEF OnlyChanges
    <3>2. r.ch <= t.ch /\ r.rate <= t.rate BY <1>1, <1>2, <2>2, <2>3, <2>5 DEF OnlyChanges
    <3>3. Narrowed(facts, t, r) /\ Lowers(facts, t, r) BY <1>2, <2>3, <3>1, <3>2 DEF Narrowed, Lowers, RateOf
    <3>4. Met(facts, r, lim) BY <2>2, <2>3, <2>5 DEF Met, Value
    <3>5. QED BY <2>3, <3>3, <3>4
  <2>6. QED BY <2>4, <2>5
<1>6. QED BY <1>4, <1>5

\* The streams after each of the limitations: the function that the code's loop
\* describes exists.
LimitStep(facts, r, lim) == IF r = Rejected THEN Rejected ELSE applyLimitation(facts, r, lim)
IsLimited(facts, t, lims, m, g) ==
    g = [n \in 0..m |-> IF n = 0 THEN t ELSE LimitStep(facts, g[n - 1], lims[n])]

LEMMA LimitedExists ==
    ASSUME NEW facts, NEW t, NEW lims, NEW m \in Nat
    PROVE  \E g : IsLimited(facts, t, lims, m, g)
<1> DEFINE S == {k \in Nat : ~\E g : IsLimited(facts, t, lims, k, g)}
<1>1. SUFFICES ASSUME S # {} PROVE FALSE OBVIOUS
<1>2. PICK k \in S : \A j \in S : k <= j
  <2>1. S \subseteq Nat OBVIOUS
  <2> HIDE DEF S
  <2>2. QED BY <1>1, <2>1, HasLeast
<1>3. CASE k = 0
  <2>1. IsLimited(facts, t, lims, 0, [n \in 0..0 |-> t]) BY DEF IsLimited
  <2>2. QED BY <1>3, <2>1
<1>4. CASE k # 0
  <2>1. k - 1 \in Nat /\ k - 1 \notin S BY <1>2, <1>4
  <2>2. PICK g : IsLimited(facts, t, lims, k - 1, g) BY <2>1
  <2>3. DOMAIN g = 0..(k - 1) BY <2>2 DEF IsLimited
  <2>4. \A n \in 0..(k - 1) : g[n] = IF n = 0 THEN t ELSE LimitStep(facts, g[n - 1], lims[n]) BY <2>2 DEF IsLimited
  <2> DEFINE h == [n \in 0..k |-> IF n = k THEN LimitStep(facts, g[k - 1], lims[k]) ELSE g[n]]
  <2>5. \A n \in 0..k : h[n] = IF n = 0 THEN t ELSE LimitStep(facts, h[n - 1], lims[n])
    <3> TAKE n \in 0..k
    <3>1. CASE n = k
      <4>1. h[n] = LimitStep(facts, g[k - 1], lims[k]) BY <3>1
      <4>2. h[n - 1] = g[k - 1] BY <1>4, <2>1, <3>1
      <4>3. QED BY <1>4, <3>1, <4>1, <4>2
    <3>2. CASE n # k
      <4>1. n \in 0..(k - 1) /\ h[n] = g[n] BY <1>2, <3>2
      <4>2. n # 0 => n - 1 \in 0..k /\ n - 1 # k /\ h[n - 1] = g[n - 1] BY <4>1
      <4>3. QED BY <2>4, <4>1, <4>2
    <3>3. QED BY <3>1, <3>2
  <2>6. h = [n \in 0..k |-> IF n = 0 THEN t ELSE LimitStep(facts, h[n - 1], lims[n])] BY <2>5
  <2>7. IsLimited(facts, t, lims, k, h) BY <2>6 DEF IsLimited
  <2>8. QED BY <1>2, <2>7
<1>5. QED BY <1>3, <1>4

LEMMA LimitedSteps ==
    ASSUME NEW facts, NEW t, NEW lims, Len(lims) \in Nat
    PROVE  /\ Limited(facts, t, lims)[0] = t
           /\ \A n \in 1..Len(lims) :
                Limited(facts, t, lims)[n] = LimitStep(facts, Limited(facts, t, lims)[n - 1], lims[n])
<1> DEFINE after == Limited(facts, t, lims)
<1>1. after = CHOOSE g : g = [n \in 0..Len(lims) |-> IF n = 0 THEN t
            ELSE IF g[n - 1] = Rejected THEN Rejected ELSE applyLimitation(facts, g[n - 1], lims[n])]
  BY DEF Limited
<1>2. \E g : g = [n \in 0..Len(lims) |-> IF n = 0 THEN t
            ELSE IF g[n - 1] = Rejected THEN Rejected ELSE applyLimitation(facts, g[n - 1], lims[n])]
  <2>1. PICK g : IsLimited(facts, t, lims, Len(lims), g) BY LimitedExists
  <2>2. QED BY <2>1 DEF IsLimited, LimitStep
<1>3. after = [n \in 0..Len(lims) |-> IF n = 0 THEN t
            ELSE IF after[n - 1] = Rejected THEN Rejected ELSE applyLimitation(facts, after[n - 1], lims[n])]
  <2> HIDE DEF after
  <2>1. QED BY <1>1, <1>2
<1>4. \A n \in 0..Len(lims) : after[n] = IF n = 0 THEN t
            ELSE IF after[n - 1] = Rejected THEN Rejected ELSE applyLimitation(facts, after[n - 1], lims[n])
  <2> HIDE DEF after
  <2>1. QED BY <1>3
<1>5. QED
  <2> HIDE DEF after
  <2>1. after[0] = t BY <1>4
  <2>2. \A n \in 1..Len(lims) : after[n] = LimitStep(facts, after[n - 1], lims[n]) BY <1>4 DEF LimitStep
  <2>3. QED BY <2>1, <2>2 DEF after

\* What all of them leave: each is met, unless a later one is about the same.
Distinct(lims) == \A i, j \in 1..Len(lims) : lims[i].name = lims[j].name => i = j
NoneZero(lims) == \A i \in 1..Len(lims) : ~Zero(lims[i])
LeftBy(facts, t, r, lims, n) ==
    /\ Narrowed(facts, t, r)
    /\ NoneZero(lims) => Lowers(facts, t, r)
    /\ Distinct(lims) => \A i \in 1..n : Met(facts, r, lims[i])

LEMMA NarrowedTwice ==
    ASSUME NEW facts \in AudioFacts, NEW t \in Streams, NEW r, NEW q, Narrowed(facts, t, r), Narrowed(facts, r, q)
    PROVE  Narrowed(facts, t, q) /\ (Lowers(facts, t, r) /\ Lowers(facts, r, q) => Lowers(facts, t, q))
<1>1. facts.bitrate \in Nat BY DEF AudioFacts
<1>2. /\ t.bitrate \in Nat /\ t.ch \in Nat /\ t.rate \in Nat /\ r \in Streams /\ q \in Streams
      /\ r.bitrate \in Nat /\ r.ch \in Nat /\ r.rate \in Nat /\ q.bitrate \in Nat /\ q.ch \in Nat /\ q.rate \in Nat
  BY DEF Narrowed, Streams
<1>3. Narrowed(facts, t, q) BY <1>1, <1>2 DEF Narrowed
<1>4. Lowers(facts, t, r) /\ Lowers(facts, r, q) => Lowers(facts, t, q) BY <1>1, <1>2 DEF Lowers, RateOf
<1>5. QED BY <1>3, <1>4

LEMMA StillMet ==
    ASSUME NEW facts, NEW r, NEW q, NEW a \in Limitations, NEW name, OnlyChanges(r, q, name), a.name # name, Met(facts, r, a)
    PROVE  Met(facts, q, a)
<1>1. a.name \in {"bitrate", "ch", "rate", "depth"} \ {name} BY DEF Limitations
<1>2. q[a.name] = r[a.name] BY <1>1 DEF OnlyChanges
<1>3. a.name = "depth" => q.depth = r.depth BY <1>2
<1>4. Value(facts, q, a.name) = Value(facts, r, a.name) BY <1>2 DEF Value, RateOf
<1>5. QED BY <1>3, <1>4 DEF Met

LEMMA AllLimitations ==
    ASSUME NEW facts \in AudioFacts, NEW t \in Streams, NEW lims \in Seq(Limitations),
           NEW q, q = Limited(facts, t, lims)[Len(lims)], q # Rejected
    PROVE  LeftBy(facts, t, q, lims, Len(lims))
<1> DEFINE after == Limited(facts, t, lims)
           S == {k \in 0..Len(lims) : after[k] # Rejected /\ ~LeftBy(facts, t, after[k], lims, k)}
<1>0. Len(lims) \in Nat /\ \A i \in 1..Len(lims) : lims[i] \in Limitations OBVIOUS
<1>1. SUFFICES ASSUME S # {} PROVE FALSE BY <1>0
<1>2. PICK k \in S : \A j \in S : k <= j
  <2>1. S \subseteq Nat BY <1>0
  <2> HIDE DEF S
  <2>2. QED BY <1>1, <2>1, HasLeast
<1> HIDE DEF after
<1>3. after[0] = t /\ \A n \in 1..Len(lims) : after[n] = LimitStep(facts, after[n - 1], lims[n]) BY <1>0, LimitedSteps DEF after
<1>4. CASE k = 0
  <2>1. Narrowed(facts, t, t) /\ Lowers(facts, t, t) BY DEF Narrowed, Lowers, RateOf, Streams, AudioFacts
  <2>2. QED BY <1>3, <1>4, <2>1 DEF LeftBy
<1>5. CASE k # 0
  <2> DEFINE r == after[k - 1]
             c == after[k]
  <2>1. k \in 1..Len(lims) /\ k - 1 \in 0..Len(lims) /\ k - 1 \notin S BY <1>0, <1>2, <1>5
  <2>2. c # Rejected /\ ~LeftBy(facts, t, c, lims, k) BY <1>2
  <2>3. c = LimitStep(facts, r, lims[k]) BY <1>3, <2>1
  <2>4. r # Rejected /\ c = applyLimitation(facts, r, lims[k]) BY <2>2, <2>3 DEF LimitStep
  <2>5. LeftBy(facts, t, r, lims, k - 1) BY <2>1, <2>4
  <2>6. r \in Streams BY <2>5 DEF LeftBy, Narrowed
  <2>7. lims[k] \in Limitations BY <1>0, <2>1
  <2> HIDE DEF r, c
  <2>8. /\ Narrowed(facts, r, c) /\ OnlyChanges(r, c, lims[k].name) /\ Met(facts, c, lims[k])
        /\ ~Zero(lims[k]) => Lowers(facts, r, c)
    BY <2>2, <2>4, <2>6, <2>7, OneLimitation
  <2>9. Narrowed(facts, t, c) /\ (NoneZero(lims) => Lowers(facts, t, c))
    BY <2>1, <2>5, <2>8, NarrowedTwice DEF LeftBy, NoneZero
  <2>10. ASSUME Distinct(lims), NEW i \in 1..k PROVE Met(facts, c, lims[i])
    <3>1. CASE i = k BY <2>8, <3>1
    <3>2. CASE i # k
      <4>1. i \in 1..(k - 1) /\ i \in 1..Len(lims) BY <1>0, <2>1, <3>2
      <4>2. lims[i].name # lims[k].name BY <2>1, <2>10, <3>2, <4>1 DEF Distinct
      <4>3. Met(facts, r, lims[i]) BY <2>5, <2>10, <4>1 DEF LeftBy
      <4>4. QED BY <1>0, <2>8, <4>1, <4>2, <4>3, StillMet
    <3>3. QED BY <3>1, <3>2
  <2>11. QED BY <2>2, <2>9, <2>10 DEF LeftBy
<1>6. QED BY <1>4, <1>5

-------------------------------------------------------------------------------
(* TranscodeDecision: the stream that is decided on                            *)

\* A client's declaration once the server has read it.
IsProfile(p) == p.codec \in STRING /\ p.container \in STRING /\ p.ch \in Nat
IsClient(c) ==
    /\ c.max \in Nat /\ c.maxTranscoding \in Nat /\ c.limitations \in Seq(Limitations)
    /\ DOMAIN c.transcoding \subseteq Nat /\ \A i \in DOMAIN c.transcoding : IsProfile(c.transcoding[i])

\* What a stream owes to its source and to the client.
HighestRate(facts, codec) == IF codec = "opus" THEN 48 ELSE normalizeSourceSampleRate(facts)
SourceBounds(facts, t) ==
    /\ t.ch <= facts.ch /\ t.rate <= HighestRate(facts, t.codec)
    /\ ~isLosslessFormat(facts.codec) => t.bitrate <= facts.bitrate /\ ~isLosslessFormat(t.format)
RateBounds(facts, c, t) ==
    /\ c.max > 0 => RateOf(facts, t) <= c.max
    /\ isLosslessFormat(facts.codec) /\ c.maxTranscoding > 0 => t.bitrate <= c.maxTranscoding
Within(facts, c, t) ==
    /\ t \in Streams /\ LookupTranscodeCommand(t.format)
    /\ SourceBounds(facts, t)
    /\ NoneZero(c.limitations) => RateBounds(facts, c, t)
    /\ Distinct(c.limitations) /\ matchesCodec(t.codec, {c.limited}) =>
            \A i \in 1..Len(c.limitations) : Met(facts, t, c.limitations[i])

LEMMA BitrateComputed ==
    ASSUME NEW facts \in AudioFacts, NEW f, NEW c, c.max \in Nat, c.maxTranscoding \in Nat,
           NEW b, b = computeBitrate(facts, f, c), b # -1
    PROVE  /\ b \in Nat
           /\ c.max > 0 => b <= c.max
           /\ c.max > 0 /\ b = 0 => facts.bitrate <= c.max
           /\ ~isLosslessFormat(facts.codec) => b <= facts.bitrate
           /\ isLosslessFormat(facts.codec) /\ c.maxTranscoding > 0 => b <= c.maxTranscoding
           /\ isLosslessFormat(facts.codec) /\ ~isLosslessFormat(f) => b > 0
<1>1. facts.bitrate \in Nat BY DEF AudioFacts
<1>2. lookupDefaultBitrate(f) \in Nat /\ lookupDefaultBitrate(f) > 0 BY DEF lookupDefaultBitrate
<1>3. CASE ~isLosslessFormat(facts.codec)
  <2>1. b = Lower(facts.bitrate, c.max) BY <1>3 DEF computeBitrate
  <2>2. QED BY <1>1, <1>3, <2>1 DEF Lower
<1>4. CASE isLosslessFormat(facts.codec) /\ ~isLosslessFormat(f)
  <2> DEFINE w == CASE c.maxTranscoding > 0 -> c.maxTranscoding
                    [] c.maxTranscoding = 0 /\ c.max > 0 -> c.max
                    [] OTHER -> lookupDefaultBitrate(f)
  <2>1. w \in Nat /\ w > 0 /\ (c.maxTranscoding > 0 => w = c.maxTranscoding)
    <3>1. CASE c.maxTranscoding > 0 BY <3>1
    <3>2. CASE c.maxTranscoding = 0 /\ c.max > 0 BY <3>2
    <3>3. CASE c.maxTranscoding = 0 /\ c.max = 0 BY <1>2, <3>3
    <3>4. QED BY <3>1, <3>2, <3>3
  <2>2. b = Lower(w, c.max) BY <1>4 DEF computeBitrate
  <2> HIDE DEF w
  <2>3. QED BY <1>4, <2>1, <2>2 DEF Lower
<1>5. CASE isLosslessFormat(facts.codec) /\ isLosslessFormat(f)
  <2>1. b = 0 /\ ~(c.max > 0 /\ facts.bitrate > c.max) BY <1>5 DEF computeBitrate
  <2>2. QED BY <1>1, <1>5, <2>1
<1>6. QED BY <1>3, <1>4, <1>5

\* The stream before the client's limitations.
Unlimited(facts, p, c) ==
    LET f == resolveTargetFormat(p)
        codec == IF p.codec # "" THEN p.codec ELSE f
    IN  [how |-> "transcode", format |-> f, codec |-> codec, bitrate |-> computeBitrate(facts, f, c),
         depth |-> targetBitDepth(facts, isLosslessFormat(f)), rate |-> IntrinsicRate(facts, codec),
         ch |-> Lower(Lower(facts.ch, codecMaxChannels(codec)), p.ch)]

LEMMA RateTypes ==
    ASSUME NEW facts \in AudioFacts, NEW codec
    PROVE  normalizeSourceSampleRate(facts) \in Nat /\ IntrinsicRate(facts, codec) \in Nat
           /\ IntrinsicRate(facts, codec) <= HighestRate(facts, codec)
<1>1. facts.rate \in Nat BY DEF AudioFacts
<1>2. facts.rate \div 8 \in Nat BY <1>1
<1>3. normalizeSourceSampleRate(facts) \in Nat BY <1>1, <1>2 DEF normalizeSourceSampleRate
<1>4. codecMaxSampleRate(codec) \in Nat BY DEF codecMaxSampleRate
<1>5. QED BY <1>3, <1>4 DEF IntrinsicRate, codecFixedOutputSampleRate, Lower, HighestRate

LEMMA UnlimitedBounds ==
    ASSUME NEW facts \in AudioFacts, NEW p, IsProfile(p), NEW c, IsClient(c), computeTranscodedStream(facts, p, c) # Rejected,
           NEW t, t = Unlimited(facts, p, c)
    PROVE  /\ t \in Streams /\ LookupTranscodeCommand(t.format) /\ SourceBounds(facts, t) /\ RateBounds(facts, c, t)
           /\ t.bitrate = 0 => facts.bitrate = 0 \/ isLosslessFormat(t.format)
           /\ computeTranscodedStream(facts, p, c) = applyCodecLimitations(facts, t, c)
<1> DEFINE f == resolveTargetFormat(p)
           codec == IF p.codec # "" THEN p.codec ELSE f
           b == computeBitrate(facts, f, c)
<1>1. /\ LookupTranscodeCommand(f) /\ ~(~isLosslessFormat(facts.codec) /\ isLosslessFormat(f)) /\ b # -1
      /\ computeTranscodedStream(facts, p, c) = applyCodecLimitations(facts, t, c)
  BY DEF computeTranscodedStream, Unlimited
<1>2. f \in STRING /\ codec \in STRING /\ p.ch \in Nat BY DEF resolveTargetFormat, IsProfile
<1>3. facts.ch \in Nat /\ facts.depth \in Nat /\ facts.bitrate \in Nat BY DEF AudioFacts
<1>4. targetBitDepth(facts, isLosslessFormat(f)) \in Nat BY <1>3 DEF targetBitDepth
<1>5. codecMaxChannels(codec) \in Nat BY DEF codecMaxChannels
<1>6. Lower(Lower(facts.ch, codecMaxChannels(codec)), p.ch) \in 0..facts.ch
  <2> HIDE DEF codec
  <2>1. Lower(facts.ch, codecMaxChannels(codec)) \in 0..facts.ch BY <1>3, <1>5 DEF Lower
  <2>2. QED BY <1>2, <1>3, <2>1 DEF Lower
<1>7. /\ b \in Nat
      /\ c.max > 0 => b <= c.max
      /\ c.max > 0 /\ b = 0 => facts.bitrate <= c.max
      /\ ~isLosslessFormat(facts.codec) => b <= facts.bitrate
      /\ isLosslessFormat(facts.codec) /\ c.maxTranscoding > 0 => b <= c.maxTranscoding
      /\ isLosslessFormat(facts.codec) /\ ~isLosslessFormat(f) => b > 0
  BY <1>1, BitrateComputed DEF IsClient
<1>9. ~isLosslessFormat(facts.codec) /\ b = 0 => facts.bitrate = 0
  BY <1>3 DEF computeBitrate, Lower, IsClient
<1>10. /\ IntrinsicRate(facts, codec) \in Nat /\ IntrinsicRate(facts, codec) <= HighestRate(facts, codec)
  BY RateTypes
<1> HIDE DEF f, codec, b
<1>11. /\ t.how = "transcode" /\ t.format = f /\ t.codec = codec /\ t.bitrate = b /\ t.rate = IntrinsicRate(facts, codec)
       /\ t.ch \in 0..facts.ch /\ t.depth \in Nat /\ t \in Streams
  <2>1. t = [how |-> "transcode", format |-> f, codec |-> codec, bitrate |-> b,
             depth |-> targetBitDepth(facts, isLosslessFormat(f)), rate |-> IntrinsicRate(facts, codec),
             ch |-> Lower(Lower(facts.ch, codecMaxChannels(codec)), p.ch)]
    BY DEF Unlimited, f, codec, b
  <2>2. t.ch \in Nat /\ t.ch \in 0..facts.ch BY <1>3, <1>6, <2>1
  <2>3. QED BY <1>2, <1>4, <1>7, <1>10, <2>1, <2>2 DEF Streams
<1>12. SourceBounds(facts, t) BY <1>1, <1>3, <1>7, <1>10, <1>11 DEF SourceBounds
<1>13. RateBounds(facts, c, t) BY <1>3, <1>7, <1>11 DEF RateBounds, RateOf
<1>14. QED BY <1>1, <1>7, <1>9, <1>11, <1>12, <1>13

LEMMA StreamIsWithin ==
    ASSUME NEW facts \in AudioFacts, NEW p, IsProfile(p), NEW c, IsClient(c),
           NEW q, q = computeTranscodedStream(facts, p, c), q # Rejected
    PROVE  Within(facts, c, q)
<1> DEFINE t == Unlimited(facts, p, c)
           lims == c.limitations
<1>1. /\ t \in Streams /\ LookupTranscodeCommand(t.format) /\ SourceBounds(facts, t) /\ RateBounds(facts, c, t)
      /\ t.bitrate = 0 => facts.bitrate = 0 \/ isLosslessFormat(t.format)
      /\ q = applyCodecLimitations(facts, t, c)
  BY UnlimitedBounds
<1> HIDE DEF t
<1>2. CASE ~matchesCodec(t.codec, {c.limited})
  <2>1. q = t BY <1>1, <1>2 DEF applyCodecLimitations
  <2>2. QED BY <1>1, <1>2, <2>1 DEF Within
<1>3. CASE matchesCodec(t.codec, {c.limited})
  <2>1. q = Limited(facts, t, lims)[Len(lims)] BY <1>1, <1>3 DEF applyCodecLimitations
  <2>2. lims \in Seq(Limitations) BY DEF IsClient
  <2>3. LeftBy(facts, t, q, lims, Len(lims)) BY <1>1, <2>1, <2>2, AllLimitations
  <2>4. q \in Streams /\ q.format = t.format /\ q.codec = t.codec BY <2>3 DEF LeftBy, Narrowed
  <2>5. /\ facts.bitrate \in Nat /\ t.bitrate \in Nat /\ q.bitrate \in Nat /\ t.ch \in Nat /\ q.ch \in Nat /\ t.rate \in Nat /\ q.rate \in Nat
        /\ facts.ch \in Nat /\ HighestRate(facts, q.codec) \in Nat /\ c.max \in Nat /\ c.maxTranscoding \in Nat
    BY <1>1, <2>4, RateTypes DEF AudioFacts, Streams, HighestRate, IsClient
  <2>6. SourceBounds(facts, q) BY <1>1, <2>3, <2>4, <2>5 DEF SourceBounds, LeftBy, Narrowed
  <2>7. NoneZero(lims) => RateBounds(facts, c, q)
    BY <1>1, <2>3, <2>4, <2>5 DEF RateBounds, LeftBy, Narrowed, Lowers, RateOf
  <2>8. QED BY <1>1, <2>3, <2>4, <2>6, <2>7 DEF Within, LeftBy
<1>4. QED BY <1>2, <1>3

LEMMA DecisionIsWithin ==
    ASSUME NEW facts \in AudioFacts, NEW c, IsClient(c), NEW d, d = MakeDecision(facts, c), d # Rejected
    PROVE  \/ d = [how |-> "direct"] /\ (c.max > 0 => facts.bitrate <= c.max)
           \/ d.how = "transcode" /\ Within(facts, c, d)
<1> DEFINE usable == {i \in DOMAIN c.transcoding : computeTranscodedStream(facts, c.transcoding[i], c) # Rejected}
           first == CHOOSE i \in usable : \A j \in usable : i <= j
           direct == /\ c.max > 0 => facts.bitrate <= c.max
                     /\ \E i \in 1..Len(c.direct) : checkDirectPlayProfile(facts, c.direct[i], c)
<1>1. d = IF direct THEN [how |-> "direct"]
          ELSE IF usable # {} THEN computeTranscodedStream(facts, c.transcoding[first], c) ELSE Rejected
  BY DEF MakeDecision
<1>2. CASE direct BY <1>1, <1>2
<1>3. CASE ~direct
  <2>1. usable # {} /\ usable \subseteq Nat BY <1>1, <1>3 DEF IsClient
  <2>2. \E i \in usable : \A j \in usable : i <= j
    <3> HIDE DEF usable
    <3>1. QED BY <2>1, HasLeast
  <2>3. first \in usable BY <2>2
  <2> HIDE DEF first
  <2>4. d = computeTranscodedStream(facts, c.transcoding[first], c) BY <1>1, <1>3, <2>1
  <2>5. IsProfile(c.transcoding[first]) BY <2>3 DEF IsClient
  <2>6. Within(facts, c, d) BY <2>4, <2>5, StreamIsWithin
  <2>7. QED BY <2>6 DEF Within, Streams
<1>4. QED BY <1>2, <1>3

-------------------------------------------------------------------------------
(* TranscodeDecision: what the server makes of the client's declaration         *)

\* The same but for what is dropped or lowered.
ClientFields == {"max", "maxTranscoding", "direct", "transcoding", "limited", "limitations"}
SameLimits(c, d) ==
    /\ DOMAIN d = ClientFields /\ IsClient(d)
    /\ d.limited = c.limited /\ d.limitations = c.limitations
SameRates(c, d) == d.max = c.max /\ d.maxTranscoding = c.maxTranscoding

LEMMA KeptProfiles ==
    ASSUME NEW c, IsClient(c), DOMAIN c = ClientFields, NEW P, P \subseteq DOMAIN c.transcoding
    PROVE  LET d == [c EXCEPT !.transcoding = Kept(@, P)] IN SameLimits(c, d) /\ SameRates(c, d) /\ d.direct = c.direct
<1> DEFINE d == [c EXCEPT !.transcoding = Kept(@, P)]
<1>1. /\ DOMAIN d = ClientFields /\ d.transcoding = Kept(c.transcoding, P)
      /\ d.max = c.max /\ d.maxTranscoding = c.maxTranscoding /\ d.limited = c.limited /\ d.limitations = c.limitations
      /\ d.direct = c.direct
  BY DEF ClientFields
<1> HIDE DEF d
<1>2. DOMAIN d.transcoding = P /\ \A i \in P : d.transcoding[i] = c.transcoding[i] BY <1>1 DEF Kept
<1>3. IsClient(d) BY <1>1, <1>2 DEF IsClient
<1>4. QED BY <1>1, <1>3 DEF SameLimits, SameRates, d

LEMMA ForcedFormat ==
    ASSUME NEW c, IsClient(c), DOMAIN c = ClientFields, NEW f
    PROVE  SameLimits(c, ForceFormat(c, f)) /\ SameRates(c, ForceFormat(c, f))
<1> DEFINE matched == {i \in DOMAIN c.transcoding : matchesContainer(resolveTargetFormat(c.transcoding[i]), {f})}
           d == [c EXCEPT !.transcoding = Kept(@, matched)]
           e == [c EXCEPT !.transcoding = Kept(@, matched), !.direct = <<>>]
<1>1. ForceFormat(c, f) = c \/ ForceFormat(c, f) = e BY DEF ForceFormat
<1>2. SameLimits(c, d) /\ SameRates(c, d)
  <2>1. matched \subseteq DOMAIN c.transcoding OBVIOUS
  <2> HIDE DEF matched
  <2>2. QED BY <2>1, KeptProfiles
<1>3. /\ DOMAIN e = ClientFields /\ e.transcoding = d.transcoding
      /\ e.max = d.max /\ e.maxTranscoding = d.maxTranscoding /\ e.limited = d.limited /\ e.limitations = d.limitations
  BY DEF ClientFields
<1> HIDE DEF d, e
<1>4. SameLimits(c, e) /\ SameRates(c, e) BY <1>2, <1>3 DEF SameLimits, SameRates, IsClient
<1>5. SameLimits(c, c) /\ SameRates(c, c) BY DEF SameLimits, SameRates
<1>6. QED BY <1>1, <1>4, <1>5

Capped(cap, declared, left) ==
    /\ left \in Nat
    /\ cap > 0 => left > 0 /\ left <= cap
    /\ declared > 0 => left > 0 /\ left <= declared

LEMMA CappedRates ==
    ASSUME NEW c, IsClient(c), DOMAIN c = ClientFields, NEW cap \in Nat
    PROVE  /\ SameLimits(c, CapBitrate(c, cap))
           /\ Capped(cap, c.max, CapBitrate(c, cap).max)
           /\ Capped(cap, c.maxTranscoding, CapBitrate(c, cap).maxTranscoding)
<1> DEFINE d == CapBitrate(c, cap)
<1>1. /\ DOMAIN d = ClientFields /\ d.transcoding = c.transcoding /\ d.limited = c.limited /\ d.limitations = c.limitations
      /\ d.max = IF c.max = 0 \/ (cap > 0 /\ cap < c.max) THEN cap ELSE c.max
      /\ d.maxTranscoding = IF c.maxTranscoding = 0 \/ (cap > 0 /\ cap < c.maxTranscoding) THEN cap ELSE c.maxTranscoding
  BY DEF ClientFields, CapBitrate
<1>2. c.max \in Nat /\ c.maxTranscoding \in Nat BY DEF IsClient
<1> HIDE DEF d
<1>3. d.max \in Nat /\ d.maxTranscoding \in Nat BY <1>1, <1>2
<1>4. IsClient(d) BY <1>1, <1>3 DEF IsClient
<1>5. SameLimits(c, d) BY <1>1, <1>4 DEF SameLimits
<1>6. Capped(cap, c.max, d.max) BY <1>1, <1>2 DEF Capped
<1>7. Capped(cap, c.maxTranscoding, d.maxTranscoding) BY <1>1, <1>2 DEF Capped
<1>8. QED BY <1>5, <1>6, <1>7 DEF d

LEMMA KbpsFacts ==
    ASSUME NEW h \in Nat
    PROVE  bpsToKbps(h) \in Nat /\ 10 * bpsToKbps(h) <= h + 5 /\ (h >= 5 => bpsToKbps(h) > 0)
<1>1. (h + 5) \div 10 \in Nat /\ 10 * ((h + 5) \div 10) <= h + 5 /\ (h + 5 >= 10 => (h + 5) \div 10 > 0) OBVIOUS
<1>2. QED BY <1>1 DEF bpsToKbps

Converted(lims) == [i \in 1..Len(lims) |-> convertBitrateValues(lims[i])]

LEMMA ConvertedLimits ==
    ASSUME NEW lims \in Seq(Limitations)
    PROVE  /\ Converted(lims) \in Seq(Limitations) /\ Len(Converted(lims)) = Len(lims)
           /\ \A i \in 1..Len(lims) : Converted(lims)[i] = convertBitrateValues(lims[i]) /\ Converted(lims)[i].name = lims[i].name
           /\ ~NamesZero(lims) => NoneZero(Converted(lims))
           /\ \A i \in 1..Len(lims) : Zero(Converted(lims)[i]) => lims[i].name = "bitrate" /\ NamesZero(lims)
<1>0. Len(lims) \in Nat /\ \A i \in 1..Len(lims) : lims[i] \in Limitations OBVIOUS
<1>1. ASSUME NEW lim \in Limitations
      PROVE  /\ convertBitrateValues(lim) \in Limitations /\ convertBitrateValues(lim).name = lim.name
             /\ lim.name = "bitrate" => convertBitrateValues(lim).values = [i \in 1..Len(lim.values) |-> bpsToKbps(lim.values[i])]
  <2> DEFINE vs == [i \in 1..Len(lim.values) |-> bpsToKbps(lim.values[i])]
  <2>1. lim.values \in Seq(Nat) BY DEF Limitations
  <2>2. \A i \in 1..Len(lim.values) : bpsToKbps(lim.values[i]) \in Nat
    <3> TAKE i \in 1..Len(lim.values)
    <3>1. lim.values[i] \in Nat BY <2>1
    <3>2. QED BY <3>1, KbpsFacts
  <2>3. vs \in Seq(Nat) BY <2>1, <2>2
  <2> HIDE DEF vs
  <2>4. CASE lim.name = "bitrate"
    <3>1. convertBitrateValues(lim) = [lim EXCEPT !.values = vs] BY <2>4 DEF convertBitrateValues, vs
    <3>2. convertBitrateValues(lim) \in Limitations BY <2>3, <3>1 DEF Limitations
    <3>3. convertBitrateValues(lim).name = lim.name /\ convertBitrateValues(lim).values = vs BY <3>1 DEF Limitations
    <3>4. QED BY <3>2, <3>3 DEF vs
  <2>5. CASE lim.name # "bitrate" BY <2>5 DEF convertBitrateValues
  <2>6. QED BY <2>4, <2>5
<1>2. \A i \in 1..Len(lims) : convertBitrateValues(lims[i]) \in Limitations BY <1>0, <1>1
<1>3. Converted(lims) \in Seq(Limitations) /\ Len(Converted(lims)) = Len(lims) BY <1>0, <1>2 DEF Converted
<1>4. \A i \in 1..Len(lims) : Converted(lims)[i] = convertBitrateValues(lims[i]) /\ Converted(lims)[i].name = lims[i].name
  BY <1>0, <1>1 DEF Converted
<1>5. ASSUME NEW i \in 1..Len(lims), Zero(Converted(lims)[i]) PROVE lims[i].name = "bitrate" /\ NamesZero(lims)
  <2>1. lims[i] \in Limitations /\ lims[i].name = "bitrate" BY <1>0, <1>4, <1>5 DEF Zero
  <2>2. Converted(lims)[i].values = [k \in 1..Len(lims[i].values) |-> bpsToKbps(lims[i].values[k])] BY <1>1, <1>4, <2>1
  <2>3. Len(lims[i].values) \in Nat BY <2>1 DEF Limitations
  <2>4. PICK k \in 1..Len(Converted(lims)[i].values) : Converted(lims)[i].values[k] = 0 BY <1>5 DEF Zero
  <2>5. k \in 1..Len(lims[i].values) /\ bpsToKbps(lims[i].values[k]) = 0 BY <2>2, <2>3, <2>4
  <2>6. QED BY <2>1, <2>5 DEF NamesZero
<1>6. ~NamesZero(lims) => NoneZero(Converted(lims)) BY <1>3, <1>5 DEF NoneZero
<1>7. QED BY <1>3, <1>4, <1>5, <1>6

\* What the negotiation starts from, for a client and the settings of a player.
LEMMA NegotiatedClient ==
    ASSUME NEW c \in Clients, player \in Players
    PROVE  LET n == Negotiated(c)
           IN  /\ IsClient(n) /\ n.limited = c.limited /\ n.limitations = Converted(c.limitations)
               /\ Capped(player.cap, bpsToKbps(c.max), n.max)
               /\ Capped(player.cap, bpsToKbps(c.maxTranscoding), n.maxTranscoding)
<1> DEFINE core == toCoreClientInfo(c)
           others == {i \in DOMAIN core.transcoding : ~IsAACCodec(resolveTargetFormat(core.transcoding[i]))}
           left == [core EXCEPT !.transcoding = Kept(@, others)]
           forced == ForceFormat(left, player.forced)
           n == Negotiated(c)
<1>1. n = CapBitrate(forced, player.cap) BY DEF Negotiated
<1>2. player.cap \in Nat BY DEF Players
<1>3. /\ c.max \in Nat /\ c.maxTranscoding \in Nat /\ c.limitations \in Seq(Limitations) /\ c.transcoding \in Seq(Profiles)
      /\ DOMAIN c = ClientFields
  BY DEF Clients, ClientFields
<1>4. /\ DOMAIN core = ClientFields /\ core.max = bpsToKbps(c.max) /\ core.maxTranscoding = bpsToKbps(c.maxTranscoding)
      /\ core.transcoding = c.transcoding /\ core.limited = c.limited /\ core.limitations = Converted(c.limitations)
  BY <1>3 DEF toCoreClientInfo, ClientFields, Converted
<1>5. IsClient(core)
  <2>1. core.max \in Nat /\ core.maxTranscoding \in Nat BY <1>3, <1>4, KbpsFacts
  <2>2. core.limitations \in Seq(Limitations) BY <1>3, <1>4, ConvertedLimits
  <2>3. DOMAIN core.transcoding \subseteq Nat /\ \A i \in DOMAIN core.transcoding : IsProfile(core.transcoding[i])
    <3>1. \A i \in DOMAIN c.transcoding : c.transcoding[i] \in Profiles /\ i \in Nat BY <1>3
    <3>2. \A p \in Profiles : IsProfile(p) BY DEF IsProfile, Profiles
    <3> HIDE DEF core
    <3>3. QED BY <1>4, <3>1, <3>2
  <2>4. QED BY <2>1, <2>2, <2>3 DEF IsClient
<1>6. SameLimits(core, left) /\ SameRates(core, left)
  <2>1. others \subseteq DOMAIN core.transcoding OBVIOUS
  <2> HIDE DEF core, others
  <2>2. QED BY <1>4, <1>5, <2>1, KeptProfiles
<1> HIDE DEF core, left
<1>7. SameLimits(left, forced) /\ SameRates(left, forced) BY <1>6, ForcedFormat DEF SameLimits
<1> HIDE DEF forced
<1>8. /\ SameLimits(forced, n) /\ Capped(player.cap, forced.max, n.max)
      /\ Capped(player.cap, forced.maxTranscoding, n.maxTranscoding)
  BY <1>1, <1>2, <1>7, CappedRates DEF SameLimits
<1> HIDE DEF n
<1>9. /\ IsClient(n) /\ n.limited = c.limited /\ n.limitations = Converted(c.limitations)
      /\ forced.max = bpsToKbps(c.max) /\ forced.maxTranscoding = bpsToKbps(c.maxTranscoding)
  BY <1>4, <1>6, <1>7, <1>8 DEF SameLimits, SameRates
<1>10. QED BY <1>8, <1>9 DEF n

\* What AgreedFitsTheClient says, of a decision about some facts.
RateClauses(c, facts, d, rate) ==
    /\ player.cap > 0 => rate <= player.cap
    /\ c.max >= 5 => 10 * rate <= c.max + 5
    /\ d.how = "transcode" /\ isLosslessFormat(facts.codec) /\ c.maxTranscoding >= 5 =>
        10 * d.bitrate <= c.maxTranscoding + 5

LEMMA RatesFit ==
    ASSUME NEW c \in Clients, player \in Players, NEW facts \in AudioFacts, NEW n, n = Negotiated(c),
           NEW d, NEW rate \in Nat, n.max > 0 => rate <= n.max,
           d.how = "transcode" => d.bitrate \in Nat /\ (isLosslessFormat(facts.codec) /\ n.maxTranscoding > 0 => d.bitrate <= n.maxTranscoding)
    PROVE  RateClauses(c, facts, d, rate)
<1>1. /\ c.max \in Nat /\ c.maxTranscoding \in Nat /\ player.cap \in Nat BY DEF Clients, Players
<1>2. Capped(player.cap, bpsToKbps(c.max), n.max) /\ Capped(player.cap, bpsToKbps(c.maxTranscoding), n.maxTranscoding)
  BY NegotiatedClient
<1>3. n.max \in Nat /\ n.maxTranscoding \in Nat BY <1>2 DEF Capped
<1>4. player.cap > 0 => rate <= player.cap BY <1>1, <1>2, <1>3 DEF Capped
<1>5. /\ bpsToKbps(c.max) \in Nat /\ 10 * bpsToKbps(c.max) <= c.max + 5 /\ (c.max >= 5 => bpsToKbps(c.max) > 0)
      /\ bpsToKbps(c.maxTranscoding) \in Nat /\ 10 * bpsToKbps(c.maxTranscoding) <= c.maxTranscoding + 5
      /\ (c.maxTranscoding >= 5 => bpsToKbps(c.maxTranscoding) > 0)
  BY <1>1, KbpsFacts
<1>6. c.max >= 5 => 10 * rate <= c.max + 5 BY <1>1, <1>2, <1>3, <1>5 DEF Capped
<1>7. d.how = "transcode" /\ isLosslessFormat(facts.codec) /\ c.maxTranscoding >= 5 => 10 * d.bitrate <= c.maxTranscoding + 5
  BY <1>1, <1>2, <1>3, <1>5 DEF Capped
<1>8. QED BY <1>4, <1>6, <1>7 DEF RateClauses

FittingStream(c, facts, d, rate) ==
    /\ d.ch <= facts.ch /\ d.rate <= IF d.codec = "opus" THEN 48 ELSE normalizeSourceSampleRate(facts)
    /\ ~isLosslessFormat(facts.codec) => d.bitrate <= facts.bitrate /\ ~isLosslessFormat(d.format)
    /\ Distinct(c.limitations) /\ matchesCodec(d.codec, {c.limited}) =>
         \A i \in 1..Len(c.limitations) :
            \/ c.limitations[i].name = "depth" /\ d.depth = 0
            \/ c.limitations[i].name = "bitrate" /\ NamesZero(c.limitations)
            \/ Fits(convertBitrateValues(c.limitations[i]),
                    IF c.limitations[i].name = "bitrate" THEN rate ELSE d[c.limitations[i].name])

LEMMA StreamFits ==
    ASSUME NEW c \in Clients, player \in Players, NEW facts \in AudioFacts,
           NEW d, Within(facts, Negotiated(c), d)
    PROVE  FittingStream(c, facts, d, RateOf(facts, d))
<1> DEFINE n == Negotiated(c)
           lims == c.limitations
<1>1. n.limited = c.limited /\ n.limitations = Converted(lims) BY NegotiatedClient
<1>2. lims \in Seq(Limitations) BY DEF Clients
<1>3. Len(n.limitations) = Len(lims) /\ \A i \in 1..Len(lims) :
            /\ n.limitations[i] = convertBitrateValues(lims[i]) /\ n.limitations[i].name = lims[i].name
            /\ Zero(n.limitations[i]) => lims[i].name = "bitrate" /\ NamesZero(lims)
  BY <1>1, <1>2, ConvertedLimits
<1> HIDE DEF n
<1>4. Distinct(lims) => Distinct(n.limitations) BY <1>3 DEF Distinct
<1>5. ASSUME Distinct(lims), matchesCodec(d.codec, {c.limited}), NEW i \in 1..Len(lims)
      PROVE  \/ lims[i].name = "depth" /\ d.depth = 0
             \/ lims[i].name = "bitrate" /\ NamesZero(lims)
             \/ Fits(convertBitrateValues(lims[i]), IF lims[i].name = "bitrate" THEN RateOf(facts, d) ELSE d[lims[i].name])
  <2>1. Met(facts, d, n.limitations[i]) BY <1>1, <1>3, <1>4, <1>5 DEF Within, n
  <2>2. QED BY <1>3, <2>1 DEF Met, Value
<1>6. SourceBounds(facts, d) BY DEF Within
<1>7. QED BY <1>5, <1>6 DEF FittingStream, SourceBounds, HighestRate

\* AgreedFitsTheClient, of a token whose decision is the one for its facts.
LEMMA AgreedFits ==
    ASSUME device \in Devices, device.declares # <<>>, token # NoToken, token.src \in AudioFacts,
           token.ts = MakeDecision(token.src, Negotiated(client)), token.ts # Rejected, token.how = token.ts.how
    PROVE  AgreedFitsTheClient
<1> DEFINE facts == token.src
           n == Negotiated(client)
           d == token.ts
           lims == client.limitations
           rate == IF token.how = "direct" \/ d.bitrate = 0 THEN facts.bitrate ELSE d.bitrate
<1>1. client \in Clients /\ player \in Players
  BY DecisionAssumption DEF DecisionAssumption, client, player
<1>2. IsClient(n) /\ n.limitations = Converted(lims) BY <1>1, NegotiatedClient
<1>3. facts.bitrate \in Nat BY DEF AudioFacts
<1>4. \/ d = [how |-> "direct"] /\ (n.max > 0 => facts.bitrate <= n.max)
      \/ d.how = "transcode" /\ Within(facts, n, d)
  BY <1>2, DecisionIsWithin
<1>5. lims \in Seq(Limitations) BY <1>1 DEF Clients
<1>6. ~NamesZero(lims) => NoneZero(n.limitations) BY <1>2, <1>5, ConvertedLimits
<1>7. ~NamesZero(lims) => RateClauses(client, facts, d, rate)
  <2>1. CASE d = [how |-> "direct"] /\ (n.max > 0 => facts.bitrate <= n.max)
    <3>1. d.how # "transcode" /\ rate = facts.bitrate BY <2>1
    <3>2. QED BY <1>1, <1>3, <2>1, <3>1, RatesFit
  <2>2. CASE d.how = "transcode" /\ Within(facts, n, d) /\ ~NamesZero(lims)
    <3>1. RateBounds(facts, n, d) /\ d.bitrate \in Nat BY <1>6, <2>2 DEF Within, Streams
    <3>2. rate = RateOf(facts, d) /\ rate \in Nat BY <1>3, <2>2, <3>1 DEF RateOf
    <3>3. QED BY <1>1, <3>1, <3>2, RatesFit DEF RateBounds
  <2>3. QED BY <1>4, <2>1, <2>2
<1>8. token.how = "transcode" => FittingStream(client, facts, d, rate)
  <2>1. SUFFICES ASSUME token.how = "transcode" PROVE FittingStream(client, facts, d, rate) OBVIOUS
  <2>2. Within(facts, n, d)
    <3>1. d.how = "transcode" BY <2>1
    <3>2. d = [how |-> "direct"] => d.how = "direct" OBVIOUS
    <3> HIDE DEF d, n, facts
    <3>3. QED BY <1>4, <3>1, <3>2
  <2>3. rate = RateOf(facts, d) BY <2>1 DEF RateOf
  <2>4. QED BY <1>1, <2>2, <2>3, StreamFits
<1>9. QED BY <1>7, <1>8 DEF AgreedFitsTheClient, RateClauses, FittingStream, Distinct

-------------------------------------------------------------------------------
(* TranscodeDecision: the command line                                         *)

\* Words and their numbers (the provers know of no text that it is in STRING).
OwnWords == {"-", "-f", "-i", "path", "-ss", "-b:a", "-ar", "-ac", "-sample_fmt"}
Words == (STRING \cup OwnWords) \X Nat
Args == Seq(Words)
At(args, flag) == {i \in 1..Len(args) : args[i][1] = flag}

\* A flag is where it was, with what it had.
SameAt(args, r, flag) == At(r, flag) = At(args, flag) /\ \A i \in At(args, flag) : r[i] = args[i]

LEMMA LastFacts ==
    ASSUME NEW args, Len(args) \in Nat, NEW flag
    PROVE  /\ At(args, flag) = {} => LastAt(args, flag) = 0
           /\ At(args, flag) # {} => LastAt(args, flag) \in At(args, flag) /\ \A j \in At(args, flag) : j <= LastAt(args, flag)
           /\ LastAt(args, flag) \in 0..Len(args)
<1> DEFINE at == At(args, flag)
           last == CHOOSE i \in at : \A j \in at : j <= i
<1>1. LastAt(args, flag) = IF at = {} THEN 0 ELSE last BY DEF LastAt, At
<1>2. at \subseteq 1..Len(args) BY DEF At
<1> HIDE DEF at
<1>3. at # {} => \E i \in at : \A j \in at : j <= i
  <2> DEFINE T == {Len(args) - i : i \in at}
  <2>1. SUFFICES ASSUME at # {} PROVE \E i \in at : \A j \in at : j <= i OBVIOUS
  <2>2. T \subseteq Nat /\ T # {}
    <3>1. \A i \in at : i \in Nat /\ Len(args) - i \in Nat BY <1>2
    <3>2. QED BY <2>1, <3>1
  <2>3. PICK m \in T : \A u \in T : m <= u BY <2>2, HasLeast
  <2>4. PICK i \in at : m = Len(args) - i BY <2>3
  <2>5. \A j \in at : Len(args) - i <= Len(args) - j BY <2>3, <2>4
  <2>6. QED BY <1>2, <2>5
<1>4. at # {} => last \in at /\ \A j \in at : j <= last BY <1>3
<1> HIDE DEF last
<1>5. QED BY <1>1, <1>2, <1>4 DEF at

LEMMA LastIsThere ==
    ASSUME NEW args, Len(args) \in Nat, NEW flag, NEW k \in At(args, flag), \A j \in At(args, flag) : j <= k
    PROVE  LastAt(args, flag) = k /\ Given(args, flag) = args[k][2]
<1>1. LastAt(args, flag) \in At(args, flag) /\ k <= LastAt(args, flag) /\ LastAt(args, flag) <= k BY LastFacts
<1>2. k \in 1..Len(args) BY DEF At
<1>3. LastAt(args, flag) = k BY <1>1, <1>2 DEF At
<1>4. QED BY <1>2, <1>3 DEF Given

LEMMA NowhereThere ==
    ASSUME NEW args, Len(args) \in Nat, NEW flag, At(args, flag) = {}
    PROVE  LastAt(args, flag) = 0 /\ Given(args, flag) = 0
BY LastFacts DEF Given

LEMMA SameIsGiven ==
    ASSUME NEW args, NEW r, Len(args) \in Nat, Len(r) \in Nat, NEW flag, SameAt(args, r, flag)
    PROVE  LastAt(r, flag) = LastAt(args, flag) /\ Given(r, flag) = Given(args, flag)
<1>1. CASE At(args, flag) = {} BY <1>1, NowhereThere DEF SameAt
<1>2. CASE At(args, flag) # {}
  <2> DEFINE k == LastAt(args, flag)
  <2>1. k \in At(args, flag) /\ \A j \in At(args, flag) : j <= k BY <1>2, LastFacts
  <2> HIDE DEF k
  <2>2. k \in At(r, flag) /\ (\A j \in At(r, flag) : j <= k) /\ r[k] = args[k] BY <2>1 DEF SameAt
  <2>3. LastAt(r, flag) = k /\ Given(r, flag) = r[k][2] BY <2>2, LastIsThere
  <2>4. LastAt(args, flag) = k /\ Given(args, flag) = args[k][2] BY <2>1, LastIsThere
  <2>5. QED BY <2>2, <2>3, <2>4
<1>3. QED BY <1>1, <1>2

LEMMA WordFacts == ASSUME NEW w \in STRING \cup OwnWords PROVE Word(w) \in Words /\ Word(w)[1] = w /\ Word(w)[2] = 0
BY DEF Word, Words

LEMMA OptionFacts ==
    ASSUME NEW w \in STRING \cup OwnWords, NEW n \in Nat
    PROVE  Option(w, n) \in Words /\ Option(w, n)[1] = w /\ Option(w, n)[2] = n
BY DEF Option, Words

\* An option that is put in comes last of its kind and moves no other one.
PutAt(args, o, r, k) ==
    /\ r[k] = o
    /\ \A i \in 1..(k - 1) : i \in 1..Len(args) /\ r[i] = args[i]
    /\ \A i \in (k + 1)..Len(r) : r[i][1] = "-"
    /\ \A i \in k..Len(args) : args[i][1] = "-"

LEMMA InjectedForm ==
    ASSUME NEW args \in Args, NEW o \in Words, NEW r, r = injectBeforeOutput(args, o)
    PROVE  r \in Args /\ Len(r) = Len(args) + 1 /\ \E k \in 1..Len(r) : PutAt(args, o, r, k)
<1>0. Len(args) \in Nat /\ \A i \in 1..Len(args) : args[i] \in Words BY DEF Args
<1>1. CASE args # <<>> /\ args[Len(args)] = Word("-")
  <2> DEFINE n == Len(args)
             front == SubSeq(args, 1, n - 1)
  <2>1. n \in Nat /\ n >= 1 BY <1>0, <1>1 DEF Args
  <2>2. front \in Args /\ Len(front) = n - 1 /\ \A i \in 1..(n - 1) : front[i] = args[i]
    <3>1. args \in Seq(Words) BY DEF Args
    <3>2. \A i \in 1..(n - 1) : args[i] \in Words BY <1>0, <2>1
    <3>3. front = [i \in 1..(n - 1) |-> args[i]] BY <2>1, <3>1
    <3> HIDE DEF front
    <3>4. front \in Seq(Words) /\ Len(front) = n - 1 BY <2>1, <3>2, <3>3
    <3>5. QED BY <3>3, <3>4 DEF Args
  <2>3. r = front \o <<o, Word("-")>> BY <1>1 DEF injectBeforeOutput
  <2>4. Word("-") \in Words /\ Word("-")[1] = "-"
    <3>1. "-" \in OwnWords BY DEF OwnWords
    <3> HIDE DEF n, front
    <3>2. QED BY <3>1, WordFacts
  <2>5. <<o, Word("-")>> \in Args BY <2>4 DEF Args
  <2> HIDE DEF front
  <2>6. r \in Args BY <2>2, <2>3, <2>5 DEF Args
  <2>7. Len(r) = n + 1 /\ \A i \in 1..(n + 1) : r[i] = IF i <= n - 1 THEN front[i] ELSE <<o, Word("-")>>[i - (n - 1)]
    BY <2>1, <2>2, <2>3 DEF Args
  <2>8. r[n] = o BY <2>1, <2>7
  <2>9. r[n + 1] = Word("-") BY <2>1, <2>7
  <2>10. \A i \in 1..(n - 1) : i \in 1..n /\ r[i] = args[i] BY <2>1, <2>2, <2>7
  <2>11. args[n][1] = "-" BY <1>1, <2>4
  <2>12. \A i \in (n + 1)..Len(r) : r[i][1] = "-" BY <2>1, <2>4, <2>7, <2>9
  <2>13. \A i \in n..n : args[i][1] = "-" BY <2>1, <2>11
  <2>14. n \in 1..Len(r) BY <2>1, <2>7
  <2>15. PutAt(args, o, r, n) BY <2>8, <2>10, <2>12, <2>13 DEF PutAt
  <2>16. QED BY <2>6, <2>7, <2>14, <2>15
<1>2. CASE ~(args # <<>> /\ args[Len(args)] = Word("-"))
  <2>1. r = Append(args, o) BY <1>2 DEF injectBeforeOutput
  <2>2. /\ r \in Args /\ Len(r) = Len(args) + 1 /\ r[Len(args) + 1] = o /\ \A i \in 1..Len(args) : r[i] = args[i]
    BY <1>0, <2>1 DEF Args
  <2>3. Len(args) + 1 \in 1..Len(r) BY <1>0, <2>2
  <2> DEFINE k == Len(args) + 1
  <2>4. \A i \in 1..(k - 1) : i \in 1..Len(args) /\ r[i] = args[i] BY <1>0, <2>2
  <2>5. \A i \in k..Len(args) : args[i][1] = "-" BY <1>0
  <2>6. r[k] = o BY <2>2
  <2>7. k \in 1..Len(r) BY <2>3
  <2>8. \A i \in (k + 1)..Len(r) : r[i][1] = "-" BY <1>0, <2>2
  <2> HIDE DEF k
  <2>9. PutAt(args, o, r, k) BY <2>4, <2>5, <2>6, <2>8 DEF PutAt
  <2>10. QED BY <2>2, <2>7, <2>9
<1>3. QED BY <1>1, <1>2

LEMMA InjectedFlags ==
    ASSUME NEW args \in Args, NEW o \in Words, o[1] # "-", NEW r, r = injectBeforeOutput(args, o)
    PROVE  /\ r \in Args /\ Given(r, o[1]) = o[2]
           /\ \A flag : flag # o[1] /\ flag # "-" => SameAt(args, r, flag)
<1>0. Len(args) \in Nat /\ Len(r) \in Nat /\ r \in Args /\ Len(r) = Len(args) + 1 BY InjectedForm DEF Args
<1>1. PICK k \in 1..Len(r) : PutAt(args, o, r, k) BY InjectedForm
<1>2. Given(r, o[1]) = o[2]
  <2>1. k \in At(r, o[1]) BY <1>1 DEF At, PutAt
  <2>2. \A j \in At(r, o[1]) : j <= k BY <1>0, <1>1 DEF At, PutAt
  <2>3. Given(r, o[1]) = r[k][2] BY <1>0, <2>1, <2>2, LastIsThere
  <2>4. QED BY <1>1, <2>3 DEF PutAt
<1>3. ASSUME NEW flag, flag # o[1], flag # "-" PROVE SameAt(args, r, flag)
  <2>1. \A i \in At(r, flag) : i \in 1..(k - 1) BY <1>0, <1>1, <1>3 DEF At, PutAt
  <2>2. \A i \in At(args, flag) : i \in 1..(k - 1) BY <1>0, <1>1, <1>3 DEF At, PutAt
  <2>3. \A i \in 1..(k - 1) : i \in 1..Len(r) /\ i \in 1..Len(args) /\ r[i] = args[i] BY <1>0, <1>1 DEF PutAt
  <2>4. \A i : i \in At(r, flag) <=> i \in At(args, flag) BY <2>1, <2>2, <2>3 DEF At
  <2>5. QED BY <2>2, <2>3, <2>4 DEF SameAt
<1>4. QED BY <1>0, <1>2, <1>3

\* What is put in for the rate, the channels and the depth of the samples.
OwnFlags == {"-ar", "-ac", "-sample_fmt", "-"}

LEMMA InjectedWhen ==
    ASSUME NEW args \in Args, NEW o \in Words, o[1] # "-", NEW on \in BOOLEAN, NEW r, r = Inject(args, o, on)
    PROVE  /\ r \in Args
           /\ Given(r, o[1]) = IF on THEN o[2] ELSE Given(args, o[1])
           /\ \A flag : flag # o[1] /\ flag # "-" => Given(r, flag) = Given(args, flag) /\ SameAt(args, r, flag)
<1>1. CASE on
  <2>1. r = injectBeforeOutput(args, o) BY <1>1 DEF Inject
  <2>2. r \in Args /\ Given(r, o[1]) = o[2] BY <2>1, InjectedFlags
  <2>3. ASSUME NEW flag, flag # o[1], flag # "-" PROVE Given(r, flag) = Given(args, flag) /\ SameAt(args, r, flag)
    <3>1. SameAt(args, r, flag) BY <2>1, <2>3, InjectedFlags
    <3>2. Len(args) \in Nat /\ Len(r) \in Nat BY <2>2 DEF Args
    <3>3. QED BY <3>1, <3>2, SameIsGiven
  <2>4. QED BY <1>1, <2>2, <2>3
<1>2. CASE ~on BY <1>2 DEF Inject, SameAt
<1>3. QED BY <1>1, <1>2

LEMMA AudioFlags ==
    ASSUME NEW args \in Args, NEW ts \in Streams, NEW r, r = injectDynamicAudioFlags(args, ts)
    PROVE  /\ r \in Args
           /\ Given(r, "-ar") = IF ts.rate > 0 THEN ts.rate ELSE Given(args, "-ar")
           /\ Given(r, "-ac") = IF ts.ch > 0 THEN ts.ch ELSE Given(args, "-ac")
           /\ \A flag : flag \notin OwnFlags => Given(r, flag) = Given(args, flag) /\ SameAt(args, r, flag)
<1> DEFINE depth == IF ts.depth = 16 THEN 16 ELSE 32
           hasRate == ts.rate > 0
           hasCh == ts.ch > 0
           a == Inject(args, Option("-ar", ts.rate), hasRate)
           b == Inject(a, Option("-ac", ts.ch), hasCh)
           deep == ts.depth >= 16 /\ isLosslessFormat(ts.format)
<1>1. ts.rate \in Nat /\ ts.ch \in Nat /\ depth \in Nat BY DEF Streams
<1>2. /\ Option("-ar", ts.rate) \in Words /\ Option("-ar", ts.rate)[1] = "-ar" /\ Option("-ar", ts.rate)[2] = ts.rate
      /\ Option("-ac", ts.ch) \in Words /\ Option("-ac", ts.ch)[1] = "-ac" /\ Option("-ac", ts.ch)[2] = ts.ch
      /\ Option("-sample_fmt", depth) \in Words /\ Option("-sample_fmt", depth)[1] = "-sample_fmt"
  <2>1. "-ar" \in OwnWords /\ "-ac" \in OwnWords /\ "-sample_fmt" \in OwnWords BY DEF OwnWords
  <2> HIDE DEF depth
  <2>2. QED BY <1>1, <2>1, OptionFacts
<1>3. r = Inject(b, Option("-sample_fmt", depth), deep) BY DEF injectDynamicAudioFlags
<1>4. hasRate \in BOOLEAN /\ hasCh \in BOOLEAN /\ deep \in BOOLEAN OBVIOUS
<1> HIDE DEF depth, deep, hasRate, hasCh
<1>5. /\ a \in Args /\ Given(a, "-ar") = IF hasRate THEN ts.rate ELSE Given(args, "-ar")
      /\ \A flag : flag # "-ar" /\ flag # "-" => Given(a, flag) = Given(args, flag) /\ SameAt(args, a, flag)
  BY <1>2, <1>4, InjectedWhen
<1> HIDE DEF a
<1>6. /\ b \in Args /\ Given(b, "-ac") = IF hasCh THEN ts.ch ELSE Given(a, "-ac")
      /\ \A flag : flag # "-ac" /\ flag # "-" => Given(b, flag) = Given(a, flag) /\ SameAt(a, b, flag)
  BY <1>2, <1>4, <1>5, InjectedWhen
<1> HIDE DEF b
<1>7. /\ r \in Args
      /\ \A flag : flag # "-sample_fmt" /\ flag # "-" => Given(r, flag) = Given(b, flag) /\ SameAt(b, r, flag)
  BY <1>2, <1>3, <1>4, <1>6, InjectedWhen
<1>8. Given(r, "-ar") = IF ts.rate > 0 THEN ts.rate ELSE Given(args, "-ar") BY <1>5, <1>6, <1>7 DEF hasRate
<1>9. Given(r, "-ac") = IF ts.ch > 0 THEN ts.ch ELSE Given(args, "-ac") BY <1>5, <1>6, <1>7 DEF hasCh
<1>10. ASSUME NEW flag, flag \notin OwnFlags PROVE Given(r, flag) = Given(args, flag) /\ SameAt(args, r, flag)
  <2>1. flag # "-ar" /\ flag # "-ac" /\ flag # "-sample_fmt" /\ flag # "-" BY <1>10 DEF OwnFlags
  <2>2. SameAt(args, a, flag) /\ SameAt(a, b, flag) /\ SameAt(b, r, flag) BY <1>5, <1>6, <1>7, <2>1
  <2>3. SameAt(args, r, flag) BY <2>2 DEF SameAt
  <2>4. QED BY <1>5, <1>6, <1>7, <2>1, <2>3
<1>11. QED BY <1>7, <1>8, <1>9, <1>10

\* A word at the end moves no other one.
Appended(args, flag0, n, r) ==
    /\ r \in Args /\ Given(r, flag0) = n
    /\ Len(r) = Len(args) + 1 /\ Len(r) \in At(r, flag0) /\ r[Len(r)][2] = n
    /\ At(r, flag0) = At(args, flag0) \cup {Len(r)} /\ \A i \in At(args, flag0) : i < Len(r) /\ r[i] = args[i]
    /\ \A flag : flag # flag0 => Given(r, flag) = Given(args, flag) /\ SameAt(args, r, flag)

LEMMA AppendedFlags ==
    ASSUME NEW args \in Args, NEW w \in Words, NEW r, r = Append(args, w)
    PROVE  Appended(args, w[1], w[2], r)
<1>0. Len(args) \in Nat BY DEF Args
<1>1. /\ r \in Args /\ Len(r) = Len(args) + 1 /\ r[Len(args) + 1] = w /\ \A i \in 1..Len(args) : r[i] = args[i]
  BY <1>0 DEF Args
<1>2. Len(r) \in At(r, w[1]) /\ r[Len(r)] = w BY <1>0, <1>1 DEF At
<1>3. \A j \in At(r, w[1]) : j <= Len(r) BY <1>0, <1>1 DEF At
<1>4. Len(r) \in Nat BY <1>0, <1>1
<1>5. Given(r, w[1]) = r[Len(r)][2] BY <1>2, <1>3, <1>4, LastIsThere
<1>6. ASSUME NEW flag, flag # w[1] PROVE Given(r, flag) = Given(args, flag) /\ SameAt(args, r, flag)
  <2>1. \A i : i \in At(r, flag) <=> i \in At(args, flag) BY <1>0, <1>1, <1>6 DEF At
  <2>2. SameAt(args, r, flag) BY <1>1, <2>1 DEF SameAt, At
  <2>3. QED BY <1>0, <1>4, <2>2, SameIsGiven
<1>7. \A i \in At(args, w[1]) : i < Len(r) /\ r[i] = args[i] BY <1>0, <1>1 DEF At
<1>8. \A i : i \in At(r, w[1]) <=> i \in At(args, w[1]) \/ i = Len(r) BY <1>0, <1>1, <1>2 DEF At
<1>9. At(r, w[1]) = At(args, w[1]) \cup {Len(r)} BY <1>8
<1>10. r[Len(r)][2] = w[2] BY <1>2
<1>11. QED BY <1>1, <1>2, <1>5, <1>6, <1>7, <1>9, <1>10 DEF Appended

\* ffmpeg is told to start at the offset, once, and before it reads.
Seeks(args, offset) ==
    \E k \in At(args, "-ss") : /\ At(args, "-ss") = {k} /\ args[k][2] = offset
                               /\ \E j \in At(args, "-i") : k < j

LEMMA SeeksSame ==
    ASSUME NEW args, NEW r, NEW offset, SameAt(args, r, "-ss"), SameAt(args, r, "-i"), Seeks(args, offset)
    PROVE  Seeks(r, offset)
BY DEF SameAt, Seeks

LEMMA SeeksOnce ==
    ASSUME NEW args \in Args, NEW offset, Seeks(args, offset)
    PROVE  /\ Given(args, "-ss") = offset /\ LastAt(args, "-ss") < LastAt(args, "-i")
           /\ Cardinality({i \in 1..Len(args) : args[i][1] = "-ss"}) = 1
<1>0. Len(args) \in Nat BY DEF Args
<1>1. PICK k \in At(args, "-ss") : At(args, "-ss") = {k} /\ args[k][2] = offset /\ \E j \in At(args, "-i") : k < j BY DEF Seeks
<1>2. k \in Nat BY <1>0 DEF At
<1>3. \A j \in At(args, "-ss") : j <= k BY <1>1, <1>2
<1>4. LastAt(args, "-ss") = k /\ Given(args, "-ss") = offset BY <1>0, <1>1, <1>3, LastIsThere
<1>5. PICK j \in At(args, "-i") : k < j BY <1>1
<1>6. j <= LastAt(args, "-i") /\ LastAt(args, "-i") \in Nat /\ j \in Nat BY <1>0, <1>5, LastFacts DEF At
<1>7. {i \in 1..Len(args) : args[i][1] = "-ss"} = {k} BY <1>1 DEF At
<1>8. Cardinality({i \in 1..Len(args) : args[i][1] = "-ss"}) = 1 BY <1>7, FS_Singleton
<1>9. LastAt(args, "-ss") < LastAt(args, "-i") BY <1>2, <1>4, <1>5, <1>6
<1>10. QED BY <1>4, <1>8, <1>9

\* The server's own command line.
Agreed(args, ts) ==
    Given(args, "-ar") = ts.rate /\ Given(args, "-ac") = ts.ch /\ Given(args, "-b:a") = ts.bitrate

LEMMA DynamicArgs ==
    ASSUME NEW ts \in Streams, LookupTranscodeCommand(ts.format), NEW offset \in Nat,
           NEW r, r = buildDynamicArgs(ts, offset)
    PROVE  r \in Args /\ Agreed(r, ts) /\ (offset > 0 => Seeks(r, offset))
<1> DEFINE e0 == IF offset > 0 THEN <<Option("-ss", offset)>> ELSE <<>>
           e1 == Append(e0, Word("-i"))
           e2 == Append(e1, Word("path"))
           e3 == Append(e2, Word(ts.format))
           e4 == IF ts.bitrate > 0 THEN Append(e3, Option("-b:a", ts.bitrate)) ELSE e3
           e5 == injectDynamicAudioFlags(e4, ts)
           e6 == Append(e5, Word("-f"))
           e7 == Append(e6, Word("-"))
           Mine == {"-ar", "-ac", "-b:a", "-ss", "-i"}
<1>1. ts.format \in STRING /\ ts.bitrate \in Nat /\ ts.rate \in Nat /\ ts.ch \in Nat BY DEF Streams
<1>2. /\ "-i" \in OwnWords /\ "path" \in OwnWords /\ "-f" \in OwnWords /\ "-" \in OwnWords /\ "-b:a" \in OwnWords /\ "-ss" \in OwnWords
  BY DEF OwnWords
<1>3. /\ Word("-i") \in Words /\ Word("-i")[1] = "-i" /\ Word("path") \in Words /\ Word("path")[1] = "path"
      /\ Word("-f") \in Words /\ Word("-f")[1] = "-f" /\ Word("-") \in Words /\ Word("-")[1] = "-"
      /\ Word(ts.format) \in Words /\ Word(ts.format)[1] = ts.format
  BY <1>1, <1>2, WordFacts
<1>4. /\ Option("-b:a", ts.bitrate) \in Words /\ Option("-b:a", ts.bitrate)[1] = "-b:a" /\ Option("-b:a", ts.bitrate)[2] = ts.bitrate
      /\ Option("-ss", offset) \in Words /\ Option("-ss", offset)[1] = "-ss" /\ Option("-ss", offset)[2] = offset
  BY <1>1, <1>2, OptionFacts
<1>5. ts.format \notin Mine BY DEF LookupTranscodeCommand
<1>6. e0 \in Args /\ Len(e0) \in Nat /\ (\A flag : flag # "-ss" => At(e0, flag) = {})
      /\ (offset > 0 => At(e0, "-ss") = {1} /\ e0[1][2] = offset /\ Len(e0) = 1)
  BY <1>4 DEF Args, At
<1>7. r = e7
  <2> DEFINE base == e0 \o <<Word("-i"), Word("path"), Word(ts.format)>>
             byRate == base \o (IF ts.bitrate > 0 THEN <<Option("-b:a", ts.bitrate)>> ELSE <<>>)
  <2>1. base = e3
    <3> HIDE DEF e0
    <3>1. QED BY <1>3, <1>6 DEF Args
  <2>2. e3 \in Args
    <3> HIDE DEF e0
    <3>1. QED BY <1>3, <1>6 DEF Args
  <2> HIDE DEF base, e3
  <2>3. byRate = e4 BY <1>4, <2>1, <2>2 DEF Args
  <2>4. r = injectDynamicAudioFlags(byRate, ts) \o <<Word("-f"), Word("-")>> BY DEF buildDynamicArgs, base, e3
  <2>5. e4 \in Args BY <1>4, <2>2 DEF Args
  <2> HIDE DEF byRate, e4
  <2>6. e5 \in Args BY <2>5, AudioFlags
  <2> HIDE DEF e5
  <2>7. e5 \o <<Word("-f"), Word("-")>> = e7 BY <1>3, <2>6 DEF Args
  <2>8. QED BY <2>3, <2>4, <2>7 DEF e5
<1> HIDE DEF e0
<1>8. /\ e1 \in Args /\ Len(e1) = Len(e0) + 1 /\ Len(e1) \in At(e1, "-i")
      /\ \A flag : flag # "-i" => Given(e1, flag) = Given(e0, flag) /\ SameAt(e0, e1, flag)
  <2>1. Appended(e0, Word("-i")[1], Word("-i")[2], e1) BY <1>3, <1>6, AppendedFlags
  <2> HIDE DEF e1
  <2>2. QED BY <1>3, <2>1 DEF Appended
<1> HIDE DEF e1
<1>9. e2 \in Args /\ \A flag : flag # "path" => Given(e2, flag) = Given(e1, flag) /\ SameAt(e1, e2, flag)
  <2>1. Appended(e1, Word("path")[1], Word("path")[2], e2) BY <1>3, <1>8, AppendedFlags
  <2> HIDE DEF e2
  <2>2. QED BY <1>3, <2>1 DEF Appended
<1> HIDE DEF e2
<1>10. e3 \in Args /\ \A flag : flag # ts.format => Given(e3, flag) = Given(e2, flag) /\ SameAt(e2, e3, flag)
  <2>1. Appended(e2, Word(ts.format)[1], Word(ts.format)[2], e3) BY <1>3, <1>9, AppendedFlags
  <2> HIDE DEF e3
  <2>2. QED BY <1>3, <2>1 DEF Appended
<1> HIDE DEF e3
<1>11. \A flag \in {"-ar", "-ac", "-b:a"} : Given(e3, flag) = 0
  <2> TAKE flag \in {"-ar", "-ac", "-b:a"}
  <2>1. Given(e0, flag) = 0 BY <1>6, NowhereThere
  <2>2. flag \in Mine /\ flag # "-i" /\ flag # "path" OBVIOUS
  <2>3. QED BY <1>5, <1>8, <1>9, <1>10, <2>1, <2>2
<1>12. offset > 0 => Seeks(e3, offset)
  <2> SUFFICES ASSUME offset > 0 PROVE Seeks(e3, offset) OBVIOUS
  <2>1. SameAt(e0, e1, "-ss") BY <1>8
  <2>5. 1 \in At(e0, "-ss") BY <1>6
  <2>6. At(e1, "-ss") = {1} /\ e1[1][2] = offset BY <1>6, <2>1, <2>5 DEF SameAt
  <2>7. 2 \in At(e1, "-i")
    <3>1. Len(e0) = 1 BY <1>6
    <3>2. Len(e1) = 2 /\ Len(e1) \in At(e1, "-i") BY <1>8, <3>1
    <3>3. QED BY <3>2
  <2>2. Seeks(e1, offset) BY <2>6, <2>7 DEF Seeks
  <2>3. SameAt(e1, e2, "-ss") /\ SameAt(e1, e2, "-i") /\ SameAt(e2, e3, "-ss") /\ SameAt(e2, e3, "-i") BY <1>5, <1>9, <1>10
  <2>4. QED BY <2>2, <2>3, SeeksSame
<1>13. /\ e4 \in Args /\ Given(e4, "-b:a") = ts.bitrate
       /\ \A flag : flag # "-b:a" => Given(e4, flag) = Given(e3, flag) /\ SameAt(e3, e4, flag)
  <2>1. CASE ts.bitrate > 0
    <3>1. e4 = Append(e3, Option("-b:a", ts.bitrate)) BY <2>1
    <3>2. Appended(e3, Option("-b:a", ts.bitrate)[1], Option("-b:a", ts.bitrate)[2], e4) BY <1>4, <1>10, <3>1, AppendedFlags
    <3> HIDE DEF e4
    <3>3. QED BY <1>4, <3>2 DEF Appended
  <2>2. CASE ~(ts.bitrate > 0) BY <1>1, <1>10, <1>11, <2>2 DEF SameAt
  <2>3. QED BY <2>1, <2>2
<1> HIDE DEF e4
<1>14. /\ e5 \in Args
       /\ Given(e5, "-ar") = IF ts.rate > 0 THEN ts.rate ELSE Given(e4, "-ar")
       /\ Given(e5, "-ac") = IF ts.ch > 0 THEN ts.ch ELSE Given(e4, "-ac")
       /\ \A flag : flag \notin OwnFlags => Given(e5, flag) = Given(e4, flag) /\ SameAt(e4, e5, flag)
  BY <1>13, AudioFlags
<1> HIDE DEF e5
<1>15. e6 \in Args /\ \A flag : flag # "-f" => Given(e6, flag) = Given(e5, flag) /\ SameAt(e5, e6, flag)
  <2>1. Appended(e5, Word("-f")[1], Word("-f")[2], e6) BY <1>3, <1>14, AppendedFlags
  <2> HIDE DEF e6
  <2>2. QED BY <1>3, <2>1 DEF Appended
<1> HIDE DEF e6
<1>16. e7 \in Args /\ \A flag : flag # "-" => Given(e7, flag) = Given(e6, flag) /\ SameAt(e6, e7, flag)
  <2>1. Appended(e6, Word("-")[1], Word("-")[2], e7) BY <1>3, <1>15, AppendedFlags
  <2> HIDE DEF e7
  <2>2. QED BY <1>3, <2>1 DEF Appended
<1> HIDE DEF e7
<1>17. Given(e4, "-ar") = 0 /\ Given(e4, "-ac") = 0 BY <1>11, <1>13
<1>18. Given(e5, "-ar") = ts.rate /\ Given(e5, "-ac") = ts.ch /\ Given(e5, "-b:a") = ts.bitrate
  <2>1. "-b:a" \notin OwnFlags BY DEF OwnFlags
  <2>2. QED BY <1>1, <1>13, <1>14, <1>17, <2>1
<1>19. Agreed(e7, ts) BY <1>15, <1>16, <1>18 DEF Agreed
<1>20. offset > 0 => Seeks(e7, offset)
  <2>1. "-ss" \notin OwnFlags /\ "-i" \notin OwnFlags BY DEF OwnFlags
  <2>2. SameAt(e3, e4, "-ss") /\ SameAt(e3, e4, "-i") BY <1>13
  <2>3. SameAt(e4, e5, "-ss") /\ SameAt(e4, e5, "-i") BY <1>14, <2>1
  <2>4. SameAt(e5, e6, "-ss") /\ SameAt(e5, e6, "-i") /\ SameAt(e6, e7, "-ss") /\ SameAt(e6, e7, "-i") BY <1>15, <1>16
  <2>5. QED BY <1>12, <2>2, <2>3, <2>4, SeeksSame
<1>21. QED BY <1>7, <1>16, <1>19, <1>20

\* An administrator's command line: the arguments after each of its words.
IsPut(cmd, ts, offset, seek, m, g) ==
    g = [n \in 0..m |-> IF n = 0 THEN <<>> ELSE Put(g[n - 1], cmd[n], ts, offset, seek)]

LEMMA PutExists ==
    ASSUME NEW cmd, NEW ts, NEW offset, NEW seek, NEW m \in Nat
    PROVE  \E g : IsPut(cmd, ts, offset, seek, m, g)
<1> DEFINE S == {k \in Nat : ~\E g : IsPut(cmd, ts, offset, seek, k, g)}
<1>1. SUFFICES ASSUME S # {} PROVE FALSE OBVIOUS
<1>2. PICK k \in S : \A j \in S : k <= j
  <2>1. S \subseteq Nat OBVIOUS
  <2> HIDE DEF S
  <2>2. QED BY <1>1, <2>1, HasLeast
<1>3. CASE k = 0
  <2>1. IsPut(cmd, ts, offset, seek, 0, [n \in 0..0 |-> <<>>]) BY DEF IsPut
  <2>2. QED BY <1>3, <2>1
<1>4. CASE k # 0
  <2>1. k - 1 \in Nat /\ k - 1 \notin S BY <1>2, <1>4
  <2>2. PICK g : IsPut(cmd, ts, offset, seek, k - 1, g) BY <2>1
  <2>3. \A n \in 0..(k - 1) : g[n] = IF n = 0 THEN <<>> ELSE Put(g[n - 1], cmd[n], ts, offset, seek) BY <2>2 DEF IsPut
  <2> DEFINE h == [n \in 0..k |-> IF n = k THEN Put(g[k - 1], cmd[k], ts, offset, seek) ELSE g[n]]
  <2>4. \A n \in 0..k : h[n] = IF n = 0 THEN <<>> ELSE Put(h[n - 1], cmd[n], ts, offset, seek)
    <3> TAKE n \in 0..k
    <3>1. CASE n = k
      <4>1. h[n] = Put(g[k - 1], cmd[k], ts, offset, seek) BY <3>1
      <4>2. h[n - 1] = g[k - 1] BY <1>4, <2>1, <3>1
      <4>3. QED BY <1>4, <3>1, <4>1, <4>2
    <3>2. CASE n # k
      <4>1. n \in 0..(k - 1) /\ h[n] = g[n] BY <1>2, <3>2
      <4>2. n # 0 => n - 1 \in 0..k /\ n - 1 # k /\ h[n - 1] = g[n - 1] BY <4>1
      <4>3. QED BY <2>3, <4>1, <4>2
    <3>3. QED BY <3>1, <3>2
  <2>5. h = [n \in 0..k |-> IF n = 0 THEN <<>> ELSE Put(h[n - 1], cmd[n], ts, offset, seek)] BY <2>4
  <2>6. IsPut(cmd, ts, offset, seek, k, h) BY <2>5 DEF IsPut
  <2>7. QED BY <1>2, <2>6
<1>5. QED BY <1>3, <1>4

SeeksFirst(cmd, offset) == offset > 0 /\ LastAt(cmd, "-ss %t") = 0

LEMMA PutSteps ==
    ASSUME NEW cmd, NEW ts, NEW offset, Len(cmd) \in Nat
    PROVE  /\ PutAll(cmd, ts, offset)[0] = <<>>
           /\ \A n \in 1..Len(cmd) :
                PutAll(cmd, ts, offset)[n] = Put(PutAll(cmd, ts, offset)[n - 1], cmd[n], ts, offset, SeeksFirst(cmd, offset))
<1> DEFINE all == PutAll(cmd, ts, offset)
           seek == SeeksFirst(cmd, offset)
<1>1. all = CHOOSE g : g = [n \in 0..Len(cmd) |-> IF n = 0 THEN <<>> ELSE Put(g[n - 1], cmd[n], ts, offset, seek)]
  BY DEF PutAll, SeeksFirst
<1> HIDE DEF all, seek
<1>2. \E g : g = [n \in 0..Len(cmd) |-> IF n = 0 THEN <<>> ELSE Put(g[n - 1], cmd[n], ts, offset, seek)]
  <2>1. PICK g : IsPut(cmd, ts, offset, seek, Len(cmd), g) BY PutExists
  <2>2. QED BY <2>1 DEF IsPut
<1>3. all = [n \in 0..Len(cmd) |-> IF n = 0 THEN <<>> ELSE Put(all[n - 1], cmd[n], ts, offset, seek)] BY <1>1, <1>2
<1>4. \A n \in 0..Len(cmd) : all[n] = IF n = 0 THEN <<>> ELSE Put(all[n - 1], cmd[n], ts, offset, seek) BY <1>3
<1>5. all[0] = <<>> BY <1>4
<1>6. \A n \in 1..Len(cmd) : all[n] = Put(all[n - 1], cmd[n], ts, offset, seek) BY <1>4
<1>7. QED BY <1>5, <1>6 DEF all, seek

TemplateWords == STRING \X Nat

\* What stands for a word that is not the input.
Filled(w, ts, offset) ==
    CASE w[1] = "-ss %t" -> Option("-ss", offset)
      [] w[1] = "-b:a %b" -> Option("-b:a", ts.bitrate)
      [] OTHER -> w

IsFilled(w, offset, u) ==
    /\ u \in Words
    /\ w[1] # "-ss" => (u[1] = "-ss" <=> w[1] = "-ss %t")
    /\ w[1] = "-ss %t" => u[1] = "-ss" /\ u[2] = offset
    /\ u[1] = "-i" <=> w[1] = "-i"

LEMMA FilledFacts ==
    ASSUME NEW w \in TemplateWords, NEW ts \in Streams, NEW offset \in Nat, NEW u, u = Filled(w, ts, offset)
    PROVE  IsFilled(w, offset, u)
<1>1. ts.bitrate \in Nat BY DEF Streams
<1>2. "-ss" \in OwnWords /\ "-b:a" \in OwnWords BY DEF OwnWords
<1>3. /\ Option("-ss", offset) \in Words /\ Option("-ss", offset)[1] = "-ss" /\ Option("-ss", offset)[2] = offset
      /\ Option("-b:a", ts.bitrate) \in Words /\ Option("-b:a", ts.bitrate)[1] = "-b:a"
  BY <1>1, <1>2, OptionFacts
<1>4. w \in Words BY DEF Words, TemplateWords
<1>5. CASE w[1] = "-ss %t" BY <1>3, <1>5 DEF Filled, IsFilled
<1>6. CASE w[1] = "-b:a %b" BY <1>3, <1>6 DEF Filled, IsFilled
<1>7. CASE w[1] # "-ss %t" /\ w[1] # "-b:a %b"
  <2>1. u = w BY <1>7 DEF Filled, IsFilled
  <2>2. QED BY <1>4, <1>7, <2>1 DEF IsFilled
<1>8. QED BY <1>5, <1>6, <1>7

\* The offset that the server puts before the last input.
Slipped(args, at, o) == SubSeq(args, 1, at) \o <<o>> \o SubSeq(args, at + 1, Len(args))

LEMMA SlippedIn ==
    ASSUME NEW args \in Args, NEW at \in 0..Len(args), NEW o \in Words, NEW r, r = Slipped(args, at, o)
    PROVE  /\ r \in Args /\ Len(r) = Len(args) + 1
           /\ \A i \in 1..(Len(args) + 1) : r[i] = IF i <= at THEN args[i] ELSE IF i = at + 1 THEN o ELSE args[i - 1]
<1> DEFINE n == Len(args)
           a == SubSeq(args, 1, at)
           b == SubSeq(args, at + 1, n)
<1>1. n \in Nat /\ \A i \in 1..n : args[i] \in Words BY DEF Args
<1>2. args \in Seq(Words) BY DEF Args
<1>3. a = [i \in 1..at |-> args[i]] /\ b = [i \in 1..(n - at) |-> args[at + i]]
  <2>1. a = [i \in 1..(at - 1 + 1) |-> args[i + 1 - 1]] BY <1>1, <1>2
  <2>2. b = [i \in 1..(n - (at + 1) + 1) |-> args[i + (at + 1) - 1]] BY <1>1, <1>2
  <2>3. at - 1 + 1 = at /\ n - (at + 1) + 1 = n - at BY <1>1
  <2>4. \A i \in 1..at : i + 1 - 1 = i BY <1>1
  <2>5. \A i \in 1..(n - at) : i + (at + 1) - 1 = at + i BY <1>1
  <2> HIDE DEF a, b
  <2>6. QED BY <2>1, <2>2, <2>3, <2>4, <2>5
<1> HIDE DEF a, b
<1>4. a \in Seq(Words) /\ Len(a) = at BY <1>1, <1>3
<1>5. b \in Seq(Words) /\ Len(b) = n - at BY <1>1, <1>3
<1>6. r = (a \o <<o>>) \o b BY DEF Slipped, a, b
<1> DEFINE c == a \o <<o>>
<1>7. c \in Seq(Words) /\ Len(c) = at + 1 /\ c[at + 1] = o /\ \A i \in 1..at : c[i] = a[i] BY <1>1, <1>4
<1> HIDE DEF c
<1>8. r = c \o b BY <1>6 DEF c
<1>9. /\ r \in Seq(Words) /\ Len(r) = n + 1
      /\ \A i \in 1..(at + 1) : r[i] = c[i]
      /\ \A i \in (at + 2)..(n + 1) : r[i] = b[i - (at + 1)]
  <2>1. Len(c) \in Nat /\ Len(b) \in Nat /\ Len(c) + Len(b) = n + 1 BY <1>1, <1>5, <1>7
  <2>a. c \in Seq(Words) /\ b \in Seq(Words) BY <1>5, <1>7
  <2> HIDE DEF Words
  <2>2. r \in Seq(Words) /\ Len(r) = Len(c) + Len(b)
    <3>1. c \o b \in Seq(Words) BY <2>a
    <3>2. Len(c \o b) = Len(c) + Len(b) BY <2>a
    <3>3. QED BY <1>8, <3>1, <3>2
  <2>3. \A i \in 1..(Len(c) + Len(b)) : r[i] = IF i <= Len(c) THEN c[i] ELSE b[i - Len(c)] BY <2>a, <1>8
  <2>4. \A i \in 1..(at + 1) : r[i] = c[i] BY <1>1, <1>7, <2>1, <2>3
  <2>5. \A i \in (at + 2)..(n + 1) : r[i] = b[i - (at + 1)] BY <1>1, <1>7, <2>1, <2>3
  <2>6. QED BY <2>1, <2>2, <2>4, <2>5
<1>10. \A i \in 1..at : r[i] = args[i] BY <1>1, <1>3, <1>7, <1>9
<1>11. r[at + 1] = o BY <1>1, <1>7, <1>9
<1>12. \A i \in (at + 2)..(n + 1) : r[i] = args[i - 1]
  <2> TAKE i \in (at + 2)..(n + 1)
  <2>1. i - (at + 1) \in 1..(n - at) /\ at + (i - (at + 1)) = i - 1 BY <1>1
  <2>2. QED BY <1>3, <1>9, <2>1
<1>13. QED BY <1>1, <1>9, <1>10, <1>11, <1>12 DEF Args

\* What one word adds.
LEMMA WordPut ==
    ASSUME NEW args \in Args, NEW w \in TemplateWords, NEW ts \in Streams, NEW offset \in Nat, NEW seek \in BOOLEAN,
           NEW r, r = Put(args, w, ts, offset, seek)
    PROVE  /\ r \in Args
           /\ w[1] # "%s" => Appended(args, Filled(w, ts, offset)[1], Filled(w, ts, offset)[2], r)
           /\ w[1] = "%s" /\ ~seek => Appended(args, "path", 0, r)
           /\ w[1] = "%s" /\ seek /\ At(args, "-i") # {} /\ At(args, "-ss") = {} => Seeks(r, offset)
<1> DEFINE i == LastAt(args, "-i")
           at == IF i > 0 THEN i - 1 ELSE Len(args)
           o == Option("-ss", offset)
           mid == Slipped(args, at, o)
<1>1. "path" \in OwnWords /\ "-ss" \in OwnWords BY DEF OwnWords
<1>2. Word("path") \in Words /\ Word("path")[1] = "path" /\ Word("path")[2] = 0 BY <1>1, WordFacts
<1>3. o \in Words /\ o[1] = "-ss" /\ o[2] = offset BY <1>1, OptionFacts
<1>4. Len(args) \in Nat BY DEF Args
<1>5. i \in 0..Len(args) BY <1>4, LastFacts
<1>6. at \in 0..Len(args) BY <1>4, <1>5
<1>7. CASE w[1] # "%s"
  <2> DEFINE u == Filled(w, ts, offset)
  <2>0. u = Filled(w, ts, offset) OBVIOUS
  <2>1. u \in Words BY <2>0, FilledFacts DEF IsFilled
  <2>2. r = Append(args, u) BY <1>7 DEF Put, Filled
  <2> HIDE DEF u
  <2>3. Appended(args, u[1], u[2], r) BY <2>1, <2>2, AppendedFlags
  <2>4. r \in Args BY <2>3 DEF Appended
  <2>5. QED BY <1>7, <2>3, <2>4 DEF u
<1>8. CASE w[1] = "%s" /\ ~seek
  <2>1. r = Append(args, Word("path")) BY <1>8 DEF Put
  <2>2. Appended(args, Word("path")[1], Word("path")[2], r) BY <1>2, <2>1, AppendedFlags
  <2>3. Appended(args, "path", 0, r) BY <1>2, <2>2
  <2>4. r \in Args BY <2>3 DEF Appended
  <2>5. QED BY <1>8, <2>3, <2>4
<1>9. CASE w[1] = "%s" /\ seek
  <2>1. r = Append(mid, Word("path")) BY <1>9 DEF Put, Slipped
  <2> HIDE DEF i, at, o
  <2>2. /\ mid \in Args /\ Len(mid) = Len(args) + 1
        /\ \A k \in 1..(Len(args) + 1) : mid[k] = IF k <= at THEN args[k] ELSE IF k = at + 1 THEN o ELSE args[k - 1]
    BY <1>3, <1>6, SlippedIn
  <2> HIDE DEF mid
  <2>3. Appended(mid, Word("path")[1], Word("path")[2], r) BY <1>2, <2>1, <2>2, AppendedFlags
  <2>4. r \in Args /\ SameAt(mid, r, "-ss") /\ SameAt(mid, r, "-i") BY <1>2, <2>3 DEF Appended
  <2>5. ASSUME At(args, "-i") # {}, At(args, "-ss") = {} PROVE Seeks(r, offset)
    <3>1. i \in At(args, "-i") BY <1>4, <2>5, LastFacts DEF i
    <3>2. i \in 1..Len(args) /\ args[i][1] = "-i" /\ at = i - 1 BY <1>4, <3>1 DEF At, at
    <3>3. \A k \in 1..Len(args) : args[k][1] # "-ss" BY <2>5 DEF At
    <3>4. mid[i] = o /\ mid[i + 1] = args[i] BY <1>4, <2>2, <3>2
    <3>5. \A k \in 1..Len(mid) : k # i => mid[k][1] # "-ss"
      <4> TAKE k \in 1..Len(mid)
      <4>1. CASE k <= at BY <1>4, <2>2, <3>2, <3>3, <4>1
      <4>2. CASE k > at + 1
        <5>1. k - 1 \in 1..Len(args) /\ mid[k] = args[k - 1] BY <1>4, <1>6, <2>2, <3>2, <4>2
        <5>2. QED BY <3>3, <5>1
      <4>3. QED BY <1>4, <1>6, <3>2, <4>1, <4>2
    <3>6. i \in 1..Len(mid) /\ i + 1 \in 1..Len(mid) /\ i < i + 1 BY <1>4, <2>2, <3>2
    <3>7. At(mid, "-ss") = {i} /\ mid[i][2] = offset BY <1>3, <3>4, <3>5, <3>6 DEF At
    <3>8. i + 1 \in At(mid, "-i") BY <3>2, <3>4, <3>6 DEF At
    <3>9. Seeks(mid, offset) BY <3>6, <3>7, <3>8 DEF Seeks
    <3>10. QED BY <2>4, <3>9, SeeksSame
  <2>6. QED BY <1>9, <2>4, <2>5
<1>10. QED BY <1>7, <1>8, <1>9

LEMMA SeeksAppended ==
    ASSUME NEW args \in Args, NEW flag, NEW x, NEW r, Appended(args, flag, x, r), flag # "-ss", NEW offset, Seeks(args, offset)
    PROVE  Seeks(r, offset)
<1>1. PICK k \in At(args, "-ss") : At(args, "-ss") = {k} /\ args[k][2] = offset /\ \E j \in At(args, "-i") : k < j BY DEF Seeks
<1>2. At(r, "-ss") = {k} /\ r[k] = args[k] BY <1>1 DEF Appended, SameAt
<1>3. At(args, "-i") \subseteq At(r, "-i")
  <2>1. CASE flag = "-i" BY <2>1 DEF Appended
  <2>2. CASE flag # "-i" BY <2>2 DEF Appended, SameAt
  <2>3. QED BY <2>1, <2>2
<1>4. QED BY <1>1, <1>2, <1>3 DEF Seeks

\* Where the loop is in a command line that leaves seeking to the server, whose
\* input is word n, and in one that names the offset as word m.
ReadsFrom(cmd, first, last) == \E j \in first..last : cmd[j][1] = "-i"
LeftToServer(cmd, n, offset, k, a) ==
    /\ k < n => At(a, "-ss") = {} /\ (ReadsFrom(cmd, 1, k) => At(a, "-i") # {})
    /\ k >= n => Seeks(a, offset)
NamedAt(cmd, m, offset, k, a) ==
    /\ k < m => At(a, "-ss") = {}
    /\ k >= m => \E q \in At(a, "-ss") : /\ At(a, "-ss") = {q} /\ a[q][2] = offset
                                         /\ ReadsFrom(cmd, m + 1, k) => \E i \in At(a, "-i") : q < i

LEMMA TemplateTypes ==
    ASSUME NEW cmd, cmd \in Seq(TemplateWords)
    PROVE  Len(cmd) \in Nat /\ \A k \in 1..Len(cmd) : cmd[k] \in TemplateWords
OBVIOUS

\* A command line that leaves seeking to the server; one that names the offset.
ServerCommand(cmd, n) ==
    /\ n \in 1..Len(cmd) /\ cmd[n][1] = "%s" /\ \A m \in 1..Len(cmd) : cmd[m][1] = "%s" => m = n
    /\ ReadsFrom(cmd, 1, n - 1)
    /\ \A m \in 1..Len(cmd) : cmd[m][1] # "-ss" /\ cmd[m][1] # "-ss %t"
NamedCommand(cmd, m) ==
    /\ m \in 1..Len(cmd) /\ cmd[m][1] = "-ss %t" /\ \A n \in 1..Len(cmd) : cmd[n][1] = "-ss %t" => n = m
    /\ \A n \in 1..Len(cmd) : cmd[n][1] # "-ss"
    /\ ReadsFrom(cmd, m + 1, Len(cmd))

LEMMA ReadsMore ==
    ASSUME NEW cmd, NEW first, NEW k \in Nat, first \in Nat, ReadsFrom(cmd, first, k), cmd[k][1] # "-i"
    PROVE  ReadsFrom(cmd, first, k - 1)
<1>1. PICK j \in first..k : cmd[j][1] = "-i" BY DEF ReadsFrom
<1>2. j # k BY <1>1
<1>3. j \in first..(k - 1) BY <1>1, <1>2
<1>4. QED BY <1>1, <1>3 DEF ReadsFrom

\* What the loop does with a word, when the server is to seek and when it is not.
ServerPut(args, w, ts, offset, r) ==
    /\ w[1] # "%s" => Appended(args, Filled(w, ts, offset)[1], Filled(w, ts, offset)[2], r)
    /\ w[1] = "%s" /\ At(args, "-i") # {} /\ At(args, "-ss") = {} => Seeks(r, offset)
CommandPut(args, w, ts, offset, r) ==
    /\ w[1] # "%s" => Appended(args, Filled(w, ts, offset)[1], Filled(w, ts, offset)[2], r)
    /\ w[1] = "%s" => Appended(args, "path", 0, r)

LEMMA ServerSeeks ==
    ASSUME NEW cmd, cmd \in Seq(TemplateWords), NEW ts \in Streams, NEW offset \in Nat, NEW n, ServerCommand(cmd, n),
           NEW k \in 1..Len(cmd), NEW a \in Args, LeftToServer(cmd, n, offset, k - 1, a),
           NEW r, ServerPut(a, cmd[k], ts, offset, r)
    PROVE  LeftToServer(cmd, n, offset, k, r)
<1> DEFINE w == cmd[k]
           u == Filled(w, ts, offset)
<1>0. Len(cmd) \in Nat /\ w \in TemplateWords BY TemplateTypes
<1>a. n \in Nat /\ k \in Nat
  <2>1. n \in 1..Len(cmd) BY DEF ServerCommand
  <2>2. QED BY <1>0, <2>1
<1>b. w[1] # "-ss" /\ w[1] # "-ss %t" /\ (w[1] = "%s" <=> k = n) BY DEF ServerCommand
<1>f. u = Filled(w, ts, offset) OBVIOUS
<1>1. u[1] # "-ss" /\ (u[1] = "-i" <=> w[1] = "-i")
  <2> HIDE DEF w
  <2>1. (w[1] # "-ss" => (u[1] = "-ss" <=> w[1] = "-ss %t")) /\ (u[1] = "-i" <=> w[1] = "-i") BY <1>0, <1>f, FilledFacts DEF IsFilled
  <2>2. QED BY <1>b, <2>1
<1>c. ServerPut(a, w, ts, offset, r) OBVIOUS
<1>d. w[1] # "%s" => Appended(a, u[1], u[2], r) BY <1>c, <1>f DEF ServerPut
<1>e. w[1] = "%s" /\ At(a, "-i") # {} /\ At(a, "-ss") = {} => Seeks(r, offset) BY <1>c, <1>f DEF ServerPut
<1>2. CASE k = n
  <2>0. k - 1 < n /\ k - 1 = n - 1 /\ ~(k - 1 >= n) BY <1>a, <1>2
  <2>a. ReadsFrom(cmd, 1, k - 1) BY <2>0 DEF ServerCommand
  <2>1. At(a, "-ss") = {} /\ At(a, "-i") # {} BY <2>0, <2>a DEF LeftToServer
  <2>2. Seeks(r, offset) BY <1>b, <1>e, <1>2, <2>1
  <2>3. QED BY <1>a, <1>2, <2>2 DEF LeftToServer
<1>3. CASE k # n
  <2>1. Appended(a, u[1], u[2], r) BY <1>b, <1>d, <1>3
  <2> HIDE DEF u
  <2>2. CASE k > n
    <3>1. Seeks(a, offset)
      <4>1. k - 1 >= n BY <1>a, <2>2
      <4>2. QED BY <4>1 DEF LeftToServer
    <3>2. Seeks(r, offset) BY <1>1, <2>1, <3>1, SeeksAppended
    <3>3. ~(k < n) BY <1>a, <2>2
    <3>4. QED BY <3>2, <3>3 DEF LeftToServer
  <2>3. CASE k < n
    <3>0. k - 1 < n /\ ~(k >= n) BY <1>a, <2>3
    <3>1. At(a, "-ss") = {} /\ (ReadsFrom(cmd, 1, k - 1) => At(a, "-i") # {}) BY <3>0 DEF LeftToServer
    <3>2. At(r, "-ss") = {} BY <1>1, <2>1, <3>1 DEF Appended, SameAt
    <3>3. ASSUME ReadsFrom(cmd, 1, k) PROVE At(r, "-i") # {}
      <4>1. CASE w[1] = "-i" BY <1>1, <2>1, <4>1 DEF Appended
      <4>2. CASE w[1] # "-i"
        <5>1. ReadsFrom(cmd, 1, k - 1) BY <1>a, <3>3, <4>2, ReadsMore
        <5>2. QED BY <1>1, <2>1, <3>1, <4>2, <5>1 DEF Appended, SameAt
      <4>3. QED BY <4>1, <4>2
    <3>4. QED BY <3>0, <3>2, <3>3 DEF LeftToServer
  <2>4. QED BY <1>a, <1>3, <2>2, <2>3
<1>4. QED BY <1>2, <1>3

LEMMA CommandSeeks ==
    ASSUME NEW cmd, cmd \in Seq(TemplateWords), NEW ts \in Streams, NEW offset \in Nat, NEW m, NamedCommand(cmd, m),
           NEW k \in 1..Len(cmd), NEW a \in Args, NamedAt(cmd, m, offset, k - 1, a),
           NEW r, CommandPut(a, cmd[k], ts, offset, r)
    PROVE  NamedAt(cmd, m, offset, k, r)
<1> DEFINE w == cmd[k]
           u == Filled(w, ts, offset)
           flag == IF w[1] = "%s" THEN "path" ELSE u[1]
           x == IF w[1] = "%s" THEN 0 ELSE u[2]
<1>0. Len(cmd) \in Nat /\ w \in TemplateWords BY TemplateTypes
<1>a. m \in Nat /\ k \in Nat /\ Len(a) \in Nat
  <2>1. m \in 1..Len(cmd) BY DEF NamedCommand
  <2>2. QED BY <1>0, <2>1 DEF Args
<1>b. w[1] # "-ss" /\ (w[1] = "-ss %t" <=> k = m) BY DEF NamedCommand
<1>f. u = Filled(w, ts, offset) OBVIOUS
<1>c. CommandPut(a, w, ts, offset, r) OBVIOUS
<1>1. /\ u[1] = "-ss" <=> k = m
      /\ k = m => u[2] = offset
      /\ u[1] = "-i" <=> w[1] = "-i"
  <2> HIDE DEF w
  <2>1. IsFilled(w, offset, u) BY <1>0, <1>f, FilledFacts
  <2>2. QED BY <1>b, <2>1 DEF IsFilled
<1>2. Appended(a, flag, x, r)
  <2> HIDE DEF w
  <2>1. CASE w[1] = "%s"
    <3>1. Appended(a, "path", 0, r) BY <1>c, <2>1 DEF CommandPut
    <3>2. QED BY <2>1, <3>1
  <2>2. CASE w[1] # "%s"
    <3>1. Appended(a, u[1], u[2], r) BY <1>c, <1>f, <2>2 DEF CommandPut
    <3>2. QED BY <2>2, <3>1
  <2>3. QED BY <2>1, <2>2
<1>3. /\ flag = "-ss" <=> k = m
      /\ k = m => x = offset
      /\ flag = "-i" <=> w[1] = "-i"
  BY <1>1, <1>b
<1> HIDE DEF u, flag, x
<1>4. CASE k < m
  <2>0. k - 1 < m /\ ~(k >= m) /\ k # m BY <1>a, <1>4
  <2>1. At(a, "-ss") = {} BY <2>0 DEF NamedAt
  <2>2. At(r, "-ss") = {} BY <1>2, <1>3, <2>0, <2>1 DEF Appended, SameAt
  <2>3. QED BY <2>0, <2>2 DEF NamedAt
<1>5. CASE k = m
  <2>0. k - 1 < m /\ ~(k < m) BY <1>a, <1>5
  <2>1. At(a, "-ss") = {} BY <2>0 DEF NamedAt
  <2>2. At(r, "-ss") = {Len(r)} /\ r[Len(r)][2] = offset BY <1>2, <1>3, <1>5, <2>1 DEF Appended
  <2>3. ~ReadsFrom(cmd, m + 1, k) BY <1>a, <1>5 DEF ReadsFrom
  <2>4. QED BY <2>0, <2>2, <2>3 DEF NamedAt
<1>6. CASE k > m
  <2>0. k - 1 >= m /\ ~(k < m) /\ k # m BY <1>a, <1>6
  <2>1. PICK q \in At(a, "-ss") : At(a, "-ss") = {q} /\ a[q][2] = offset /\ (ReadsFrom(cmd, m + 1, k - 1) => \E i \in At(a, "-i") : q < i)
    BY <2>0 DEF NamedAt
  <2>2. At(r, "-ss") = {q} /\ r[q] = a[q] BY <1>2, <1>3, <2>0, <2>1 DEF Appended, SameAt
  <2>3. ASSUME ReadsFrom(cmd, m + 1, k) PROVE \E i \in At(r, "-i") : q < i
    <3>1. CASE w[1] = "-i"
      <4>1. Len(r) \in At(r, "-i") /\ Len(r) = Len(a) + 1 BY <1>2, <1>3, <3>1 DEF Appended
      <4>2. q < Len(r) BY <1>a, <2>1, <4>1 DEF At
      <4>3. QED BY <4>1, <4>2
    <3>2. CASE w[1] # "-i"
      <4>1. ReadsFrom(cmd, m + 1, k - 1) BY <1>a, <2>3, <3>2, ReadsMore
      <4>2. SameAt(a, r, "-i") BY <1>2, <1>3, <3>2 DEF Appended
      <4>3. QED BY <2>1, <4>1, <4>2 DEF SameAt
    <3>3. QED BY <3>1, <3>2
  <2>4. QED BY <2>0, <2>2, <2>3 DEF NamedAt
<1>7. QED BY <1>a, <1>4, <1>5, <1>6

LEMMA StepPut ==
    ASSUME NEW cmd, cmd \in Seq(TemplateWords), NEW ts \in Streams, NEW offset \in Nat, NEW g, g = PutAll(cmd, ts, offset),
           NEW k \in 1..Len(cmd), NEW a, a = g[k - 1], a \in Args
    PROVE  /\ g[k] \in Args
           /\ SeeksFirst(cmd, offset) => ServerPut(a, cmd[k], ts, offset, g[k])
           /\ ~SeeksFirst(cmd, offset) => CommandPut(a, cmd[k], ts, offset, g[k])
<1> DEFINE seek == SeeksFirst(cmd, offset)
           w == cmd[k]
           r == g[k]
<1>1. seek \in BOOLEAN BY DEF SeeksFirst
<1>2. Len(cmd) \in Nat /\ w \in TemplateWords BY TemplateTypes
<1>3. r = Put(a, w, ts, offset, seek) BY <1>2, PutSteps
<1> HIDE DEF seek, w, r
<1>4. /\ r \in Args
      /\ w[1] # "%s" => Appended(a, Filled(w, ts, offset)[1], Filled(w, ts, offset)[2], r)
      /\ w[1] = "%s" /\ ~seek => Appended(a, "path", 0, r)
      /\ w[1] = "%s" /\ seek /\ At(a, "-i") # {} /\ At(a, "-ss") = {} => Seeks(r, offset)
  BY <1>1, <1>2, <1>3, WordPut
<1>5. seek => ServerPut(a, w, ts, offset, r) BY <1>4 DEF ServerPut
<1>6. ~seek => CommandPut(a, w, ts, offset, r) BY <1>4 DEF CommandPut
<1>7. QED BY <1>4, <1>5, <1>6 DEF seek, w, r

LEMMA AllArgs ==
    ASSUME NEW cmd, cmd \in Seq(TemplateWords), NEW ts \in Streams, NEW offset \in Nat, NEW g, g = PutAll(cmd, ts, offset)
    PROVE  g[0] = <<>> /\ \A k \in 0..Len(cmd) : g[k] \in Args
<1> DEFINE bad == {k \in 0..Len(cmd) : g[k] \notin Args}
<1>1. Len(cmd) \in Nat BY TemplateTypes
<1>2. g[0] = <<>> BY <1>1, PutSteps
<1>3. <<>> \in Args BY DEF Args
<1>4. ASSUME bad # {} PROVE FALSE
  <2>1. bad \subseteq Nat BY <1>1
  <2>2. PICK k \in bad : \A j \in bad : k <= j BY <1>4, <2>1, HasLeast
  <2>3. k \in 1..Len(cmd) BY <1>1, <1>2, <1>3, <2>2
  <2>4. k - 1 \in 0..Len(cmd) /\ ~(k <= k - 1) BY <1>1, <2>3
  <2>5. g[k - 1] \in Args BY <2>2, <2>4
  <2>6. g[k] \in Args BY <2>3, <2>5, StepPut
  <2>7. QED BY <2>2, <2>6
<1>5. QED BY <1>2, <1>4

LEMMA NothingAt == ASSUME NEW flag PROVE At(<<>>, flag) = {}
BY DEF At

LEMMA ServerLoop ==
    ASSUME NEW cmd, cmd \in Seq(TemplateWords), NEW ts \in Streams, NEW offset \in Nat, NEW g, g = PutAll(cmd, ts, offset),
           SeeksFirst(cmd, offset), NEW n, ServerCommand(cmd, n)
    PROVE  Seeks(g[Len(cmd)], offset)
<1> DEFINE bad == {k \in 0..Len(cmd) : ~LeftToServer(cmd, n, offset, k, g[k])}
<1>1. Len(cmd) \in Nat BY TemplateTypes
<1>2. n \in 1..Len(cmd) BY DEF ServerCommand
<1>3. g[0] = <<>> /\ \A k \in 0..Len(cmd) : g[k] \in Args BY AllArgs
<1>4. LeftToServer(cmd, n, offset, 0, g[0])
  <2>1. 0 < n /\ ~(0 >= n) BY <1>1, <1>2
  <2>2. ~ReadsFrom(cmd, 1, 0) BY DEF ReadsFrom
  <2>3. QED BY <1>3, <2>1, <2>2, NothingAt DEF LeftToServer
<1>5. ASSUME bad # {} PROVE FALSE
  <2>1. bad \subseteq Nat BY <1>1
  <2>2. PICK k \in bad : \A j \in bad : k <= j BY <1>5, <2>1, HasLeast
  <2>3. k \in 1..Len(cmd) BY <1>1, <1>4, <2>2
  <2>4. k - 1 \in 0..Len(cmd) /\ ~(k <= k - 1) BY <1>1, <2>3
  <2>5. LeftToServer(cmd, n, offset, k - 1, g[k - 1]) BY <2>2, <2>4
  <2>6. g[k - 1] \in Args BY <1>3, <2>4
  <2>7. ServerPut(g[k - 1], cmd[k], ts, offset, g[k]) BY <2>3, <2>6, StepPut
  <2>8. LeftToServer(cmd, n, offset, k, g[k]) BY <2>3, <2>5, <2>6, <2>7, ServerSeeks
  <2>9. QED BY <2>2, <2>8
<1>6. Len(cmd) \in 0..Len(cmd) /\ Len(cmd) >= n BY <1>1, <1>2
<1>7. LeftToServer(cmd, n, offset, Len(cmd), g[Len(cmd)]) BY <1>5, <1>6
<1>8. QED BY <1>6, <1>7 DEF LeftToServer

LEMMA CommandLoop ==
    ASSUME NEW cmd, cmd \in Seq(TemplateWords), NEW ts \in Streams, NEW offset \in Nat, NEW g, g = PutAll(cmd, ts, offset),
           ~SeeksFirst(cmd, offset), NEW m, NamedCommand(cmd, m)
    PROVE  Seeks(g[Len(cmd)], offset)
<1> DEFINE bad == {k \in 0..Len(cmd) : ~NamedAt(cmd, m, offset, k, g[k])}
<1>1. Len(cmd) \in Nat BY TemplateTypes
<1>2. m \in 1..Len(cmd) /\ ReadsFrom(cmd, m + 1, Len(cmd)) BY DEF NamedCommand
<1>3. g[0] = <<>> /\ \A k \in 0..Len(cmd) : g[k] \in Args BY AllArgs
<1>4. NamedAt(cmd, m, offset, 0, g[0])
  <2>1. 0 < m /\ ~(0 >= m) BY <1>1, <1>2
  <2>2. QED BY <1>3, <2>1, NothingAt DEF NamedAt
<1>5. ASSUME bad # {} PROVE FALSE
  <2>1. bad \subseteq Nat BY <1>1
  <2>2. PICK k \in bad : \A j \in bad : k <= j BY <1>5, <2>1, HasLeast
  <2>3. k \in 1..Len(cmd) BY <1>1, <1>4, <2>2
  <2>4. k - 1 \in 0..Len(cmd) /\ ~(k <= k - 1) BY <1>1, <2>3
  <2>5. NamedAt(cmd, m, offset, k - 1, g[k - 1]) BY <2>2, <2>4
  <2>6. g[k - 1] \in Args BY <1>3, <2>4
  <2>7. CommandPut(g[k - 1], cmd[k], ts, offset, g[k]) BY <2>3, <2>6, StepPut
  <2>8. NamedAt(cmd, m, offset, k, g[k]) BY <2>3, <2>5, <2>6, <2>7, CommandSeeks
  <2>9. QED BY <2>2, <2>8
<1>6. Len(cmd) \in 0..Len(cmd) /\ Len(cmd) >= m BY <1>1, <1>2
<1>7. NamedAt(cmd, m, offset, Len(cmd), g[Len(cmd)]) BY <1>5, <1>6
<1>8. QED BY <1>2, <1>6, <1>7 DEF NamedAt, Seeks

LEMMA TemplateSeeks ==
    ASSUME NEW cmd, cmd \in Seq(TemplateWords), NEW ts \in Streams, NEW offset \in Nat, NEW r, r = createFFmpegCommand(cmd, ts, offset)
    PROVE  r \in Args /\ (offset > 0 /\ SeeksItsInput(cmd) => Seeks(r, offset))
<1>1. PICK g : g = PutAll(cmd, ts, offset) OBVIOUS
<1>2. r = g[Len(cmd)] BY <1>1 DEF createFFmpegCommand
<1>3. Len(cmd) \in Nat BY TemplateTypes
<1>4. r \in Args
  <2>1. Len(cmd) \in 0..Len(cmd) BY <1>3
  <2>2. QED BY <1>1, <1>2, <2>1, AllArgs
<1>5. ASSUME offset > 0, SeeksItsInput(cmd) PROVE Seeks(r, offset)
  <2>1. /\ At(cmd, "-ss %t") = {} => LastAt(cmd, "-ss %t") = 0
        /\ At(cmd, "-ss %t") # {} => LastAt(cmd, "-ss %t") \in At(cmd, "-ss %t")
    BY <1>3, LastFacts
  <2>2. CASE At(cmd, "-ss %t") = {}
    <3>1. SeeksFirst(cmd, offset) BY <1>5, <2>1, <2>2 DEF SeeksFirst
    <3>2. PICK n \in 1..Len(cmd) : /\ cmd[n][1] = "%s" /\ \A m \in 1..Len(cmd) : cmd[m][1] = "%s" => m = n
                                   /\ \E m \in 1..n : cmd[m][1] = "-i"
      BY <1>5 DEF SeeksItsInput
    <3>3. PICK m \in 1..n : cmd[m][1] = "-i" BY <3>2
    <3>4. m \in 1..(n - 1)
      <4>1. m # n BY <3>2, <3>3
      <4>2. QED BY <1>3, <4>1
    <3>5. ReadsFrom(cmd, 1, n - 1) BY <3>3, <3>4 DEF ReadsFrom
    <3>6. \A j \in 1..Len(cmd) : cmd[j][1] # "-ss" /\ cmd[j][1] # "-ss %t" BY <1>5, <2>2 DEF SeeksItsInput, At
    <3>7. ServerCommand(cmd, n) BY <3>2, <3>5, <3>6 DEF ServerCommand
    <3>8. QED BY <1>1, <1>2, <3>1, <3>7, ServerLoop
  <2>3. CASE At(cmd, "-ss %t") # {}
    <3>1. PICK m \in 1..Len(cmd) : m = LastAt(cmd, "-ss %t") /\ cmd[m][1] = "-ss %t" BY <2>1, <2>3 DEF At
    <3>2. ~SeeksFirst(cmd, offset)
      <4>0. m # 0 BY <1>3
      <4>1. LastAt(cmd, "-ss %t") # 0 BY <3>1, <4>0
      <4>2. QED BY <4>1 DEF SeeksFirst
    <3>3. /\ \A n \in 1..Len(cmd) : cmd[n][1] = "-ss %t" => n = m
          /\ \E n \in m..Len(cmd) : cmd[n][1] = "-i"
          /\ \A n \in 1..Len(cmd) : cmd[n][1] # "-ss"
      BY <1>5, <3>1 DEF SeeksItsInput
    <3>4. PICK n \in m..Len(cmd) : cmd[n][1] = "-i" BY <3>3
    <3>5. n \in (m + 1)..Len(cmd)
      <4>1. m # n BY <3>1, <3>4
      <4>2. QED BY <1>3, <4>1
    <3>6. ReadsFrom(cmd, m + 1, Len(cmd)) BY <3>4, <3>5 DEF ReadsFrom
    <3>7. NamedCommand(cmd, m) BY <3>1, <3>3, <3>6 DEF NamedCommand
    <3>8. QED BY <1>1, <1>2, <3>2, <3>7, CommandLoop
  <2>4. QED BY <2>2, <2>3
<1>6. QED BY <1>4, <1>5

\* What ffmpeg is told, whichever command line it is told in.
ToldAsAgreed(ts, offset, args) ==
    LET own == template # <<>> /\ ts.format = "opus"
    IN  /\ ts.rate > 0 \/ ~own => Given(args, "-ar") = ts.rate
        /\ ts.ch > 0 \/ ~own => Given(args, "-ac") = ts.ch
        /\ ~own => Given(args, "-b:a") = ts.bitrate
        /\ offset > 0 /\ (own => SeeksItsInput(template)) =>
            /\ Given(args, "-ss") = offset /\ LastAt(args, "-ss") < LastAt(args, "-i")
            /\ Cardinality({i \in 1..Len(args) : args[i][1] = "-ss"}) = 1

LEMMA CommandTells ==
    ASSUME template \in Seq(TemplateWords), NEW ts \in Streams, LookupTranscodeCommand(ts.format), NEW offset \in Nat,
           NEW r, r = Command(ts, offset)
    PROVE  ToldAsAgreed(ts, offset, r)
<1> DEFINE own == template # <<>> /\ ts.format = "opus"
<1>1. CASE ~own
  <2>1. r = buildDynamicArgs(ts, offset) BY <1>1 DEF Command
  <2>2. r \in Args /\ Agreed(r, ts) /\ (offset > 0 => Seeks(r, offset)) BY <2>1, DynamicArgs
  <2>3. offset > 0 => /\ Given(r, "-ss") = offset /\ LastAt(r, "-ss") < LastAt(r, "-i")
                      /\ Cardinality({i \in 1..Len(r) : r[i][1] = "-ss"}) = 1
    BY <2>2, SeeksOnce
  <2>4. QED BY <1>1, <2>2, <2>3 DEF ToldAsAgreed, Agreed
<1>2. CASE own
  <2>1. r = buildTemplateArgs(template, ts, offset) BY <1>2 DEF Command
  <2>2. PICK cmd : cmd = template OBVIOUS
  <2>3. PICK a : a = createFFmpegCommand(cmd, ts, offset) OBVIOUS
  <2>4. a \in Args /\ (offset > 0 /\ SeeksItsInput(cmd) => Seeks(a, offset)) BY <2>2, <2>3, TemplateSeeks
  <2>5. r = injectDynamicAudioFlags(a, ts) BY <2>1, <2>2, <2>3 DEF buildTemplateArgs
  <2>6. /\ r \in Args
        /\ ts.rate > 0 => Given(r, "-ar") = ts.rate
        /\ ts.ch > 0 => Given(r, "-ac") = ts.ch
        /\ \A flag : flag \notin OwnFlags => SameAt(a, r, flag)
    BY <2>4, <2>5, AudioFlags
  <2>7. "-ss" \notin OwnFlags /\ "-i" \notin OwnFlags BY DEF OwnFlags
  <2>8. SameAt(a, r, "-ss") /\ SameAt(a, r, "-i") BY <2>6, <2>7
  <2>9. ASSUME offset > 0, SeeksItsInput(template)
        PROVE  /\ Given(r, "-ss") = offset /\ LastAt(r, "-ss") < LastAt(r, "-i")
               /\ Cardinality({i \in 1..Len(r) : r[i][1] = "-ss"}) = 1
    <3>1. Seeks(a, offset) BY <2>2, <2>4, <2>9
    <3>2. Seeks(r, offset) BY <2>8, <3>1, SeeksSame
    <3>3. QED BY <2>6, <3>2, SeeksOnce
  <2>10. QED BY <1>2, <2>6, <2>9 DEF ToldAsAgreed
<1>3. QED BY <1>1, <1>2

-------------------------------------------------------------------------------
(* TranscodeDecision: older clients                                            *)

\* A format the server can turn any file into.
CanMake(f) == LookupTranscodeCommand(f) /\ ~isLosslessFormat(f)

OffersOnly(c, f) == DOMAIN c.transcoding = {1} /\ c.transcoding[1] = To(f)

LEMMA OneOffer == ASSUME NEW p, NEW l, l = <<p>> PROVE DOMAIN l = {1} /\ l[1] = p
<1>1. Len(l) = 1 /\ l[1] = p OBVIOUS
<1>2. DOMAIN l = 1..1 OBVIOUS
<1>3. QED BY <1>1, <1>2

LEMMA NoOffer == ASSUME NEW l, l = <<>>, NEW S PROVE DOMAIN l = {} /\ l \in Seq(S)
<1>1. DOMAIN l = 1..0 OBVIOUS
<1>2. QED BY <1>1

Unset(name) == name = ""

LEMMA MadeWhenPossible ==
    ASSUME NEW facts \in AudioFacts, NEW f, CanMake(f), NEW c, c.max \in Nat, c.maxTranscoding \in Nat,
           Unset(c.limited), OffersOnly(c, f)
    PROVE  MakeDecision(facts, c) # Rejected
<1> DEFINE p == To(f)
           q == computeTranscodedStream(facts, p, c)
           usable == {i \in DOMAIN c.transcoding : computeTranscodedStream(facts, c.transcoding[i], c) # Rejected}
           first == CHOOSE i \in usable : \A j \in usable : i <= j
           direct == /\ c.max > 0 => facts.bitrate <= c.max
                     /\ \E i \in 1..Len(c.direct) : checkDirectPlayProfile(facts, c.direct[i], c)
<1>1. p.codec = f /\ p.container = f /\ p.protocol = "http" /\ p.ch = 0 BY DEF To
<1>2. f # "" BY DEF CanMake, LookupTranscodeCommand
<1>3. resolveTargetFormat(p) = f BY <1>1, <1>2 DEF resolveTargetFormat
<1> HIDE DEF p
<1>4. computeBitrate(facts, f, c) # -1
  <2>1. facts.bitrate \in Nat BY DEF AudioFacts
  <2>2. lookupDefaultBitrate(f) \in Nat BY DEF lookupDefaultBitrate
  <2>6. \A n \in Nat : n # -1
    <3>1. \A n \in Nat : n >= 0 /\ n # -1 OBVIOUS
    <3>2. QED BY <3>1
  <2>3. CASE ~isLosslessFormat(facts.codec)
    <3>1. computeBitrate(facts, f, c) = Lower(facts.bitrate, c.max) BY <2>3 DEF computeBitrate
    <3>2. Lower(facts.bitrate, c.max) \in Nat BY <2>1 DEF Lower
    <3>3. QED BY <2>6, <3>1, <3>2
  <2>4. CASE isLosslessFormat(facts.codec)
    <3> DEFINE v == CASE c.maxTranscoding > 0 -> c.maxTranscoding
                      [] c.maxTranscoding = 0 /\ c.max > 0 -> c.max
                      [] OTHER -> lookupDefaultBitrate(f)
    <3>1. computeBitrate(facts, f, c) = Lower(v, c.max) BY <2>4 DEF computeBitrate, CanMake
    <3>2. v \in Nat BY <2>2
    <3> HIDE DEF v
    <3>3. Lower(v, c.max) \in Nat BY <3>2 DEF Lower
    <3>4. QED BY <2>6, <3>1, <3>3
  <2>5. QED BY <2>3, <2>4
<1>5. ~matchesCodec(f, {""}) BY <1>2 DEF matchesCodec, MatchesAny, codecAliases
<1>6. PICK t : t = Unlimited(facts, p, c) OBVIOUS
<1>7. t.codec = f /\ t.how = "transcode" BY <1>1, <1>2, <1>3, <1>6 DEF Unlimited
<1>8. q = applyCodecLimitations(facts, t, c)
  BY <1>1, <1>2, <1>3, <1>4, <1>6 DEF computeTranscodedStream, Unlimited, CanMake
<1>9. q = t BY <1>5, <1>7, <1>8 DEF applyCodecLimitations, Unset
<1>10. q # Rejected
  <2>1. q.how = "transcode" BY <1>7, <1>9
  <2>2. Rejected.how = "none" BY DEF Rejected
  <2> HIDE DEF q
  <2>3. QED BY <2>1, <2>2
<1>11. DOMAIN c.transcoding = {1} /\ c.transcoding[1] = p BY DEF p, OffersOnly
<1>12. usable = {1} BY <1>10, <1>11
<1>13. first = 1
  <2>1. \E i \in usable : \A j \in usable : i <= j
    <3> HIDE DEF usable
    <3>1. 1 \in usable /\ \A j \in usable : 1 <= j BY <1>12
    <3>2. QED BY <3>1
  <2>2. first \in usable
    <3> HIDE DEF usable
    <3>1. QED BY <2>1
  <2> HIDE DEF usable, first
  <2>3. QED BY <1>12, <2>2
<1>14. MakeDecision(facts, c) = IF direct THEN [how |-> "direct"] ELSE q
  <2>1. MakeDecision(facts, c) = IF direct THEN [how |-> "direct"]
                                 ELSE IF usable # {} THEN computeTranscodedStream(facts, c.transcoding[first], c) ELSE Rejected
    BY DEF MakeDecision
  <2> HIDE DEF usable, first, direct
  <2>2. QED BY <1>11, <1>12, <1>13, <2>1
<1>15. [how |-> "direct"] # Rejected
  <2>1. [how |-> "direct"].how = "direct" /\ Rejected.how = "none" BY DEF Rejected
  <2>2. QED BY <2>1
<1>16. QED BY <1>10, <1>14, <1>15

\* What an older client is taken to declare, under a limit.
UnderCap(c, cap) ==
    /\ IsClient(c) /\ c.limitations = <<>> /\ Unset(c.limited)
    /\ c.max > 0 /\ c.max <= cap

LEMMA LegacyDeclares ==
    ASSUME player \in Players, player.cap > 0, NEW f \in STRING, Downsampling \in STRING, NEW rate \in Nat, NEW tags,
           NEW c, c = CapBitrate(buildLegacyClientInfo(tags, f, rate), player.cap)
    PROVE  /\ UnderCap(c, player.cap)
           /\ f # "" => OffersOnly(c, f)
           /\ f = "" /\ player.cap < tags.bitrate /\ Downsampling # "" => OffersOnly(c, Downsampling)
<1> DEFINE b == buildLegacyClientInfo(tags, f, rate)
           target == CASE f # "" -> f
                       [] f = "" /\ (\/ rate > 0 /\ rate < tags.bitrate
                                     \/ player.cap > 0 /\ player.cap < tags.bitrate) -> Downsampling
                       [] OTHER -> ""
           direct == IF f \in {"", tags.container} THEN <<Only(tags.container, tags.codec)>> ELSE <<>>
<1>1. player.cap \in Nat BY DEF Players
<1>2. b = IF target = "" THEN [Legacy EXCEPT !.direct = <<AnyHTTP>>]
          ELSE [Legacy EXCEPT !.direct = direct, !.transcoding = <<To(target)>>, !.max = rate, !.maxTranscoding = rate]
  BY DEF buildLegacyClientInfo
<1>3. /\ f # "" => target = f
      /\ f = "" /\ player.cap < tags.bitrate => target = Downsampling
      /\ target # "" => target \in STRING
  <2>1. f = "" /\ player.cap < tags.bitrate => target = Downsampling OBVIOUS
  <2>2. f # "" => target = f OBVIOUS
  <2>3. target = f \/ target = Downsampling \/ target = "" OBVIOUS
  <2>4. QED BY <2>1, <2>2, <2>3
<1> HIDE DEF target, direct
<1>4. CASE target = ""
  <2>1. /\ DOMAIN b = ClientFields /\ b.max = 0 /\ b.maxTranscoding = 0 /\ Unset(b.limited) /\ b.limitations = <<>> /\ b.transcoding = <<>>
    BY <1>2, <1>4 DEF Legacy, ClientFields, Unset
  <2> HIDE DEF b
  <2>2. b.limitations \in Seq(Limitations) /\ DOMAIN b.transcoding = {} BY <2>1, NoOffer
  <2>a. b.max \in Nat /\ b.maxTranscoding \in Nat BY <2>1
  <2>3. IsClient(b) BY <2>2, <2>a DEF IsClient
  <2>4. SameLimits(b, c) /\ Capped(player.cap, b.max, c.max) BY <1>1, <2>1, <2>3, CappedRates DEF b
  <2>5. UnderCap(c, player.cap) BY <1>1, <2>1, <2>4 DEF UnderCap, SameLimits, Capped
  <2>6. QED BY <1>3, <1>4, <2>5
<1>5. CASE target # ""
  <2>1. /\ DOMAIN b = ClientFields /\ b.max = rate /\ b.maxTranscoding = rate /\ Unset(b.limited) /\ b.limitations = <<>>
        /\ b.transcoding = <<To(target)>>
    BY <1>2, <1>5 DEF Legacy, ClientFields, Unset
  <2> HIDE DEF b
  <2>2. b.limitations \in Seq(Limitations) /\ DOMAIN b.transcoding = {1} /\ b.transcoding[1] = To(target)
    BY <2>1, NoOffer, OneOffer
  <2>3. IsProfile(To(target)) BY <1>3, <1>5 DEF IsProfile, To
  <2>a. b.max \in Nat /\ b.maxTranscoding \in Nat BY <2>1
  <2>4. IsClient(b) BY <2>2, <2>3, <2>a DEF IsClient
  <2>5. SameLimits(b, c) /\ Capped(player.cap, b.max, c.max) BY <1>1, <2>1, <2>4, CappedRates DEF b
  <2>6. UnderCap(c, player.cap) BY <1>1, <2>1, <2>5 DEF UnderCap, SameLimits, Capped
  <2>7. c.transcoding = b.transcoding
    <3>1. c = CapBitrate(b, player.cap) BY DEF b
    <3>2. QED BY <2>1, <3>1 DEF CapBitrate, ClientFields
  <2>8. OffersOnly(c, target) BY <2>2, <2>7 DEF OffersOnly
  <2>9. QED BY <1>3, <1>5, <2>6, <2>8
<1>6. QED BY <1>4, <1>5

LEMMA OverrideDeclares ==
    ASSUME player \in Players, player.cap > 0, NEW f \in STRING, NEW c, c = applyServerOverride(f)
    PROVE  UnderCap(c, player.cap) /\ OffersOnly(c, f)
<1>1. player.cap \in Nat BY DEF Players
<1>2. /\ DOMAIN c = ClientFields /\ c.max = player.cap /\ c.maxTranscoding = player.cap /\ Unset(c.limited) /\ c.limitations = <<>>
      /\ c.transcoding = <<To(f)>>
  BY <1>1 DEF applyServerOverride, Legacy, ClientFields, Unset
<1>3. c.limitations \in Seq(Limitations) /\ DOMAIN c.transcoding = {1} /\ c.transcoding[1] = To(f) BY <1>2, NoOffer, OneOffer
<1>4. IsProfile(To(f)) BY DEF IsProfile, To
<1>5. c.max \in Nat /\ c.maxTranscoding \in Nat /\ c.max > 0 /\ c.max <= player.cap BY <1>1, <1>2
<1>6. IsClient(c) BY <1>3, <1>4, <1>5 DEF IsClient
<1>7. c.limitations = <<>> /\ Unset(c.limited) BY <1>2
<1>8. QED BY <1>3, <1>5, <1>6, <1>7 DEF UnderCap, OffersOnly

\* A decision under a limit keeps to it.
LEMMA CapIsKept ==
    ASSUME NEW facts \in AudioFacts, NEW cap \in Nat, NEW c, UnderCap(c, cap), NEW d, d = MakeDecision(facts, c), d # Rejected
    PROVE  /\ d.how = "transcode" => d.bitrate \in Nat /\ d.bitrate <= cap
           /\ d.how # "transcode" => facts.bitrate <= cap
<1>1. IsClient(c) /\ c.max > 0 /\ c.max <= cap BY DEF UnderCap
<1>2. c.max \in Nat /\ facts.bitrate \in Nat BY <1>1 DEF IsClient, AudioFacts
<1>3. NoneZero(c.limitations)
  <2>1. PICK lims : lims = c.limitations OBVIOUS
  <2>2. Len(lims) = 0 BY <2>1 DEF UnderCap
  <2>3. 1..Len(lims) = {} BY <2>2
  <2>4. QED BY <2>1, <2>3 DEF NoneZero
<1>4. \/ d = [how |-> "direct"] /\ (c.max > 0 => facts.bitrate <= c.max)
      \/ d.how = "transcode" /\ Within(facts, c, d)
  BY <1>1, DecisionIsWithin
<1>5. CASE d = [how |-> "direct"] /\ (c.max > 0 => facts.bitrate <= c.max)
  <2>1. d.how = "direct" BY <1>5
  <2>2. facts.bitrate <= cap BY <1>1, <1>2, <1>5
  <2>3. QED BY <2>1, <2>2
<1>6. CASE d.how = "transcode" /\ Within(facts, c, d)
  <2>1. d.bitrate \in Nat /\ RateOf(facts, d) <= c.max BY <1>1, <1>3, <1>6 DEF Within, RateBounds, Streams
  <2>2. d.bitrate \in Nat /\ d.bitrate <= cap BY <1>1, <1>2, <2>1 DEF RateOf
  <2>3. QED BY <1>6, <2>2
<1>7. QED BY <1>4, <1>5, <1>6

RowIsTyped == song.version \in Versions /\ song.probe \in AudioFacts \cup {NoFacts}

LEMMA RowFacts ==
    ASSUME RowIsTyped
    PROVE  TagsOf[song.version] \in AudioFacts /\ buildSourceStream(song.version, song.probe) \in AudioFacts
BY DecisionAssumption DEF DecisionAssumption, RowIsTyped, buildSourceStream

\* What the server first tries, for a format.
LEMMA OnceUnderCap ==
    ASSUME RowIsTyped, player \in Players, player.cap > 0, NEW f \in STRING, NEW rate \in Nat, NEW d, d = ResolveOnce(f, rate),
           NEW facts, facts = buildSourceStream(song.version, song.probe)
    PROVE  /\ d # Rejected => /\ d.how = "transcode" => d.bitrate \in Nat /\ d.bitrate <= player.cap
                              /\ d.how # "transcode" => facts.bitrate <= player.cap
           /\ ~Unset(player.forced) /\ CanMake(player.forced) => d # Rejected
           /\ Unset(player.forced) /\ ~Unset(f) /\ CanMake(f) => d # Rejected
           /\ Unset(player.forced) /\ Unset(f) /\ player.cap < TagsOf[song.version].bitrate /\ CanMake(Downsampling) => d # Rejected
<1>1. player.cap \in Nat /\ player.forced \in STRING /\ Downsampling \in STRING
  BY DecisionAssumption DEF DecisionAssumption, Players
<1>2. facts \in AudioFacts BY RowFacts
<1>3. CASE ~Unset(player.forced)
  <2>1. PICK c : c = applyServerOverride(player.forced) OBVIOUS
  <2>2. d = MakeDecision(facts, c) BY <1>3, <2>1 DEF ResolveOnce, Unset
  <2>3. UnderCap(c, player.cap) /\ OffersOnly(c, player.forced) BY <1>1, <2>1, OverrideDeclares
  <2>4. c.max \in Nat /\ c.maxTranscoding \in Nat /\ Unset(c.limited) BY <2>3 DEF UnderCap, IsClient
  <2>5. CanMake(player.forced) => d # Rejected BY <1>2, <2>2, <2>3, <2>4, MadeWhenPossible
  <2>6. QED BY <1>1, <1>2, <1>3, <2>2, <2>3, <2>5, CapIsKept
<1>4. CASE Unset(player.forced)
  <2>1. PICK c : c = CapBitrate(buildLegacyClientInfo(TagsOf[song.version], f, rate), player.cap) OBVIOUS
  <2>2. d = MakeDecision(facts, c) BY <1>4, <2>1 DEF ResolveOnce, Unset
  <2>3. /\ UnderCap(c, player.cap)
        /\ f # "" => OffersOnly(c, f)
        /\ f = "" /\ player.cap < TagsOf[song.version].bitrate /\ Downsampling # "" => OffersOnly(c, Downsampling)
    BY <1>1, <2>1, LegacyDeclares
  <2>4. c.max \in Nat /\ c.maxTranscoding \in Nat /\ Unset(c.limited) BY <2>3 DEF UnderCap, IsClient
  <2>5. \A g : CanMake(g) /\ OffersOnly(c, g) => d # Rejected BY <1>2, <2>2, <2>4, MadeWhenPossible
  <2>6. \A g : CanMake(g) => g # "" BY DEF CanMake, LookupTranscodeCommand
  <2>7. ~Unset(f) /\ CanMake(f) => d # Rejected BY <2>3, <2>5 DEF Unset
  <2>8. Unset(f) /\ player.cap < TagsOf[song.version].bitrate /\ CanMake(Downsampling) => d # Rejected
    BY <2>3, <2>5, <2>6 DEF Unset
  <2>9. d # Rejected => /\ d.how = "transcode" => d.bitrate \in Nat /\ d.bitrate <= player.cap
                        /\ d.how # "transcode" => facts.bitrate <= player.cap
    <3>1. UnderCap(c, player.cap) BY <2>3
    <3>2. QED BY <1>1, <1>2, <2>2, <3>1, CapIsKept
  <2>10. QED BY <1>4, <2>7, <2>8, <2>9
<1>5. QED BY <1>3, <1>4

\* What an older client is given: within the limit, or the file when none of
\* the formats can be made.
LEMMA RequestUnderCap ==
    ASSUME RowIsTyped, player \in Players, player.cap > 0, NEW f \in STRING, f # "raw", NEW rate \in Nat,
           NEW d, d = ResolveRequest(f, rate), NEW facts, facts = buildSourceStream(song.version, song.probe),
           player.cap < TagsOf[song.version].bitrate,
           ~(d.how = "transcode" /\ d.bitrate \in Nat /\ d.bitrate <= player.cap), ~(d.how # "transcode" /\ facts.bitrate <= player.cap)
    PROVE  IF Unset(player.forced) THEN ~CanMake(f) /\ ~CanMake(Downsampling) ELSE ~CanMake(player.forced)
<1> DEFINE first == ResolveOnce(f, rate)
           second == ResolveOnce(Downsampling, rate)
<1>1. Downsampling \in STRING BY DecisionAssumption DEF DecisionAssumption
<1>2. /\ first # Rejected => /\ first.how = "transcode" => first.bitrate \in Nat /\ first.bitrate <= player.cap
                             /\ first.how # "transcode" => facts.bitrate <= player.cap
      /\ ~Unset(player.forced) /\ CanMake(player.forced) => first # Rejected
      /\ Unset(player.forced) /\ ~Unset(f) /\ CanMake(f) => first # Rejected
      /\ Unset(player.forced) /\ Unset(f) /\ CanMake(Downsampling) => first # Rejected
  BY OnceUnderCap
<1>3. /\ second # Rejected => /\ second.how = "transcode" => second.bitrate \in Nat /\ second.bitrate <= player.cap
                              /\ second.how # "transcode" => facts.bitrate <= player.cap
      /\ Unset(player.forced) /\ ~Unset(Downsampling) /\ CanMake(Downsampling) => second # Rejected
  <2>1. PICK e : e = second OBVIOUS
  <2>2. e # Rejected => /\ e.how = "transcode" => e.bitrate \in Nat /\ e.bitrate <= player.cap
                        /\ e.how # "transcode" => facts.bitrate <= player.cap
    BY <1>1, <2>1, OnceUnderCap
  <2>3. Unset(player.forced) /\ ~Unset(Downsampling) /\ CanMake(Downsampling) => e # Rejected
    BY <1>1, <2>1, OnceUnderCap
  <2> HIDE DEF second
  <2>4. QED BY <2>1, <2>2, <2>3
<1> HIDE DEF first, second
<1>4. /\ first # Rejected => d = first
      /\ first = Rejected /\ f # "" /\ f # Downsampling /\ Downsampling # "" /\ second # Rejected => d = second
  BY DEF ResolveRequest, first, second
<1>5. first = Rejected BY <1>2, <1>4
<1>6. f # "" /\ f # Downsampling /\ Downsampling # "" => second = Rejected BY <1>3, <1>4, <1>5
<1>7. \A g : CanMake(g) => ~Unset(g) BY DEF CanMake, LookupTranscodeCommand, Unset
<1>8. CASE ~Unset(player.forced) BY <1>2, <1>5, <1>8
<1>9. CASE Unset(player.forced)
  <2>1. ~CanMake(f) BY <1>2, <1>5, <1>7, <1>9
  <2>2. ASSUME CanMake(Downsampling) PROVE FALSE
    <3>1. ~Unset(Downsampling) BY <1>7, <2>2
    <3>2. CASE Unset(f) BY <1>2, <1>5, <1>9, <2>2, <3>2
    <3>3. CASE ~Unset(f)
      <4>1. f # Downsampling BY <2>1, <2>2
      <4>2. second = Rejected BY <1>6, <3>1, <3>3, <4>1 DEF Unset
      <4>3. QED BY <1>3, <1>9, <2>2, <3>1, <4>2
    <3>4. QED BY <3>2, <3>3
  <2>3. QED BY <1>9, <2>1, <2>2
<1>10. QED BY <1>8, <1>9

-------------------------------------------------------------------------------
(* TranscodeDecision: PlayedAsAgreed                                           *)

IsToken(t, n) ==
    /\ t.about \in Versions /\ t.stamp = StampOf[t.about] /\ t.src \in AudioFacts
    /\ t.ts = MakeDecision(t.src, n) /\ t.ts # Rejected /\ t.how = t.ts.how
OfItsFile(t) == t.src \in {TagsOf[t.about], ProbeOf[t.about]}

StateIsTyped == device \in Devices /\ disk \in Versions /\ RowIsTyped
AskingIsTyped ==
    asking # NoAsk => /\ device.declares # <<>> /\ asking.copy \in Versions
                      /\ asking.at = "store" => asking.stored \in AudioFacts
TokenIsSound == token # NoToken => device.declares # <<>> /\ IsToken(token, Negotiated(client))
NothingCrossed ==
    ~crossed => /\ song.probe \in {NoFacts, ProbeOf[song.version]}
                /\ asking # NoAsk /\ asking.at = "store" => asking.stored = ProbeOf[asking.copy]
                /\ token # NoToken => OfItsFile(token)
PlayedIsSound ==
    played.by = "token" =>
        /\ IsToken(played.token, Negotiated(client)) /\ StampOf[played.version] = played.token.stamp
        /\ ~crossed => OfItsFile(played.token)
        /\ played.how = "transcode" => ToldAsAgreed(played.token.ts, played.offset, played.args)

\* What the actions keep.
DecisionInv == /\ StateIsTyped /\ AskingIsTyped /\ TokenIsSound /\ NothingCrossed /\ PlayedIsSound
               /\ LegacyHonoursTheCap

LEMMA DecisionInitInv == DecisionInit => DecisionInv
<1> SUFFICES ASSUME DecisionInit PROVE DecisionInv OBVIOUS
<1>1. StateIsTyped BY DecisionAssumption DEF DecisionInit, DecisionAssumption, StateIsTyped, RowIsTyped
<1>2. AskingIsTyped /\ TokenIsSound BY DEF DecisionInit, AskingIsTyped, TokenIsSound
<1>3. NothingCrossed BY DEF DecisionInit, NothingCrossed
<1>4. played.by = "none" BY DEF DecisionInit, NotPlayed
<1>5. QED BY <1>1, <1>2, <1>3, <1>4 DEF DecisionInv, PlayedIsSound, LegacyHonoursTheCap

\* The device stays, and what follows from it.
LEMMA SameDevice ==
    ASSUME device' = device
    PROVE  /\ Negotiated(client)' = Negotiated(client)
           /\ player' = player /\ template' = template
BY DEF Negotiated, client, player, template

LEMMA DeviceIsTyped ==
    ASSUME device \in Devices
    PROVE  /\ player \in Players /\ template \in Seq(TemplateWords)
           /\ device.declares # <<>> => client \in Clients
<1>1. /\ device.declares \in Seq(Clients) /\ Len(device.declares) <= 1 /\ device.player \in Players
      /\ device.template \in Seq(TemplateWords)
  BY DecisionAssumption DEF DecisionAssumption, TemplateWords
<1>2. device.declares # <<>> => device.declares[1] \in Clients BY <1>1
<1>3. QED BY <1>1, <1>2 DEF player, template, client

\* What is played stays as sound as it was.
LEMMA PlayedStays ==
    ASSUME PlayedIsSound, LegacyHonoursTheCap, device' = device, played' = played, crossed => crossed'
    PROVE  PlayedIsSound' /\ LegacyHonoursTheCap'
<1>1. Negotiated(client)' = Negotiated(client) /\ player' = player /\ template' = template BY SameDevice
<1>2. LegacyHonoursTheCap' BY <1>1 DEF LegacyHonoursTheCap
<1>3. PlayedIsSound'
  <2>1. \A ts, offset, args : ToldAsAgreed(ts, offset, args) => ToldAsAgreed(ts, offset, args)'
    BY <1>1 DEF ToldAsAgreed
  <2>2. QED BY <1>1, <2>1 DEF PlayedIsSound
<1>4. QED BY <1>2, <1>3

LEMMA ReplaceFileKeeps == ASSUME DecisionInv, ReplaceFile PROVE DecisionInv'
<1>1. /\ disk' \in Versions /\ song' = song /\ device' = device /\ asking' = asking /\ token' = token
      /\ played' = played /\ crossed' = crossed
  BY DEF ReplaceFile
<1>2. Negotiated(client)' = Negotiated(client) BY <1>1, SameDevice
<1>3. StateIsTyped' BY <1>1 DEF DecisionInv, StateIsTyped, RowIsTyped
<1>4. AskingIsTyped' BY <1>1 DEF DecisionInv, AskingIsTyped
<1>5. TokenIsSound' BY <1>1, <1>2 DEF DecisionInv, TokenIsSound
<1>6. NothingCrossed' BY <1>1 DEF DecisionInv, NothingCrossed
<1>7. QED BY <1>1, <1>3, <1>4, <1>5, <1>6, PlayedStays DEF DecisionInv

LEMMA ImportSongKeeps == ASSUME DecisionInv, ImportSong PROVE DecisionInv'
<1>1. /\ disk' = disk /\ song' = [version |-> disk, probe |-> NoFacts] /\ device' = device /\ asking' = asking /\ token' = token
      /\ played' = played /\ crossed' = crossed
  BY DEF ImportSong
<1>2. Negotiated(client)' = Negotiated(client) BY <1>1, SameDevice
<1>3. StateIsTyped' BY <1>1 DEF DecisionInv, StateIsTyped, RowIsTyped
<1>4. AskingIsTyped' BY <1>1 DEF DecisionInv, AskingIsTyped
<1>5. TokenIsSound' BY <1>1, <1>2 DEF DecisionInv, TokenIsSound
<1>6. NothingCrossed' BY <1>1 DEF DecisionInv, NothingCrossed
<1>7. QED BY <1>1, <1>3, <1>4, <1>5, <1>6, PlayedStays DEF DecisionInv

\* The token that a decision makes.
LEMMA DecidedToken ==
    ASSUME NEW version \in Versions, NEW facts \in AudioFacts, Decided(version, facts)
    PROVE  token' # NoToken => /\ IsToken(token', Negotiated(client))
                               /\ token'.about = version /\ token'.src = facts
<1> SUFFICES ASSUME token' # NoToken
             PROVE  IsToken(token', Negotiated(client)) /\ token'.about = version /\ token'.src = facts
  OBVIOUS
<1>1. PICK d : d = MakeDecision(facts, Negotiated(client)) OBVIOUS
<1>2. d # Rejected /\ token' = [how |-> d.how, ts |-> d, stamp |-> StampOf[version], src |-> facts, about |-> version]
  BY <1>1 DEF Decided, toClaimsMap
<1>3. QED BY <1>1, <1>2 DEF IsToken

LEMMA GetTranscodeDecisionKeeps == ASSUME DecisionInv, GetTranscodeDecision PROVE DecisionInv'
<1>1. /\ disk' = disk /\ song' = song /\ device' = device /\ played' = played /\ crossed' = crossed
      /\ device.declares # <<>> /\ asking = NoAsk
  BY DEF GetTranscodeDecision
<1>2. Negotiated(client)' = Negotiated(client) BY <1>1, SameDevice
<1>3. StateIsTyped' BY <1>1 DEF DecisionInv, StateIsTyped, RowIsTyped
<1>4. RowIsTyped BY DEF DecisionInv, StateIsTyped
<1>5. CASE /\ song.probe = NoFacts
           /\ asking' = [at |-> "probe", copy |-> song.version, stored |-> NoFacts] /\ token' = token
  <2>1. asking'.at = "probe" /\ asking'.copy \in Versions BY <1>4, <1>5 DEF RowIsTyped
  <2>2. AskingIsTyped' BY <1>1, <2>1 DEF AskingIsTyped
  <2>3. TokenIsSound' BY <1>1, <1>2, <1>5 DEF DecisionInv, TokenIsSound
  <2>4. NothingCrossed' BY <1>1, <1>5, <2>1 DEF DecisionInv, NothingCrossed
  <2>5. QED BY <1>1, <1>3, <2>2, <2>3, <2>4, PlayedStays DEF DecisionInv
<1>6. CASE Decided(song.version, buildSourceStream(song.version, song.probe)) /\ asking' = asking
  <2> DEFINE facts == buildSourceStream(song.version, song.probe)
  <2>1. song.version \in Versions /\ facts \in AudioFacts BY <1>4, RowFacts DEF RowIsTyped
  <2>2. ~crossed => facts \in {TagsOf[song.version], ProbeOf[song.version]}
    BY DEF DecisionInv, NothingCrossed, buildSourceStream
  <2> HIDE DEF facts
  <2>3. token' # NoToken => /\ IsToken(token', Negotiated(client))
                            /\ token'.about = song.version /\ token'.src = facts
    BY <1>6, <2>1, DecidedToken DEF facts
  <2>4. AskingIsTyped' BY <1>1, <1>6 DEF AskingIsTyped
  <2>5. TokenIsSound' BY <1>1, <1>2, <2>3 DEF TokenIsSound
  <2>6. NothingCrossed' BY <1>1, <1>6, <2>2, <2>3 DEF DecisionInv, NothingCrossed, OfItsFile
  <2>7. QED BY <1>1, <1>3, <2>4, <2>5, <2>6, PlayedStays DEF DecisionInv
<1>7. QED BY <1>5, <1>6 DEF GetTranscodeDecision

LEMMA ProbeAudioStreamKeeps == ASSUME DecisionInv, ProbeAudioStream PROVE DecisionInv'
<1>1. /\ disk' = disk /\ song' = song /\ device' = device /\ token' = token /\ played' = played
      /\ asking.at = "probe" /\ crossed' = (crossed \/ disk # asking.copy)
      /\ asking' \in {[asking EXCEPT !.at = "store", !.stored = ProbeOf[disk]], NoAsk}
  BY DEF ProbeAudioStream
<1>2. Negotiated(client)' = Negotiated(client) BY <1>1, SameDevice
<1>3. crossed => crossed' BY <1>1
<1>4. StateIsTyped' BY <1>1 DEF DecisionInv, StateIsTyped, RowIsTyped
<1>5. TokenIsSound' BY <1>1, <1>2 DEF DecisionInv, TokenIsSound
<1>6. asking # NoAsk
  <2>1. NoAsk.at = "idle" BY DEF NoAsk
  <2>2. QED BY <1>1, <2>1
<1>7. device.declares # <<>> /\ asking.copy \in Versions BY <1>6 DEF DecisionInv, AskingIsTyped
<1>8. ProbeOf[disk] \in AudioFacts BY DecisionAssumption DEF DecisionAssumption, DecisionInv, StateIsTyped
<1>9. asking' # NoAsk => /\ asking'.copy = asking.copy
                         /\ asking'.at = "store" => asking'.stored = ProbeOf[disk]
  <2>1. SUFFICES ASSUME asking' = [asking EXCEPT !.at = "store", !.stored = ProbeOf[disk]]
                 PROVE  asking'.copy = asking.copy /\ (asking'.at = "store" => asking'.stored = ProbeOf[disk])
    BY <1>1
  <2>2. asking'.copy = asking.copy BY <2>1
  <2>3. asking'.at = "store" => asking'.stored = ProbeOf[disk] BY <2>1
  <2>4. QED BY <2>2, <2>3
<1>10. AskingIsTyped' BY <1>1, <1>7, <1>8, <1>9 DEF AskingIsTyped
<1>11. NothingCrossed' BY <1>1, <1>9 DEF DecisionInv, NothingCrossed
<1>12. QED BY <1>1, <1>3, <1>4, <1>5, <1>10, <1>11, PlayedStays DEF DecisionInv

LEMMA ensureProbedKeeps == ASSUME DecisionInv, ensureProbed PROVE DecisionInv'
<1>1. /\ disk' = disk /\ device' = device /\ played' = played /\ asking.at = "store"
      /\ song' \in {[song EXCEPT !.probe = asking.stored], song}
      /\ crossed' = (crossed \/ song.version # asking.copy)
      /\ Decided(asking.copy, asking.stored) /\ asking' = NoAsk
  BY DEF ensureProbed
<1>2. Negotiated(client)' = Negotiated(client) BY <1>1, SameDevice
<1>3. crossed => crossed' BY <1>1
<1>4. asking # NoAsk
  <2>1. NoAsk.at = "idle" BY DEF NoAsk
  <2>2. QED BY <1>1, <2>1
<1>5. device.declares # <<>> /\ asking.copy \in Versions /\ asking.stored \in AudioFacts
  BY <1>1, <1>4 DEF DecisionInv, AskingIsTyped
<1>6. ~crossed => asking.stored = ProbeOf[asking.copy] BY <1>1, <1>4 DEF DecisionInv, NothingCrossed
<1>7. song'.version \in Versions /\ song'.probe \in AudioFacts \cup {NoFacts}
  <2>1. song.version \in Versions /\ song.probe \in AudioFacts \cup {NoFacts} BY DEF DecisionInv, StateIsTyped, RowIsTyped
  <2>2. song' = song => song'.version \in Versions /\ song'.probe \in AudioFacts \cup {NoFacts} BY <2>1
  <2>3. ASSUME song' = [song EXCEPT !.probe = asking.stored]
        PROVE  song'.version \in Versions /\ song'.probe \in AudioFacts \cup {NoFacts}
    <3>1. song'.version = song.version /\ (song'.probe = asking.stored \/ song'.probe = song.probe) BY <2>3
    <3>2. QED BY <1>5, <2>1, <3>1
  <2>4. QED BY <1>1, <2>2, <2>3
<1>8. StateIsTyped' BY <1>1, <1>7 DEF DecisionInv, StateIsTyped, RowIsTyped
<1>9. token' # NoToken => /\ IsToken(token', Negotiated(client))
                          /\ token'.about = asking.copy /\ token'.src = asking.stored
  BY <1>1, <1>5, DecidedToken
<1>10. AskingIsTyped' BY <1>1 DEF AskingIsTyped
<1>11. TokenIsSound' BY <1>1, <1>2, <1>5, <1>9 DEF TokenIsSound
<1>12. ASSUME ~crossed' PROVE song'.probe \in {NoFacts, ProbeOf[song'.version]}
  <2>1. ~crossed /\ song.version = asking.copy BY <1>1, <1>12
  <2>2. song.probe \in {NoFacts, ProbeOf[song.version]} BY <2>1 DEF DecisionInv, NothingCrossed
  <2>3. CASE song' = song BY <2>2, <2>3
  <2>4. CASE song' = [song EXCEPT !.probe = asking.stored]
    <3>1. song'.version = song.version /\ (song'.probe = asking.stored \/ song'.probe = song.probe) BY <2>4
    <3>2. QED BY <1>6, <2>1, <2>2, <3>1
  <2>5. QED BY <1>1, <2>3, <2>4
<1>13. NothingCrossed' BY <1>1, <1>3, <1>6, <1>9, <1>12 DEF NothingCrossed, OfItsFile
<1>14. QED BY <1>1, <1>3, <1>8, <1>10, <1>11, <1>13, PlayedStays DEF DecisionInv

LEMMA GetTranscodeStreamKeeps ==
    ASSUME DecisionInv, NEW offset \in Offsets, GetTranscodeStream(offset) PROVE DecisionInv'
<1>1. /\ disk' = disk /\ song' = song /\ device' = device /\ asking' = asking /\ token' = token /\ crossed' = crossed
      /\ token # NoToken
  BY DEF GetTranscodeStream
<1>2. Negotiated(client)' = Negotiated(client) /\ player' = player /\ template' = template BY <1>1, SameDevice
<1>3. StateIsTyped' BY <1>1 DEF DecisionInv, StateIsTyped, RowIsTyped
<1>4. AskingIsTyped' BY <1>1 DEF DecisionInv, AskingIsTyped
<1>5. TokenIsSound' BY <1>1, <1>2 DEF DecisionInv, TokenIsSound
<1>6. NothingCrossed' BY <1>1 DEF DecisionInv, NothingCrossed
<1>7. played'.by # "legacy" BY DEF GetTranscodeStream
<1>8. LegacyHonoursTheCap' BY <1>7 DEF LegacyHonoursTheCap
<1>9. device \in Devices /\ device.declares # <<>> /\ IsToken(token, Negotiated(client))
  BY <1>1 DEF DecisionInv, StateIsTyped, TokenIsSound
<1>10. ~crossed => OfItsFile(token) BY <1>1 DEF DecisionInv, NothingCrossed
<1>11. \/ played'.by = "refused"
       \/ /\ played'.token = token /\ StampOf[played'.version] = token.stamp
          /\ played'.how = "direct"
       \/ /\ played'.token = token /\ StampOf[played'.version] = token.stamp
          /\ token.how # "direct" /\ played'.offset = offset /\ played'.args = Command(token.ts, offset)
  <2>1. CASE played' = [by |-> "refused"] BY <2>1
  <2>2. CASE /\ StampOf[song.version] = token.stamp /\ token.how = "direct"
             /\ played' = [by |-> "token", token |-> token, how |-> "direct", version |-> song.version]
    BY <2>2
  <2>3. CASE /\ StampOf[song.version] = token.stamp /\ token.how # "direct"
             /\ played' = [by |-> "token", token |-> token, how |-> "transcode", version |-> song.version, offset |-> offset,
                           args |-> Command(token.ts, offset)]
    BY <2>3
  <2>4. QED BY <2>1, <2>2, <2>3 DEF GetTranscodeStream
<1>12. token.how # "direct" => ToldAsAgreed(token.ts, offset, Command(token.ts, offset))
  <2>1. SUFFICES ASSUME token.how # "direct" PROVE ToldAsAgreed(token.ts, offset, Command(token.ts, offset)) OBVIOUS
  <2>2. PICK ts : ts = token.ts OBVIOUS
  <2>3. token.src \in AudioFacts /\ ts = MakeDecision(token.src, Negotiated(client)) /\ ts # Rejected /\ ts.how # "direct"
    BY <1>9, <2>1, <2>2 DEF IsToken
  <2>4. client \in Clients /\ player \in Players /\ template \in Seq(TemplateWords) BY <1>9, DeviceIsTyped
  <2>5. IsClient(Negotiated(client)) BY <2>4, NegotiatedClient
  <2>6. \/ ts = [how |-> "direct"]
        \/ Within(token.src, Negotiated(client), ts)
    BY <2>3, <2>5, DecisionIsWithin
  <2>7. ts # [how |-> "direct"] BY <2>3
  <2>8. ts \in Streams /\ LookupTranscodeCommand(ts.format) BY <2>6, <2>7 DEF Within
  <2>9. offset \in Nat BY DecisionAssumption DEF DecisionAssumption
  <2>10. ToldAsAgreed(ts, offset, Command(ts, offset)) BY <2>4, <2>8, <2>9, CommandTells
  <2>11. QED BY <2>2, <2>10
<1>13. \A ts, o, args : ToldAsAgreed(ts, o, args) => ToldAsAgreed(ts, o, args)'
  BY <1>2 DEF ToldAsAgreed
<1>14. PlayedIsSound' BY <1>1, <1>2, <1>9, <1>10, <1>11, <1>12, <1>13 DEF PlayedIsSound
<1>15. QED BY <1>3, <1>4, <1>5, <1>6, <1>8, <1>14 DEF DecisionInv

LEMMA LegacyStreamKeeps ==
    ASSUME DecisionInv, NEW f, f \in STRING \/ f = "raw", NEW rate \in Nat, LegacyStream(f, rate) PROVE DecisionInv'
<1>1. /\ disk' = disk /\ song' = song /\ device' = device /\ asking' = asking /\ token' = token /\ crossed' = crossed
  BY DEF LegacyStream
<1>2. Negotiated(client)' = Negotiated(client) /\ player' = player BY <1>1, SameDevice
<1>3. StateIsTyped' BY <1>1 DEF DecisionInv, StateIsTyped, RowIsTyped
<1>4. AskingIsTyped' BY <1>1 DEF DecisionInv, AskingIsTyped
<1>5. TokenIsSound' BY <1>1, <1>2 DEF DecisionInv, TokenIsSound
<1>6. NothingCrossed' BY <1>1 DEF DecisionInv, NothingCrossed
<1>7. PICK d : d = ResolveRequest(f, rate) OBVIOUS
<1>8. PICK facts : facts = buildSourceStream(song.version, song.probe) OBVIOUS
<1>9. /\ played'.by = "legacy" /\ played'.asked = f /\ played'.version = song.version
      /\ played'.bitrate = IF d.how = "transcode" THEN d.bitrate ELSE facts.bitrate
  BY <1>7, <1>8 DEF LegacyStream
<1>10. PlayedIsSound' BY <1>9 DEF PlayedIsSound
<1>11. LegacyHonoursTheCap'
  <2> DEFINE formats == IF player.forced # "" THEN {player.forced} ELSE {f, Downsampling}
  <2>1. SUFFICES ASSUME player.cap > 0, f # "raw", played'.bitrate > player.cap, ~(TagsOf[song.version].bitrate <= player.cap)
                 PROVE  \A g \in formats : ~LookupTranscodeCommand(g) \/ isLosslessFormat(g)
    BY <1>2, <1>9 DEF LegacyHonoursTheCap
  <2>2. RowIsTyped /\ device \in Devices BY DEF DecisionInv, StateIsTyped
  <2>3. player \in Players BY <2>2, DeviceIsTyped
  <2>4. f \in STRING BY <2>1
  <2>5. player.cap \in Nat /\ TagsOf[song.version].bitrate \in Nat /\ facts.bitrate \in Nat
    BY <1>8, <2>2, <2>3, RowFacts DEF Players, AudioFacts
  <2>6. player.cap < TagsOf[song.version].bitrate BY <2>1, <2>5
  <2>7. ~(d.how = "transcode" /\ d.bitrate \in Nat /\ d.bitrate <= player.cap) /\ ~(d.how # "transcode" /\ facts.bitrate <= player.cap)
    <3>1. CASE d.how = "transcode"
      <4>1. played'.bitrate = d.bitrate BY <1>9, <3>1
      <4>2. d.bitrate > player.cap BY <2>1, <4>1
      <4>3. ASSUME d.bitrate \in Nat PROVE ~(d.bitrate <= player.cap) BY <2>5, <4>2, <4>3
      <4>4. QED BY <3>1, <4>3
    <3>2. CASE d.how # "transcode"
      <4>1. played'.bitrate = facts.bitrate BY <1>9, <3>2
      <4>2. facts.bitrate > player.cap BY <2>1, <4>1
      <4>3. ~(facts.bitrate <= player.cap) BY <2>5, <4>2
      <4>4. QED BY <3>2, <4>3
    <3>3. QED BY <3>1, <3>2
  <2>8. IF Unset(player.forced) THEN ~CanMake(f) /\ ~CanMake(Downsampling) ELSE ~CanMake(player.forced)
    BY <1>7, <1>8, <2>1, <2>2, <2>3, <2>4, <2>6, <2>7, RequestUnderCap
  <2>9. QED BY <2>8 DEF Unset, CanMake
<1>12. QED BY <1>3, <1>4, <1>5, <1>6, <1>10, <1>11 DEF DecisionInv

LEMMA DownloadSongKeeps ==
    ASSUME DecisionInv, NEW f \in STRING, NEW rate \in Nat, DownloadSong(f, rate) PROVE DecisionInv'
<1>1. player.forced \in STRING
  <2>1. player \in Players BY DeviceIsTyped DEF DecisionInv, StateIsTyped
  <2>2. QED BY <2>1 DEF Players
<1>2. lookupDefaultBitrate(player.forced) \in Nat BY DEF lookupDefaultBitrate
<1>3. \/ LegacyStream(player.forced, lookupDefaultBitrate(player.forced))
      \/ LegacyStream("raw", rate) \/ LegacyStream(f, rate)
  BY DEF DownloadSong
<1>4. QED BY <1>1, <1>2, <1>3, LegacyStreamKeeps

LEMMA DecisionSteps == ASSUME DecisionInv, [DecisionNext]_decisionVars PROVE DecisionInv'
<1>1. CASE ReplaceFile BY <1>1, ReplaceFileKeeps
<1>2. CASE ImportSong BY <1>2, ImportSongKeeps
<1>3. CASE GetTranscodeDecision BY <1>3, GetTranscodeDecisionKeeps
<1>4. CASE ProbeAudioStream BY <1>4, ProbeAudioStreamKeeps
<1>5. CASE ensureProbed BY <1>5, ensureProbedKeeps
<1>6. CASE \E offset \in Offsets : GetTranscodeStream(offset) BY <1>6, GetTranscodeStreamKeeps
<1>7. CASE \E f \in LegacyFormats, rate \in LegacyRates : LegacyStream(f, rate) \/ DownloadSong(f, rate)
  <2>1. PICK f \in LegacyFormats, rate \in LegacyRates : LegacyStream(f, rate) \/ DownloadSong(f, rate) BY <1>7
  <2>2. f \in STRING /\ rate \in Nat BY DecisionAssumption DEF DecisionAssumption
  <2>3. QED BY <2>1, <2>2, LegacyStreamKeeps, DownloadSongKeeps
<1>8. CASE UNCHANGED decisionVars
  <2>1. /\ disk' = disk /\ song' = song /\ device' = device /\ asking' = asking /\ token' = token /\ played' = played
        /\ crossed' = crossed
    BY <1>8 DEF decisionVars
  <2>2. Negotiated(client)' = Negotiated(client) BY <2>1, SameDevice
  <2>3. StateIsTyped' BY <2>1 DEF DecisionInv, StateIsTyped, RowIsTyped
  <2>4. AskingIsTyped' BY <2>1 DEF DecisionInv, AskingIsTyped
  <2>5. TokenIsSound' BY <2>1, <2>2 DEF DecisionInv, TokenIsSound
  <2>6. NothingCrossed' BY <2>1 DEF DecisionInv, NothingCrossed
  <2>7. QED BY <2>1, <2>3, <2>4, <2>5, <2>6, PlayedStays DEF DecisionInv
<1>9. QED BY <1>1, <1>2, <1>3, <1>4, <1>5, <1>6, <1>7, <1>8 DEF DecisionNext

LEMMA DecisionInvMeans == DecisionInv => PlayedAsAgreed
<1> SUFFICES ASSUME DecisionInv PROVE PlayedAsAgreed OBVIOUS
<1>1. AgreedFitsTheClient
  <2>1. CASE token = NoToken BY <2>1 DEF AgreedFitsTheClient
  <2>2. CASE token # NoToken
    <3>1. device \in Devices /\ device.declares # <<>> /\ IsToken(token, Negotiated(client))
      BY <2>2 DEF DecisionInv, StateIsTyped, TokenIsSound
    <3>2. QED BY <2>2, <3>1, AgreedFits DEF IsToken
  <2>3. QED BY <2>1, <2>2
<1>2. TokensAreOfThisFile
  <2>1. SUFFICES ASSUME played.by = "token", ~crossed
                 PROVE  \/ played.token.src \in {TagsOf[played.version], ProbeOf[played.version]}
                        \/ \E v \in Versions \ {played.version} : StampOf[v] = StampOf[played.version]
    BY DEF TokensAreOfThisFile
  <2>2. /\ played.token.about \in Versions /\ StampOf[played.version] = StampOf[played.token.about]
        /\ played.token.src \in {TagsOf[played.token.about], ProbeOf[played.token.about]}
    BY <2>1 DEF DecisionInv, PlayedIsSound, IsToken, OfItsFile
  <2>3. QED BY <2>2
<1>3. ProducedIsAgreed BY DEF DecisionInv, PlayedIsSound, ProducedIsAgreed, ToldAsAgreed
<1>4. LegacyHonoursTheCap BY DEF DecisionInv
<1>5. QED BY <1>1, <1>2, <1>3, <1>4 DEF PlayedAsAgreed

\* What is played is within what client and player allow, of the file it was
\* decided on, and made by the very parameters that were agreed: of every
\* client, player, file and template, whenever the file is replaced, probed
\* and imported.
THEOREM PlayedIsAgreed == DecisionSpec => []PlayedAsAgreed
<1>1. DecisionInv /\ [DecisionNext]_decisionVars => DecisionInv' BY DecisionSteps
<1>2. QED BY <1>1, DecisionInitInv, DecisionInvMeans, PTL DEF DecisionSpec
===============================================================================
