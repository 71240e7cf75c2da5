--------------------------- MODULE NttAccelProofs ---------------------------
(***************************************************************************)
(* Lemmas about the NTT engine for every size N that is a power of two and *)
(* every meaning of its butterflies: its schedule stays within the banks,  *)
(* what one edge may write to a coefficient, and what its scrub clears.    *)
(* The instances of the engine build their theorems on them.               *)
(***************************************************************************)
EXTENDS NttAccel, TLAPS

(* Multiplication by a positive number preserves the order, both ways.     *)
LEMMA ScaleOrder ==
    ASSUME NEW c \in Nat, c > 0, NEW a \in Int, NEW b \in Int
    PROVE  /\ a <= b => c * a <= c * b
           /\ c * a < c * b => a < b
           /\ c * a = c * b => a = b
<1>1. a <= b => c * a <= c * b
  BY SMT
<1>2. b <= a => c * b <= c * a
  BY SMT
<1>3. a < b => c * a < c * b
  BY SMT
<1>4. b < a => c * b < c * a
  BY SMT
<1>5. c * a \in Int /\ c * b \in Int
  BY SMT
<1>6. QED
  BY SMT, <1>1, <1>2, <1>3, <1>4, <1>5

(* What the division by two of an even number gives.                       *)
LEMMA HalfPower ==
    ASSUME NEW n \in Nat, n >= 2, PowerOfTwo(n)
    PROVE  /\ n \div 2 \in Nat \ {0}
           /\ n = 2 * (n \div 2)
           /\ PowerOfTwo(n \div 2)
<1>1. n % 2 = 0 /\ n \div 2 \in Nat \ {0} /\ n = 2 * (n \div 2)
  <2>1. n % n = 0
    BY SMT
  <2>2. n % 2 = 0
    BY SMT, <2>1 DEF PowerOfTwo
  <2>3. QED
    BY SMT, <2>2
<1>2. ASSUME NEW d \in 2 .. (n \div 2), (n \div 2) % d = 0
      PROVE  d % 2 = 0
  <2>1. d \in Nat /\ d >= 2 /\ d \in 2 .. n
    BY SMT, <1>1
  <2>2. PICK m \in Nat : n \div 2 = d * m
    BY SMT, <1>1, <1>2, <2>1
  <2>3. n = d * (2 * m)
    BY SMT, <1>1, <2>1, <2>2
  <2>4. n % d = 0
    BY SMT, <2>1, <2>3
  <2>5. QED
    BY <2>1, <2>4 DEF PowerOfTwo
<1>3. QED
  BY <1>1, <1>2 DEF PowerOfTwo

(* What the size assumption gives: two halvings without remainder.         *)
LEMMA SizeFacts ==
    ASSUME SizeOK
    PROVE  /\ N \in Nat /\ N >= 4
           /\ N \div 2 \in Nat /\ N \div 2 >= 2 /\ N = 2 * (N \div 2)
           /\ PowerOfTwo(N \div 2)
           /\ N \div 2 = 2 * ((N \div 2) \div 2)
           /\ (N \div 2) \div 2 \in Nat \ {0}
           /\ PowerOfTwo((N \div 2) \div 2)
<1>1. N \in Nat /\ N >= 4 /\ PowerOfTwo(N)
  BY DEF SizeOK
<1>2. N \div 2 \in Nat \ {0} /\ N = 2 * (N \div 2) /\ PowerOfTwo(N \div 2)
  BY SMT, <1>1, HalfPower
<1>3. N \div 2 >= 2
  BY SMT, <1>1, <1>2
<1>4. QED
  BY SMT, <1>1, <1>2, <1>3, HalfPower
-----------------------------------------------------------------------------
(* The schedule.  A layer of span len has q groups of 2 * len addresses,   *)
(* and the engine is in group g of it.  The twiddle index counts the       *)
(* groups of all layers, upwards in a forward transform and downwards in   *)
(* an inverse one.  What is left to be halved is a power of two: the span  *)
(* of a forward transform, the number of groups of an inverse one.         *)
SmallestSpan(cmd) == IF cmd = "MLKEM_NTT" THEN 2 ELSE 1

InLayer(q, g) ==
    /\ len \in Nat \ {0}
    /\ 2 * len * q = N
    /\ g < q
    /\ group = 2 * len * g
    /\ j \in Nat /\ group <= j /\ j < group + len
    /\ k = IF ntt_cmd \in Forward THEN q + g ELSE 2 * q - 1 - g
    /\ zeta = ZetaOf(ntt_cmd, k)
    /\ IF ntt_cmd \in Forward
       THEN PowerOfTwo(len) /\ len >= SmallestSpan(ntt_cmd)
       ELSE PowerOfTwo(q)

Scheduled == \E q, g \in Nat : InLayer(q, g)

(* The registers of the schedule hold what fits them in every state.       *)
Ranges ==
    /\ ntt_cmd \in NttCommand
    /\ len \in 0 .. N \div 2
    /\ group \in Address /\ j \in Address
    /\ k \in 0 .. (N - 1) /\ zeta \in -(N - 1) .. (N - 1)
    /\ scale_index \in Address /\ zeroize_index \in Address

(* The flags the engine shows agree with its state.                        *)
Control ==
    /\ ntt_state \in {"IDLE", "BUTTERFLY", "SCALE", "ZEROIZE"}
    /\ ntt_busy = (ntt_state # "IDLE")
    /\ ntt_done \in BOOLEAN
    /\ ntt_done => ntt_state = "IDLE"
    /\ ntt_zeroize_seen \in BOOLEAN

EngineInv ==
    /\ Control
    /\ Ranges
    /\ ntt_state = "BUTTERFLY" => Scheduled

(* Bounds that follow from the place in the layer.                         *)
LEMMA LayerBounds ==
    ASSUME SizeOK, NEW l \in Nat \ {0}, NEW q \in Nat, NEW g \in Nat,
           2 * l * q = N, g < q
    PROVE  /\ 2 * l * g \in Nat /\ 2 * l * (g + 1) = 2 * l * g + 2 * l
           /\ 2 * l * g + 2 * l <= N
           /\ 2 * l * g + 2 * l < N => g + 1 < q
           /\ 2 * l * g + 2 * l >= N => g + 1 = q
           /\ l <= N \div 2 /\ 2 * q <= N
           /\ l = N \div 2 <=> q = 1
<1>1. N \in Nat /\ N >= 4 /\ N = 2 * (N \div 2) /\ N \div 2 \in Nat
  BY SizeFacts
<1> DEFINE w == 2 * l
<1>2. w \in Nat /\ w >= 2 /\ w * q = N /\ w * g \in Nat
  BY SMT
<1>3. w * (g + 1) = w * g + w
  BY SMT, <1>2
<1> HIDE DEF w
<1>4. w * g + w <= N /\ (w * g + w < N => g + 1 < q)
  BY SMT, <1>2, <1>3, ScaleOrder, w > 0, g + 1 \in Int, g + 1 <= q
<1>5. w * g + w >= N => g + 1 = q
  <2>1. CASE w * g + w >= N
    <3>1. w * (g + 1) = w * q
      BY SMT, <2>1, <1>1, <1>2, <1>3, <1>4
    <3>2. QED
      BY SMT, <3>1, <1>2, ScaleOrder, w > 0, g + 1 \in Int
  <2>2. QED
    BY SMT, <2>1, <1>2
<1>6. l * q = N \div 2
  BY SMT, <1>1
<1>7. l <= N \div 2 /\ (q = 1 => l = N \div 2)
  BY SMT, <1>6, ScaleOrder
<1>8. l = N \div 2 => q = 1
  BY SMT, <1>6, <1>1, ScaleOrder
<1>9. 2 * q <= N
  BY SMT, <1>1
<1>10. QED
  BY SMT, <1>2, <1>3, <1>4, <1>5, <1>7, <1>8, <1>9 DEF w

(* The signed index into the twiddle ROM stays in its range.               *)
LEMMA TwiddleRange ==
    ASSUME NEW cmd, NEW i \in 0 .. (N - 1), N \in Nat
    PROVE  ZetaOf(cmd, i) \in -(N - 1) .. (N - 1)
  BY SMT DEF ZetaOf

(* The same with the registers as values, to be used before and after a    *)
(* step.                                                                   *)
LEMMA PlaceRanges ==
    ASSUME SizeOK, NEW q \in Nat, NEW g \in Nat, NEW fwd \in BOOLEAN,
           NEW l \in Nat \ {0}, NEW gr, NEW jj \in Nat, NEW kk,
           2 * l * q = N, g < q, gr = 2 * l * g, gr <= jj, jj < gr + l,
           kk = IF fwd THEN q + g ELSE 2 * q - 1 - g
    PROVE  /\ l \in 0 .. N \div 2 /\ gr \in Address /\ jj \in Address
           /\ kk \in 0 .. (N - 1) /\ jj + l \in Address
<1>1. /\ 2 * l * g \in Nat /\ 2 * l * g + 2 * l <= N
      /\ l <= N \div 2 /\ 2 * q <= N
  BY LayerBounds
<1>2. N \in Nat /\ N >= 4 /\ N \div 2 \in Nat
  BY SizeFacts
<1>3. l \in 0 .. N \div 2 /\ gr \in Address /\ jj \in Address
      /\ jj + l \in Address
  BY SMT, <1>1, <1>2 DEF Address
<1>4. kk \in 0 .. (N - 1)
  BY SMT, <1>1, <1>2
<1>5. QED
  BY <1>3, <1>4

(* In a layer both operands of the butterfly are addresses.                *)
LEMMA InLayerRanges ==
    ASSUME SizeOK, NEW q \in Nat, NEW g \in Nat
    PROVE  /\ InLayer(q, g) =>
                /\ len \in 0 .. N \div 2 /\ group \in Address
                /\ j \in Address /\ k \in 0 .. (N - 1)
                /\ zeta \in -(N - 1) .. (N - 1) /\ peer \in Address
           /\ InLayer(q, g)' =>
                /\ len' \in 0 .. N \div 2 /\ group' \in Address
                /\ j' \in Address /\ k' \in 0 .. (N - 1)
                /\ zeta' \in -(N - 1) .. (N - 1)
<1>1. N \in Nat
  BY SizeFacts
<1>2. ASSUME InLayer(q, g)
      PROVE  /\ len \in 0 .. N \div 2 /\ group \in Address
             /\ j \in Address /\ k \in 0 .. (N - 1)
             /\ zeta \in -(N - 1) .. (N - 1) /\ peer \in Address
  <2>1. /\ len \in 0 .. N \div 2 /\ group \in Address /\ j \in Address
        /\ k \in 0 .. (N - 1) /\ peer \in Address
    BY <1>2, PlaceRanges, (ntt_cmd \in Forward) \in BOOLEAN
       DEF InLayer, peer
  <2>2. QED
    BY <1>1, <1>2, <2>1, TwiddleRange DEF InLayer
<1>3. ASSUME InLayer(q, g)'
      PROVE  /\ len' \in 0 .. N \div 2 /\ group' \in Address
             /\ j' \in Address /\ k' \in 0 .. (N - 1)
             /\ zeta' \in -(N - 1) .. (N - 1)
  <2>1. /\ len' \in 0 .. N \div 2 /\ group' \in Address /\ j' \in Address
        /\ k' \in 0 .. (N - 1)
    BY <1>3, PlaceRanges, (ntt_cmd' \in Forward) \in BOOLEAN DEF InLayer
  <2>2. QED
    BY <1>1, <1>3, <2>1, TwiddleRange DEF InLayer
<1>4. QED
  BY <1>2, <1>3

(* A factor of a power of two is one.                                      *)
LEMMA FactorPower ==
    ASSUME NEW n \in Nat, PowerOfTwo(n),
           NEW a \in Nat \ {0}, NEW b \in Nat \ {0}, a * b = n
    PROVE  PowerOfTwo(a)
<1> SUFFICES ASSUME NEW d \in 2 .. a, a % d = 0
             PROVE  d % 2 = 0
  BY DEF PowerOfTwo
<1>1. d \in Nat /\ d >= 2 /\ d <= a
  BY SMT
<1>2. PICK m \in Nat : a = d * m
  BY SMT, <1>1
<1>3. PICK c \in Nat : n = d * c
  <2>1. n = d * (m * b) /\ m * b \in Nat
    BY SMT, <1>1, <1>2
  <2>2. QED
    BY <2>1
<1>4. n % d = 0
  BY SMT, <1>1, <1>3
<1>5. a <= n
  BY SMT
<1>6. d \in 2 .. n
  BY SMT, <1>1, <1>5
<1>7. QED
  BY <1>4, <1>6 DEF PowerOfTwo

(* The operands of a butterfly differ in the bit of their span, so they    *)
(* sit in different banks.                                                 *)
LEMMA PairSplit ==
    ASSUME SizeOK, BanksSplit, NEW q \in Nat, NEW g \in Nat, InLayer(q, g)
    PROVE  Bank(peer) = 1 - Bank(j) /\ Bank(j) \in {0, 1}
<1>1. /\ len \in Nat \ {0} /\ 2 * len * q = N /\ g < q /\ group = 2 * len * g
      /\ j \in Nat /\ group <= j /\ j < group + len
  BY DEF InLayer
<1>2. len \in 1 .. (N \div 2) /\ j \in Address
  BY SMT, <1>1, InLayerRanges
<1>3. PowerOfTwo(len)
  <2>1. 2 * q \in Nat \ {0} /\ len * (2 * q) = N
    BY SMT, <1>1
  <2>2. N \in Nat /\ PowerOfTwo(N)
    BY DEF SizeOK
  <2>3. QED
    BY <1>1, <2>1, <2>2, FactorPower
<1>4. (j \div len) % 2 = 0
  <2>1. PICK o \in Nat : j = len * (2 * g) + o /\ o < len
    <3>1. j - 2 * len * g \in Nat /\ j - 2 * len * g < len
      BY SMT, <1>1
    <3>2. j = len * (2 * g) + (j - 2 * len * g)
      BY SMT, <1>1
    <3>3. QED
      BY <3>1, <3>2
  <2>2. j \div len = 2 * g
    BY SMT, <1>1, <2>1
  <2>3. QED
    BY SMT, <2>2
<1>5. QED
  BY <1>2, <1>3, <1>4 DEF BanksSplit, peer

(* A start enters the first layer of the command.                          *)
LEMMA StartEntersLayer ==
    ASSUME SizeOK, NEW z, NEW s, NEW c \in NttCommand, NEW h,
           NttStart(z, s, c, h)
    PROVE  InLayer(N \div (2 * FirstLen(c)), 0)' /\ ntt_cmd' = c
           /\ N \div (2 * FirstLen(c)) \in Nat
<1> DEFINE q0 == N \div (2 * FirstLen(c))
<1>1. /\ ntt_cmd' = c /\ group' = 0 /\ j' = 0 /\ len' = FirstLen(c)
      /\ k' = FirstK(c) /\ zeta' = ZetaOf(c, FirstK(c))
  BY DEF NttStart
<1>2. /\ N \in Nat /\ N >= 4 /\ N = 2 * (N \div 2) /\ N \div 2 \in Nat
      /\ N \div 2 >= 2 /\ PowerOfTwo(N \div 2)
      /\ N \div 2 = 2 * ((N \div 2) \div 2)
      /\ (N \div 2) \div 2 \in Nat \ {0}
      /\ PowerOfTwo((N \div 2) \div 2)
  BY SizeFacts
<1>3. CASE c \in Forward
  <2>1. FirstLen(c) = N \div 2 /\ FirstK(c) = 1 /\ SmallestSpan(c) <= 2
    <3>1. c # "MLDSA_INTT" /\ c # "MLKEM_INTT"
      BY <1>3 DEF Forward
    <3>2. FirstLen(c) = N \div 2
      BY Zenon, <1>3, <3>1 DEF FirstLen
    <3>3. FirstK(c) = 1
      BY Zenon, <1>3, <3>1 DEF FirstK
    <3>4. QED
      BY SMT, <3>2, <3>3 DEF SmallestSpan
  <2>2. q0 = 1 /\ 2 * len' * q0 = N
    BY SMT, <1>1, <1>2, <2>1
  <2>3. SmallestSpan(c) \in Nat
    BY SMT DEF SmallestSpan
  <2>4. QED
    BY SMT, <1>1, <1>2, <1>3, <2>1, <2>2, <2>3 DEF InLayer
<1>4. CASE c = "MLDSA_INTT"
  <2>1. FirstLen(c) = 1 /\ FirstK(c) = N - 1 /\ c \notin Forward
    BY Zenon, <1>4 DEF FirstLen, FirstK, Forward
  <2>2. q0 = N \div 2 /\ 2 * len' * q0 = N /\ 2 * q0 = N
    BY SMT, <1>1, <1>2, <2>1
  <2>3. QED
    BY SMT, <1>1, <1>2, <2>1, <2>2 DEF InLayer
<1>5. CASE c = "MLKEM_INTT"
  <2>1. FirstLen(c) = 2 /\ FirstK(c) = (N \div 2) - 1 /\ c \notin Forward
    BY Zenon, <1>5 DEF FirstLen, FirstK, Forward
  <2>2. q0 = (N \div 2) \div 2 /\ 2 * len' * q0 = N /\ 2 * q0 = N \div 2
    BY SMT, <1>1, <1>2, <2>1
  <2>3. QED
    BY SMT, <1>1, <1>2, <2>1, <2>2 DEF InLayer
<1>6. QED
  BY <1>3, <1>4, <1>5 DEF NttCommand, Forward

(* The last layer by direction: the smallest span of a forward transform,  *)
(* half of the array of an inverse one.                                    *)
LEMMA LastLayerIs ==
    ASSUME ntt_cmd \in NttCommand
    PROVE  LastLayer <=> len = IF ntt_cmd \in Forward
                               THEN SmallestSpan(ntt_cmd) ELSE N \div 2
  BY DEF LastLayer, NttCommand, Forward, SmallestSpan

(* After a butterfly the engine is at the next pair of the group, in the   *)
(* next group, in the next layer, or the last layer is done.               *)
NextPair(q, g) == InLayer(q, g)' /\ j' = j + 1 /\ group' = group /\ len' = len
NextGroup(q, g) ==
    /\ InLayer(q, g + 1)'
    /\ j + 1 = group + len /\ j' = group' /\ len' = len
NextLayer(q, g) ==
    /\ g + 1 = q /\ j + 1 = group + len
    /\ group' = 0 /\ j' = 0
    /\ IF ntt_cmd \in Forward
       THEN InLayer(2 * q, 0)'
       ELSE q = 2 * (q \div 2) /\ q \div 2 \in Nat /\ InLayer(q \div 2, 0)'
TransformEnds(q, g) ==
    /\ g + 1 = q /\ j + 1 = group + len
    /\ IF ntt_cmd \in Forward
       THEN /\ len = SmallestSpan(ntt_cmd)
            /\ ntt_state' = "IDLE"
            /\ ntt_busy' = FALSE /\ ntt_done' = TRUE
            /\ scale_index' = scale_index
       ELSE /\ q = 1
            /\ ntt_state' = "SCALE" /\ scale_index' = 0
            /\ ntt_busy' = ntt_busy /\ ntt_done' = ntt_done
    /\ group' = 0 /\ j' = 0 /\ len' = len /\ k' = k /\ zeta' = zeta

ButterflyStays ==
    /\ ntt_state' = "BUTTERFLY" /\ ntt_busy' = ntt_busy
    /\ ntt_done' = ntt_done /\ scale_index' = scale_index

(* One butterfly moves to the next pair, group or layer, or ends the       *)
(* transform.                                                              *)
LEMMA ButterflyMoves ==
    ASSUME SizeOK, ntt_cmd \in NttCommand, NEW q \in Nat, NEW g \in Nat,
           InLayer(q, g), NEW z, NEW h, NttButterfly(z, h)
    PROVE  /\ ntt_cmd' = ntt_cmd /\ zeroize_index' = zeroize_index
           /\ \/ /\ ButterflyStays
                 /\ NextPair(q, g) \/ NextGroup(q, g) \/ NextLayer(q, g)
              \/ TransformEnds(q, g)
<1>1. /\ ntt_state = "BUTTERFLY" /\ Advance
      /\ ntt_cmd' = ntt_cmd /\ zeroize_index' = zeroize_index
  BY DEF NttButterfly
<1>2. /\ len \in Nat \ {0} /\ 2 * len * q = N /\ g < q /\ group = 2 * len * g
      /\ j \in Nat /\ group <= j /\ j < group + len
      /\ k = IF ntt_cmd \in Forward THEN q + g ELSE 2 * q - 1 - g
      /\ zeta = ZetaOf(ntt_cmd, k)
      /\ IF ntt_cmd \in Forward
         THEN PowerOfTwo(len) /\ len >= SmallestSpan(ntt_cmd)
         ELSE PowerOfTwo(q)
  BY DEF InLayer
<1>3. /\ 2 * len * g \in Nat /\ 2 * len * (g + 1) = 2 * len * g + 2 * len
      /\ 2 * len * g + 2 * len < N => g + 1 < q
      /\ 2 * len * g + 2 * len >= N => g + 1 = q
      /\ len = N \div 2 <=> q = 1
  BY <1>2, LayerBounds
<1>4. N \in Nat /\ N >= 4
  BY SizeFacts
<1>5. CASE j + 1 < group + len
  <2>1. ButterflyStays /\ j' = j + 1 /\ group' = group /\ len' = len
        /\ k' = k /\ zeta' = zeta
    BY <1>1, <1>5 DEF Advance, ButterflyStays
  <2>2. InLayer(q, g)'
    BY SMT, <1>1, <1>2, <1>3, <1>5, <2>1 DEF InLayer
  <2>3. QED
    BY <1>1, <2>1, <2>2 DEF NextPair
<1>6. CASE ~(j + 1 < group + len) /\ next_group_start < N
  <2>1. /\ ButterflyStays /\ group' = group + 2 * len /\ j' = group'
        /\ len' = len /\ k' = NextK /\ zeta' = ZetaOf(ntt_cmd, NextK)
    BY <1>1, <1>6 DEF Advance, ButterflyStays, next_group_start
  <2>2. j + 1 = group + len /\ g + 1 < q /\ group' = 2 * len * (g + 1)
    BY SMT, <1>2, <1>3, <1>4, <1>6, <2>1 DEF next_group_start
  <2>3. k' = IF ntt_cmd \in Forward THEN q + (g + 1) ELSE 2 * q - 1 - (g + 1)
    BY SMT, <1>2, <2>1 DEF NextK
  <2>4. group' \in Nat
    BY SMT, <1>2, <1>3, <2>1
  <2>5. InLayer(q, g + 1)'
    <3>1. j' \in Nat /\ group' <= j' /\ j' < group' + len'
      BY SMT, <1>2, <2>1, <2>4
    <3>2. zeta' = ZetaOf(ntt_cmd', k')
      BY <1>1, <2>1
    <3>3. QED
      BY <1>1, <1>2, <2>1, <2>2, <2>3, <3>1, <3>2 DEF InLayer
  <2>6. QED
    BY <1>1, <2>1, <2>2, <2>5 DEF NextGroup
<1>7. CASE ~(j + 1 < group + len) /\ ~(next_group_start < N)
  <2>1. j + 1 = group + len /\ g + 1 = q
    BY SMT, <1>2, <1>3, <1>4, <1>7 DEF next_group_start
  <2>2. group' = 0 /\ j' = 0
    BY <1>1, <1>7 DEF Advance
  <2>3. CASE LastLayer
    <3>1. TransformEnds(q, g)
      <4>1. CASE ntt_cmd \in Forward
        BY <1>1, <1>7, <2>1, <2>2, <2>3, <4>1, LastLayerIs
           DEF Advance, TransformEnds
      <4>2. CASE ntt_cmd \notin Forward
        BY <1>1, <1>3, <1>7, <2>1, <2>2, <2>3, <4>2, LastLayerIs
           DEF Advance, TransformEnds
      <4>3. QED
        BY <4>1, <4>2
    <3>2. QED
      BY <1>1, <3>1
  <2>4. CASE ~LastLayer
    <3>1. /\ ButterflyStays /\ k' = NextK /\ zeta' = ZetaOf(ntt_cmd, NextK)
          /\ len' = IF ntt_cmd \in Forward THEN len \div 2 ELSE 2 * len
      BY <1>1, <1>7, <2>4 DEF Advance, ButterflyStays
    <3>2. CASE ntt_cmd \in Forward
      <4>1. len # SmallestSpan(ntt_cmd) /\ SmallestSpan(ntt_cmd) \in {1, 2}
        BY <2>4, <3>2, LastLayerIs DEF SmallestSpan
      <4>2. len >= 2 /\ PowerOfTwo(len)
        BY SMT, <1>2, <3>2, <4>1
      <4>3. /\ len \div 2 \in Nat \ {0} /\ len = 2 * (len \div 2)
            /\ PowerOfTwo(len \div 2)
        BY <1>2, <4>2, HalfPower
      <4>4. len' = len \div 2 /\ len' >= SmallestSpan(ntt_cmd)
        BY SMT, <1>2, <3>1, <3>2, <4>1, <4>3
      <4>5. 2 * len' * (2 * q) = N /\ 0 < 2 * q /\ 2 * len' * 0 = 0
        BY SMT, <1>2, <4>3, <4>4
      <4>6. k' = 2 * q + 0
        BY SMT, <1>2, <2>1, <3>1, <3>2 DEF NextK
      <4>7. InLayer(2 * q, 0)'
        <5>1. j' \in Nat /\ group' <= j' /\ j' < group' + len'
          BY SMT, <2>2, <4>3, <4>4
        <5>2. zeta' = ZetaOf(ntt_cmd', k')
          BY <1>1, <3>1
        <5>3. QED
          BY <1>1, <2>2, <3>2, <4>3, <4>4, <4>5, <4>6, <5>1, <5>2 DEF InLayer
      <4>8. QED
        BY <1>1, <2>1, <2>2, <3>1, <3>2, <4>7 DEF NextLayer
    <3>3. CASE ntt_cmd \notin Forward
      <4>1. q # 1 /\ len' = 2 * len
        BY <1>3, <2>4, <3>1, <3>3, LastLayerIs
      <4>2. /\ q \div 2 \in Nat \ {0} /\ q = 2 * (q \div 2)
            /\ PowerOfTwo(q \div 2)
        <5>1. q >= 2 /\ PowerOfTwo(q)
          BY SMT, <1>2, <3>3, <4>1
        <5>2. QED
          BY <5>1, HalfPower
      <4>3. /\ 2 * len' * (q \div 2) = N /\ 0 < q \div 2
            /\ 2 * len' * 0 = 0 /\ len' \in Nat \ {0}
        BY SMT, <1>2, <4>1, <4>2
      <4>4. k' = 2 * (q \div 2) - 1 - 0
        BY SMT, <1>2, <2>1, <3>1, <3>3, <4>2 DEF NextK
      <4>5. InLayer(q \div 2, 0)'
        <5>1. j' \in Nat /\ group' <= j' /\ j' < group' + len'
          BY SMT, <1>2, <2>2, <4>1
        <5>2. zeta' = ZetaOf(ntt_cmd', k')
          BY <1>1, <3>1
        <5>3. QED
          BY <1>1, <2>2, <3>3, <4>2, <4>3, <4>4, <5>1, <5>2 DEF InLayer
      <4>6. QED
        BY <1>1, <2>1, <2>2, <3>1, <3>3, <4>2, <4>5 DEF NextLayer
    <3>4. QED
      BY <3>2, <3>3
  <2>5. QED
    BY <2>3, <2>4
<1>8. QED
  BY <1>5, <1>6, <1>7
-----------------------------------------------------------------------------
(* The control of the engine, edge by edge: what each state may become.    *)
Interrupted(z) ==
    /\ z /\ ~ntt_zeroize_seen /\ ntt_zeroize_seen'
    /\ ntt_state' = "ZEROIZE" /\ ntt_busy' /\ ~ntt_done'
    /\ zeroize_index' = 0 /\ coeff' = coeff

Follows(z, s) ==
    \/ /\ ntt_state = "IDLE" /\ s /\ ~z
       /\ ntt_state' = "BUTTERFLY" /\ ~ntt_done'
    \/ /\ ntt_state = "IDLE" /\ ~(s /\ ~z)
       /\ ntt_state' = "IDLE" /\ ntt_done' = ntt_done
    \/ /\ ntt_state \in {"BUTTERFLY", "SCALE"}
       /\ \/ ntt_state' \in {"BUTTERFLY", "SCALE"} /\ ~ntt_done'
          \/ ntt_state' = "IDLE" /\ ntt_done'
    \/ /\ ntt_state = "ZEROIZE" /\ ~ntt_done'
       /\ \/ /\ zeroize_index = N - 1 /\ ntt_state' = "IDLE"
          \/ /\ zeroize_index # N - 1 /\ ntt_state' = "ZEROIZE"
             /\ zeroize_index' = zeroize_index + 1

(* What an edge does to the control, the flags and the schedule.           *)
LEMMA EngineStep ==
    ASSUME SizeOK, EngineInv, NEW z \in BOOLEAN, NEW s \in BOOLEAN,
           NEW c \in NttCommand, NEW h, NttEdge(z, s, c, h)
    PROVE  /\ EngineInv'
           /\ \/ Interrupted(z)
              \/ NttLatch(z) /\ Follows(z, s)
<1>1. N \in Nat /\ N >= 4 /\ N \div 2 \in Nat
  BY SizeFacts
<1>2. Control /\ Ranges /\ (ntt_state = "BUTTERFLY" => Scheduled)
  BY DEF EngineInv
<1>3. 0 \in Address /\ 0 \in 0 .. N \div 2 /\ 0 \in -(N - 1) .. (N - 1)
      /\ 0 \in 0 .. (N - 1)
  BY SMT, <1>1 DEF Address
<1>4. CASE NttZeroizeStart(z)
  <2>1. Interrupted(z)
    BY <1>4 DEF NttZeroizeStart, Interrupted
  <2>2. EngineInv'
    BY <1>2, <1>3, <1>4 DEF NttZeroizeStart, EngineInv, Control, Ranges
  <2>3. QED
    BY <2>1, <2>2
<1>5. CASE NttStart(z, s, c, h)
  <2>1. Control' /\ NttLatch(z) /\ Follows(z, s)
    BY <1>2, <1>5 DEF NttStart, NttLatch, Control, Follows
  <2>2. /\ InLayer(N \div (2 * FirstLen(c)), 0)' /\ ntt_cmd' = c
        /\ N \div (2 * FirstLen(c)) \in Nat
    BY <1>5, StartEntersLayer
  <2>3. Scheduled'
    BY <2>2 DEF Scheduled
  <2>4. Ranges'
    <3>1. /\ len' \in 0 .. N \div 2 /\ group' \in Address
          /\ j' \in Address /\ k' \in 0 .. (N - 1)
          /\ zeta' \in -(N - 1) .. (N - 1)
      BY <2>2, InLayerRanges, 0 \in Nat
    <3>2. (scale_index \in Address /\ zeroize_index \in Address)'
      BY <1>2, <1>5 DEF NttStart, Ranges
    <3>3. QED
      BY <2>2, <3>1, <3>2 DEF Ranges
  <2>5. QED
    BY <2>1, <2>3, <2>4 DEF EngineInv
<1>6. CASE NttRest(z, s, h)
  <2>1. Control' /\ NttLatch(z) /\ Follows(z, s)
    BY <1>2, <1>6 DEF NttRest, NttLatch, Control, Follows
  <2>2. Ranges' /\ ntt_state' # "BUTTERFLY"
    BY <1>2, <1>6 DEF NttRest, schedule, Ranges
  <2>3. QED
    BY <2>1, <2>2 DEF EngineInv
<1>7. CASE NttButterfly(z, h)
  <2>1. PICK q \in Nat, g \in Nat : InLayer(q, g)
    BY <1>2, <1>7 DEF NttButterfly, Scheduled
  <2>2. /\ ntt_cmd' = ntt_cmd /\ zeroize_index' = zeroize_index
        /\ \/ /\ ButterflyStays
              /\ NextPair(q, g) \/ NextGroup(q, g) \/ NextLayer(q, g)
           \/ TransformEnds(q, g)
    BY <1>2, <1>7, <2>1, ButterflyMoves DEF Ranges
  <2>3. /\ NttLatch(z) /\ ntt_zeroize_seen' = z
        /\ ntt_state = "BUTTERFLY" /\ ~ntt_done
    BY <1>2, <1>7 DEF NttButterfly, NttLatch, Control
  <2>4. CASE ButterflyStays /\ (NextPair(q, g) \/ NextGroup(q, g)
                                   \/ NextLayer(q, g))
    <3>1. \E q1, g1 \in Nat : InLayer(q1, g1)'
      <4>1. g + 1 \in Nat /\ 2 * q \in Nat /\ 0 \in Nat
        BY SMT
      <4>2. QED
        BY <2>4, <4>1 DEF NextPair, NextGroup, NextLayer
    <3>2. PICK q1 \in Nat, g1 \in Nat : InLayer(q1, g1)'
      BY <3>1
    <3>3. Scheduled'
      BY <3>2 DEF Scheduled
    <3>4. Ranges'
      BY <1>2, <2>2, <2>4, <3>2, InLayerRanges DEF Ranges, ButterflyStays
    <3>5. Control' /\ Follows(z, s)
      BY <1>2, <2>3, <2>4 DEF Control, Follows, ButterflyStays
    <3>6. QED
      BY <2>3, <3>3, <3>4, <3>5 DEF EngineInv
  <2>5. CASE TransformEnds(q, g)
    <3>1. Ranges'
      BY <1>2, <1>3, <2>2, <2>5 DEF Ranges, TransformEnds
    <3>2. Control' /\ Follows(z, s) /\ ntt_state' # "BUTTERFLY"
      BY <1>2, <2>3, <2>5 DEF Control, Follows, TransformEnds
    <3>3. QED
      BY <2>3, <3>1, <3>2 DEF EngineInv
  <2>6. QED
    BY <2>2, <2>4, <2>5
<1>8. CASE NttScale(z, h)
  <2>1. NttLatch(z) /\ ntt_zeroize_seen' = z /\ ntt_state = "SCALE" /\ ~ntt_done
    BY <1>2, <1>8 DEF NttScale, NttLatch, Control
  <2>2. Control' /\ Follows(z, s) /\ ntt_state' # "BUTTERFLY"
    BY <1>2, <1>8, <2>1 DEF NttScale, Control, Follows
  <2>3. scale_index' \in Address
    BY SMT, <1>1, <1>2, <1>8 DEF NttScale, Ranges, Address
  <2>4. Ranges'
    BY <1>2, <1>8, <2>3 DEF NttScale, Ranges
  <2>5. QED
    BY <2>1, <2>2, <2>4 DEF EngineInv
<1>9. CASE NttZeroize(z, h)
  <2>1. /\ NttLatch(z) /\ ntt_zeroize_seen' = z
        /\ ntt_state = "ZEROIZE" /\ ~ntt_done'
    BY <1>9 DEF NttZeroize, NttLatch
  <2>2. /\ Control' /\ Follows(z, s) /\ ntt_state' # "BUTTERFLY"
    BY <1>2, <1>9, <2>1
       DEF NttZeroize, LastZeroize, Control, Follows
  <2>3. zeroize_index' \in Address
    BY SMT, <1>1, <1>2, <1>9 DEF NttZeroize, LastZeroize, Ranges, Address
  <2>4. Ranges'
    BY <1>2, <1>9, <2>3 DEF NttZeroize, schedule, Ranges
  <2>5. QED
    BY <2>1, <2>2, <2>4 DEF EngineInv
<1>10. QED
  BY <1>4, <1>5, <1>6, <1>7, <1>8, <1>9 DEF NttEdge

(* A reset leaves an idle engine.                                          *)
LEMMA EngineReset ==
    ASSUME SizeOK
    PROVE  /\ NttResetState => EngineInv
           /\ NttReset => EngineInv'
<1>1. /\ 0 \in Address /\ 0 \in 0 .. N \div 2 /\ 0 \in -(N - 1) .. (N - 1)
      /\ 0 \in 0 .. (N - 1)
  BY SMT, SizeFacts DEF Address
<1>2. NttResetState => EngineInv
  BY <1>1 DEF NttResetState, EngineInv, Control, Ranges, NttCommand
<1>3. NttReset => EngineInv'
  BY <1>1 DEF NttReset, EngineInv, Control, Ranges, NttCommand
<1>4. QED
  BY <1>2, <1>3
-----------------------------------------------------------------------------
(* The banks are two arrays of rows, and every address has its cell.       *)
TwoBanks == {0, 1}
Shape(f) == f = [b \in TwoBanks |-> [r \in Row |-> f[b][r]]]

(* The bank and the row of an address exist.                               *)
LEMMA Cell ==
    ASSUME SizeOK, BanksSplit, NEW a \in Address
    PROVE  Bank(a) \in TwoBanks /\ RowOf(a) \in Row
<1>1. N \in Nat /\ N \div 2 \in Nat /\ N \div 2 >= 2
  BY SizeFacts
<1>2. a \in Nat
  BY SMT, <1>1 DEF Address
<1>3. RowOf(a) \in Row
  BY SMT, <1>1, <1>2 DEF RowOf, Row
<1>4. QED
  BY <1>3 DEF BanksSplit, TwoBanks

(* Every cell is the cell of an address.                                   *)
LEMMA CellOnto ==
    ASSUME SizeOK, BanksSplit, NEW b \in TwoBanks, NEW r \in Row
    PROVE  \E a \in Address : Bank(a) = b /\ RowOf(a) = r
<1>1. N \in Nat /\ N \div 2 \in Nat /\ N \div 2 >= 2 /\ N = 2 * (N \div 2)
  BY SizeFacts
<1>2. /\ r \in Address /\ r + N \div 2 \in Address
      /\ RowOf(r) = r /\ RowOf(r + N \div 2) = r
  BY SMT, <1>1 DEF Address, Row, RowOf
<1>3. Bank(r) \in TwoBanks /\ Bank(r + N \div 2) = 1 - Bank(r)
  <2>1. N \div 2 \in 1 .. (N \div 2) /\ (r \div (N \div 2)) % 2 = 0
    BY SMT, <1>1 DEF Row
  <2>2. PowerOfTwo(N \div 2)
    BY SizeFacts
  <2>3. QED
    BY <1>2, <2>1, <2>2 DEF BanksSplit, TwoBanks
<1>4. Bank(r) = b \/ Bank(r + N \div 2) = b
  BY SMT, <1>3 DEF TwoBanks
<1>5. QED
  BY <1>2, <1>4

Put(f, b, r, v) == [f EXCEPT ![b][r] = v]
PutBoth(f, b, r, v, c, s, u) == [f EXCEPT ![b][r] = v, ![c][s] = u]

(* What one write does to the banks.                                       *)
LEMMA WriteCell ==
    ASSUME NEW f, Shape(f), NEW b \in TwoBanks, NEW r \in Row, NEW v
    PROVE  /\ Shape(Put(f, b, r, v))
           /\ \A b1 \in TwoBanks, r1 \in Row :
                  Put(f, b, r, v)[b1][r1] =
                      IF b1 = b /\ r1 = r THEN v ELSE f[b1][r1]
  BY DEF Shape, Put

(* What the two writes of a butterfly do to the banks.                     *)
LEMMA WriteCells ==
    ASSUME NEW f, Shape(f), NEW b \in TwoBanks, NEW r \in Row, NEW v,
           NEW c \in TwoBanks, NEW s \in Row, NEW u
    PROVE  /\ Shape(PutBoth(f, b, r, v, c, s, u))
           /\ \A b1 \in TwoBanks, r1 \in Row :
                  PutBoth(f, b, r, v, c, s, u)[b1][r1] \in {f[b1][r1], v, u}
<1> DEFINE w1 == Put(f, b, r, v)
           w2 == Put(w1, c, s, u)
<1>1. /\ Shape(w1)
      /\ \A b1 \in TwoBanks, r1 \in Row :
             w1[b1][r1] = IF b1 = b /\ r1 = r THEN v ELSE f[b1][r1]
  BY WriteCell
<1>2. PutBoth(f, b, r, v, c, s, u) = w2
  BY DEF Put, PutBoth
<1> HIDE DEF w1
<1>3. /\ Shape(w2)
      /\ \A b1 \in TwoBanks, r1 \in Row :
             w2[b1][r1] = IF b1 = c /\ r1 = s THEN u ELSE w1[b1][r1]
  BY <1>1, WriteCell
<1> HIDE DEF w2
<1>4. \A b1 \in TwoBanks, r1 \in Row : w2[b1][r1] \in {f[b1][r1], v, u}
  BY <1>1, <1>3
<1>5. QED
  BY <1>2, <1>3, <1>4

(* What one edge may make of a cell: nothing, a host write to an engine at *)
(* rest, a cleared coefficient, or a result over two cells.                *)
Cells == {coeff[b][r] : b \in TwoBanks, r \in Row}

Becomes(old, new, z, h) ==
    \/ new = old
    \/ h.we /\ ~ntt_busy /\ ~z /\ new = h.data
    \/ ntt_state = "ZEROIZE" /\ new = ZeroCoeff
    \/ /\ ntt_state = "BUTTERFLY"
       /\ \E x, y \in Cells : \/ new = NewA(ntt_cmd, zeta, x, y)
                              \/ new = NewB(ntt_cmd, zeta, x, y)
    \/ ntt_state = "SCALE" /\ \E x \in Cells : new = Scaled(ntt_cmd, x)

(* A word that is read is a cell of the banks.                             *)
LEMMA ReadsCell ==
    ASSUME SizeOK, BanksSplit, NEW a \in Address
    PROVE  coeff_read(a) \in Cells
  BY Cell DEF coeff_read, Cells

(* What a host beat does to the banks.                                     *)
LEMMA HostCell ==
    ASSUME SizeOK, BanksSplit, Shape(coeff), NEW z, NEW h,
           h.we => h.addr \in Address
    PROVE  /\ Shape(HostWritten(z, h))
           /\ ~(h.we /\ ~ntt_busy /\ ~z) => HostWritten(z, h) = coeff
           /\ \A b \in TwoBanks, r \in Row :
                  \/ HostWritten(z, h)[b][r] = coeff[b][r]
                  \/ h.we /\ ~ntt_busy /\ ~z
                       /\ HostWritten(z, h)[b][r] = h.data
<1>1. CASE h.we /\ ~ntt_busy /\ ~z
  <2>1. HostWritten(z, h) = Put(coeff, Bank(h.addr), RowOf(h.addr), h.data)
    BY <1>1 DEF HostWritten, Store, Put
  <2>2. Bank(h.addr) \in TwoBanks /\ RowOf(h.addr) \in Row
    BY <1>1, Cell
  <2>3. QED
    BY <1>1, <2>1, <2>2, WriteCell
<1>2. CASE ~(h.we /\ ~ntt_busy /\ ~z)
  BY <1>2 DEF HostWritten
<1>3. QED
  BY <1>1, <1>2

(* What one edge makes of each cell.                                       *)
LEMMA CellStep ==
    ASSUME SizeOK, BanksSplit, EngineInv, Shape(coeff),
           NEW z, NEW s, NEW c, NEW h, h.we => h.addr \in Address,
           NttEdge(z, s, c, h)
    PROVE  /\ Shape(coeff')
           /\ \A b \in TwoBanks, r \in Row :
                  Becomes(coeff[b][r], coeff'[b][r], z, h)
<1> DEFINE w == HostWritten(z, h)
<1>1. /\ Shape(w)
      /\ ~(h.we /\ ~ntt_busy /\ ~z) => w = coeff
      /\ \A b \in TwoBanks, r \in Row :
             \/ w[b][r] = coeff[b][r]
             \/ h.we /\ ~ntt_busy /\ ~z /\ w[b][r] = h.data
  BY HostCell
<1>2. ntt_state # "IDLE" => w = coeff
  BY <1>1 DEF EngineInv, Control
<1>3. CASE NttZeroizeStart(z)
  BY <1>3 DEF NttZeroizeStart, Becomes
<1>4. CASE NttStart(z, s, c, h) \/ NttRest(z, s, h)
  <2>1. coeff' = w
    BY <1>4 DEF NttStart, NttRest
  <2> HIDE DEF w
  <2>2. QED
    BY <1>1, <2>1 DEF Becomes
<1>5. CASE NttButterfly(z, h)
  <2>1. PICK q \in Nat, g \in Nat : InLayer(q, g)
    BY <1>5 DEF NttButterfly, EngineInv, Scheduled
  <2>2. j \in Address /\ peer \in Address
    BY <2>1, InLayerRanges
  <2>3. coeff_read(j) \in Cells /\ coeff_read(peer) \in Cells
    BY <2>2, ReadsCell
  <2>4. /\ Bank(j) \in TwoBanks /\ RowOf(j) \in Row
        /\ 1 - Bank(j) \in TwoBanks /\ RowOf(peer) \in Row
    <3>1. Bank(j) \in TwoBanks /\ RowOf(j) \in Row /\ RowOf(peer) \in Row
      BY <2>2, Cell
    <3>2. QED
      BY SMT, <3>1 DEF TwoBanks
  <2> DEFINE v == NewA(ntt_cmd, zeta, coeff_read(j), coeff_read(peer))
             u == NewB(ntt_cmd, zeta, coeff_read(j), coeff_read(peer))
             n == PutBoth(coeff, Bank(j), RowOf(j), v,
                          1 - Bank(j), RowOf(peer), u)
  <2>5. coeff' = n
    BY <1>2, <1>5 DEF NttButterfly, PutBoth
  <2>6. /\ Shape(n)
        /\ \A b \in TwoBanks, r \in Row : n[b][r] \in {coeff[b][r], v, u}
    <3> HIDE DEF v, u
    <3>1. QED
      BY <2>4, WriteCells
  <2> HIDE DEF n
  <2>7. ntt_state = "BUTTERFLY"
    BY <1>5 DEF NttButterfly
  <2>8. QED
    BY <2>3, <2>5, <2>6, <2>7 DEF Becomes
<1>6. CASE NttScale(z, h)
  <2>1. scale_index \in Address
    BY DEF EngineInv, Ranges
  <2> DEFINE v == Scaled(ntt_cmd, coeff_read(scale_index))
  <2>2. coeff' = Put(coeff, Bank(scale_index), RowOf(scale_index), v)
    BY <1>2, <1>6 DEF NttScale, Store, Put
  <2>3. coeff_read(scale_index) \in Cells
    BY <2>1, ReadsCell
  <2>4. Bank(scale_index) \in TwoBanks /\ RowOf(scale_index) \in Row
    BY <2>1, Cell
  <2>5. /\ Shape(coeff')
        /\ \A b \in TwoBanks, r \in Row :
               coeff'[b][r] = coeff[b][r] \/ coeff'[b][r] = v
    <3> HIDE DEF v
    <3>1. QED
      BY <2>2, <2>4, WriteCell
  <2>6. ntt_state = "SCALE"
    BY <1>6 DEF NttScale
  <2>7. QED
    BY <2>3, <2>5, <2>6 DEF Becomes
<1>7. CASE NttZeroize(z, h)
  <2>1. zeroize_index \in Address /\ ntt_state = "ZEROIZE"
    BY <1>7 DEF EngineInv, Ranges, NttZeroize
  <2>2. coeff' = Put(coeff, Bank(zeroize_index), RowOf(zeroize_index),
                     ZeroCoeff)
    BY <1>2, <1>7 DEF NttZeroize, Store, Put
  <2>3. Bank(zeroize_index) \in TwoBanks /\ RowOf(zeroize_index) \in Row
    BY <2>1, Cell
  <2>4. QED
    BY <2>1, <2>2, <2>3, WriteCell DEF Becomes
<1>8. QED
  BY <1>3, <1>4, <1>5, <1>6, <1>7 DEF NttEdge
-----------------------------------------------------------------------------
(* What is clear, and what the scrub has cleared so far.                   *)
AllClear == \A b \in TwoBanks, r \in Row : coeff[b][r] = ZeroCoeff
ClearedBelow(n) == \A a \in Address : a < n => coeff_read(a) = ZeroCoeff

(* The scrub has cleared all coefficients below its index.                 *)
ScrubClears == ntt_state = "ZEROIZE" => ClearedBelow(zeroize_index)

(* All cells are clear exactly when all addresses read as clear.           *)
LEMMA AllClearIs ==
    ASSUME SizeOK, BanksSplit
    PROVE  /\ (\A a \in Address : coeff_read(a) = ZeroCoeff) => AllClear
           /\ (\A a \in Address : coeff_read(a)' = ZeroCoeff) => AllClear'
           /\ AllClear => \A a \in Address : coeff_read(a) = ZeroCoeff
<1>1. (\A a \in Address : coeff_read(a) = ZeroCoeff) => AllClear
  BY CellOnto DEF coeff_read, AllClear
<1>2. (\A a \in Address : coeff_read(a)' = ZeroCoeff) => AllClear'
  BY CellOnto DEF coeff_read, AllClear
<1>3. AllClear => \A a \in Address : coeff_read(a) = ZeroCoeff
  BY Cell DEF coeff_read, AllClear
<1>4. QED
  BY <1>1, <1>2, <1>3

(* An edge of the scrub clears one coefficient more, and the last one      *)
(* leaves none.                                                            *)
LEMMA ScrubStep ==
    ASSUME SizeOK, BanksSplit, EngineInv, Shape(coeff), ScrubClears,
           NEW z, NEW s, NEW c, NEW h, NttEdge(z, s, c, h)
    PROVE  /\ ScrubClears'
           /\ ntt_state = "ZEROIZE" /\ ntt_state' = "IDLE" => AllClear'
<1>1. N \in Nat /\ N >= 4
  BY SizeFacts
<1>2. CASE NttZeroizeStart(z)
  BY SMT, <1>1, <1>2
     DEF NttZeroizeStart, ScrubClears, ClearedBelow, Address
<1>3. CASE NttStart(z, s, c, h)
  BY <1>3 DEF NttStart, ScrubClears
<1>4. CASE NttRest(z, s, h)
  BY <1>4 DEF NttRest, ScrubClears
<1>5. CASE NttButterfly(z, h)
  BY <1>5 DEF NttButterfly, Advance, ScrubClears
<1>6. CASE NttScale(z, h)
  BY <1>6 DEF NttScale, ScrubClears
<1>7. CASE NttZeroize(z, h)
  <2>1. zeroize_index \in Address /\ ntt_state = "ZEROIZE" /\ ntt_busy
    BY <1>7 DEF EngineInv, Ranges, Control, NttZeroize
  <2>2. coeff' = Put(coeff, Bank(zeroize_index), RowOf(zeroize_index),
                     ZeroCoeff)
    BY <1>7, <2>1 DEF NttZeroize, HostWritten, Store, Put
  <2>3. Bank(zeroize_index) \in TwoBanks /\ RowOf(zeroize_index) \in Row
    BY <2>1, Cell
  <2>4. \A b \in TwoBanks, r \in Row :
            coeff'[b][r] = IF b = Bank(zeroize_index)
                                /\ r = RowOf(zeroize_index)
                           THEN ZeroCoeff ELSE coeff[b][r]
    BY <2>2, <2>3, WriteCell
  <2>5. \A a \in Address :
            a <= zeroize_index => coeff_read(a)' = ZeroCoeff
    <3> SUFFICES ASSUME NEW a \in Address, a <= zeroize_index
                 PROVE  coeff_read(a)' = ZeroCoeff
      OBVIOUS
    <3>1. Bank(a) \in TwoBanks /\ RowOf(a) \in Row
      BY Cell
    <3>2. a < zeroize_index \/ a = zeroize_index
      BY SMT, <1>1, <2>1 DEF Address
    <3>3. CASE a < zeroize_index
      <4>1. coeff_read(a) = ZeroCoeff
        BY <2>1, <3>3 DEF ScrubClears, ClearedBelow
      <4>2. QED
        BY <2>4, <3>1, <4>1 DEF coeff_read
    <3>4. CASE a = zeroize_index
      BY <2>4, <3>1, <3>4 DEF coeff_read
    <3>5. QED
      BY <3>2, <3>3, <3>4
  <2>6. CASE LastZeroize
    <3>1. ntt_state' = "IDLE"
      BY <1>7, <2>6 DEF NttZeroize
    <3>2. \A a \in Address : a <= zeroize_index
      BY SMT, <1>1, <2>6 DEF LastZeroize, Address
    <3>3. AllClear'
      BY <2>5, <3>2, AllClearIs
    <3>4. QED
      BY <3>1, <3>3 DEF ScrubClears
  <2>7. CASE ~LastZeroize
    <3>1. ntt_state' = "ZEROIZE" /\ zeroize_index' = zeroize_index + 1
      BY <1>7, <2>7 DEF NttZeroize
    <3>2. \A a \in Address : a < zeroize_index + 1 => a <= zeroize_index
      BY SMT, <1>1, <2>1 DEF Address
    <3>3. QED
      BY <2>5, <3>1, <3>2 DEF ScrubClears, ClearedBelow
  <2>8. QED
    BY <2>6, <2>7
<1>8. QED
  BY <1>2, <1>3, <1>4, <1>5, <1>6, <1>7 DEF NttEdge

(* An engine without data makes none: only a host write brings some in.    *)
LEMMA StaysClear ==
    ASSUME SizeOK, BanksSplit, EngineInv, Shape(coeff), AllClear,
           \A cmd, i : /\ NewA(cmd, i, ZeroCoeff, ZeroCoeff) = ZeroCoeff
                       /\ NewB(cmd, i, ZeroCoeff, ZeroCoeff) = ZeroCoeff
                       /\ Scaled(cmd, ZeroCoeff) = ZeroCoeff,
           NEW z, NEW s, NEW c, NEW h, h.we => h.addr \in Address,
           NttEdge(z, s, c, h), h.we => ntt_busy \/ z
    PROVE  AllClear'
<1>1. \A b \in TwoBanks, r \in Row : Becomes(coeff[b][r], coeff'[b][r], z, h)
  BY CellStep
<1>2. \A x \in Cells : x = ZeroCoeff
  BY DEF Cells, AllClear
<1>3. SUFFICES ASSUME NEW b \in TwoBanks, NEW r \in Row
               PROVE  coeff'[b][r] = ZeroCoeff
  BY DEF AllClear
<1>4. Becomes(coeff[b][r], coeff'[b][r], z, h) /\ coeff[b][r] = ZeroCoeff
  BY <1>1 DEF AllClear
<1>5. QED
  BY <1>2, <1>4 DEF Becomes
=============================================================================
