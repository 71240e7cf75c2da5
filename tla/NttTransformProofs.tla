------------------------- MODULE NttTransformProofs -------------------------
(***************************************************************************)
(* Proofs about the NTT engine and its host, for every number of           *)
(* coefficients that is a power of two, every field and every root: the    *)
(* banks never conflict, a transform takes a time that only its command    *)
(* decides, and a zeroization leaves nothing.                              *)
(***************************************************************************)
EXTENDS NttTransform, TLAPS

NL == INSTANCE NttAccelProofs WITH
    ZeroCoeff <- 0, NewA <- FieldNewA, NewB <- FieldNewB,
    Scaled <- FieldScaled
-----------------------------------------------------------------------------
(* The inductive invariant.  Where a transform is decides how many edges   *)
(* it has taken: Half for every layer that is done, one for every pair of  *)
(* this layer that is done.                                                *)
Half == N \div 2
LayersDone(q) ==
    IF ntt_cmd \in NL!Forward THEN Log2[q] ELSE Layers(ntt_cmd) - 1 - Log2[q]
InTime(q, g) ==
    /\ NL!InLayer(q, g)
    /\ edges = LayersDone(q) * Half + (g * len + (j - group))

Timed ==
    /\ ntt_state = "BUTTERFLY" => \E q, g \in Nat : InTime(q, g)
    /\ ntt_state = "SCALE" =>
           /\ ntt_cmd \notin NL!Forward
           /\ edges = Layers(ntt_cmd) * Half + scale_index

Coefficients == coeff \in [{0, 1} -> [Ntt!Row -> Field]]

Registers ==
    /\ input \in [Address -> Field]
    /\ edges \in 0 .. MaxEdges
    /\ starts \in 0 .. MAX_STARTS
    /\ writes \in 0 .. MAX_WRITES
    /\ cuts \in 0 .. MAX_CUTS

Inv ==
    /\ NL!EngineInv /\ NL!ScrubClears
    /\ Coefficients /\ Registers /\ Timed /\ FixedLatency
-----------------------------------------------------------------------------
(* The lemmas about the engine speak of the engine of the transform.       *)
LEMMA SameBanks ==
    /\ \A a : NL!Bank(a) = Ntt!Bank(a) /\ NL!RowOf(a) = Ntt!RowOf(a)
    /\ NL!Address = Ntt!Address /\ NL!Row = Ntt!Row
    /\ \A a : NL!coeff_read(a) = Ntt!coeff_read(a)
<1>1. \A a : NL!Bank(a) = Ntt!Bank(a)
  BY DEF NL!Bank, Ntt!Bank, NL!Parity, Ntt!Parity
<1>2. \A a : NL!RowOf(a) = Ntt!RowOf(a)
  BY DEF NL!RowOf, Ntt!RowOf
<1>3. NL!Address = Ntt!Address /\ NL!Row = Ntt!Row
  BY DEF NL!Address, Ntt!Address, NL!Row, Ntt!Row
<1>4. \A a : NL!coeff_read(a) = Ntt!coeff_read(a)
  BY <1>1, <1>2 DEF NL!coeff_read, Ntt!coeff_read
<1>5. QED
  BY <1>1, <1>2, <1>3, <1>4

(* What the transform assumes of its engine is what its lemmas assume.     *)
LEMMA EngineSize == NL!SizeOK /\ NL!BanksSplit
<1>1. NL!SizeOK
  BY TransformAssumption
     DEF NL!SizeOK, Ntt!SizeOK, NL!PowerOfTwo, Ntt!PowerOfTwo
<1>2. NL!BanksSplit
  BY TransformAssumption, SameBanks
     DEF NL!BanksSplit, Ntt!BanksSplit, NL!PowerOfTwo, Ntt!PowerOfTwo
<1>3. QED
  BY <1>1, <1>2

(* Its reset is theirs.                                                    *)
LEMMA SameReset ==
    /\ Ntt!NttResetState => NL!NttResetState
    /\ Ntt!NttReset => NL!NttReset
  BY DEF Ntt!NttResetState, NL!NttResetState, Ntt!NttReset, NL!NttReset

(* Its actions are theirs, and so is its edge.                             *)
LEMMA SameActions ==
    ASSUME NEW z, NEW s, NEW c, NEW h
    PROVE  /\ Ntt!NttZeroizeStart(z) => NL!NttZeroizeStart(z)
           /\ Ntt!NttStart(z, s, c, h) => NL!NttStart(z, s, c, h)
           /\ Ntt!NttRest(z, s, h) => NL!NttRest(z, s, h)
           /\ Ntt!NttButterfly(z, h) => NL!NttButterfly(z, h)
           /\ Ntt!NttScale(z, h) => NL!NttScale(z, h)
           /\ Ntt!NttZeroize(z, h) => NL!NttZeroize(z, h)
           /\ Ntt!NttEdge(z, s, c, h) => NL!NttEdge(z, s, c, h)
<1>1. \A f, a, v : NL!Store(f, a, v) = Ntt!Store(f, a, v)
  BY SameBanks DEF NL!Store, Ntt!Store
<1>2. NL!HostWritten(z, h) = Ntt!HostWritten(z, h)
  BY <1>1 DEF NL!HostWritten, Ntt!HostWritten
<1>3. /\ NL!NttLatch(z) <=> Ntt!NttLatch(z)
      /\ NL!Forward = Ntt!Forward
      /\ NL!NextK = Ntt!NextK
      /\ NL!next_group_start = Ntt!next_group_start
      /\ NL!peer = Ntt!peer
  BY DEF NL!NttLatch, Ntt!NttLatch, NL!Forward, Ntt!Forward, NL!NextK,
         Ntt!NextK, NL!next_group_start, Ntt!next_group_start,
         NL!peer, Ntt!peer
<1>4. \A cmd, i : NL!ZetaOf(cmd, i) = Ntt!ZetaOf(cmd, i)
  BY DEF NL!ZetaOf, Ntt!ZetaOf
<1>5. NL!FirstLen(c) = Ntt!FirstLen(c) /\ NL!FirstK(c) = Ntt!FirstK(c)
  BY Zenon DEF NL!FirstLen, Ntt!FirstLen, NL!FirstK, Ntt!FirstK,
               NL!Forward, Ntt!Forward
<1>6. NL!LastLayer <=> Ntt!LastLayer
  BY Zenon DEF NL!LastLayer, Ntt!LastLayer
<1>7. NL!Advance <=> Ntt!Advance
  BY Zenon, <1>3, <1>4, <1>6 DEF NL!Advance, Ntt!Advance
<1>8. Ntt!NttZeroizeStart(z) => NL!NttZeroizeStart(z)
  BY DEF NL!NttZeroizeStart, Ntt!NttZeroizeStart
<1>9. Ntt!NttStart(z, s, c, h) => NL!NttStart(z, s, c, h)
  BY Zenon, <1>2, <1>3, <1>4, <1>5 DEF NL!NttStart, Ntt!NttStart
<1>10. Ntt!NttRest(z, s, h) => NL!NttRest(z, s, h)
  BY Zenon, <1>2, <1>3
     DEF NL!NttRest, Ntt!NttRest, NL!schedule, Ntt!schedule
<1>11. Ntt!NttButterfly(z, h) => NL!NttButterfly(z, h)
  BY Zenon, <1>2, <1>3, <1>7, SameBanks DEF NL!NttButterfly, Ntt!NttButterfly
<1>12. Ntt!NttScale(z, h) => NL!NttScale(z, h)
  BY Zenon, <1>1, <1>2, <1>3, SameBanks DEF NL!NttScale, Ntt!NttScale
<1>13. Ntt!NttZeroize(z, h) => NL!NttZeroize(z, h)
  BY Zenon, <1>1, <1>2, <1>3
     DEF NL!NttZeroize, Ntt!NttZeroize, NL!LastZeroize, Ntt!LastZeroize,
         NL!schedule, Ntt!schedule
<1>14. QED
  BY Zenon, <1>8, <1>9, <1>10, <1>11, <1>12, <1>13
     DEF NL!NttEdge, Ntt!NttEdge
-----------------------------------------------------------------------------
(* The sizes, and the edges that the bound leaves room for.                *)
LEMMA Sizes ==
    /\ N \in Nat /\ N >= 4 /\ Half \in Nat /\ Half >= 2 /\ N = 2 * Half
    /\ Half = 2 * (Half \div 2) /\ Half \div 2 \in Nat \ {0}
    /\ MaxEdges \in Nat /\ N * Half + N <= MaxEdges
<1>1. /\ N \in Nat /\ N >= 4 /\ Half \in Nat /\ Half >= 2 /\ N = 2 * Half
      /\ Half = 2 * (Half \div 2) /\ Half \div 2 \in Nat \ {0}
  BY EngineSize, NL!SizeFacts DEF Half
<1>2. /\ MaxEdges \in Nat /\ N * Half + N <= MaxEdges
  <2>1. 2 * N * N = 4 * (N * Half)
    BY SMT, <1>1
  <2>2. N * Half \in Nat /\ N <= N * Half
    BY SMT, <1>1
  <2>3. QED
    BY SMT, <1>1, <2>1, <2>2 DEF MaxEdges
<1>3. QED
  BY <1>1, <1>2

(* The logarithm of a size and of its double.                              *)
LEMMA Doubling ==
    ASSUME NEW q \in Nat \ {0}, 2 * q <= N
    PROVE  /\ Log2[2 * q] = 1 + Log2[q]
           /\ Log2[q] \in Nat /\ Log2[q] <= q
<1>1. 2 * q \in 2 .. N /\ (2 * q) \div 2 = q /\ q \in 1 .. N
  BY SMT, Sizes
<1>2. QED
  BY SMT, <1>1, Log2Assumption

(* The numbers of layers.                                                  *)
LEMMA LayersAre ==
    /\ Log2[1] = 0
    /\ Log2[N] = 1 + Log2[Half] /\ Log2[Half] = 1 + Log2[Half \div 2]
    /\ Log2[N] \in Nat /\ Log2[Half] \in Nat /\ Log2[Half \div 2] \in Nat
    /\ \A cmd : Layers(cmd) \in Int /\ Layers(cmd) <= N
<1>1. Log2[N] = 1 + Log2[Half] /\ Log2[Half] \in Nat
  BY Sizes, Doubling, Half \in Nat \ {0}, 2 * Half <= N
<1>2. Log2[Half] = 1 + Log2[Half \div 2] /\ Log2[Half \div 2] \in Nat
  BY Sizes, Doubling, Half \div 2 \in Nat \ {0}, 2 * (Half \div 2) <= N
<1>3. Log2[N] \in 0 .. N
  BY Sizes, Log2Assumption
<1>4. \A cmd : Layers(cmd) \in Int /\ Layers(cmd) <= N
  BY <1>3, Sizes DEF Layers
<1>5. QED
  BY <1>1, <1>2, <1>3, <1>4, Sizes, Log2Assumption

(* The pairs of a layer: Half in all, and the place tells how many are     *)
(* done.                                                                   *)
LEMMA PairsDone ==
    ASSUME NEW q \in Nat, NEW g \in Nat, NL!InLayer(q, g)
    PROVE  /\ g * len + (j - group) \in Nat
           /\ g * len + (j - group) < Half
           /\ q \in Nat \ {0} /\ 2 * q <= N
           /\ q * len = Half
           /\ g + 1 = q /\ j + 1 = group + len =>
                  g * len + (j - group) + 1 = Half
<1>1. /\ len \in Nat \ {0} /\ 2 * len * q = N /\ g < q
      /\ group = 2 * len * g
      /\ j \in Nat /\ group <= j /\ j < group + len
  BY DEF NL!InLayer
<1>2. group \in Nat
  BY SMT, <1>1
<1>3. q * len = Half
  <2>1. 2 * len * q = 2 * (q * len) /\ q * len \in Nat
    BY SMT, <1>1
  <2>2. QED
    BY SMT, <1>1, <2>1, Sizes
<1>4. 2 * q <= N
  BY EngineSize, NL!LayerBounds, <1>1
<1>5. (g + 1) * len = g * len + len /\ g * len \in Nat
  BY SMT, <1>1
<1>6. g * len + len <= Half
  <2>1. len * (g + 1) <= len * q
    BY <1>1, NL!ScaleOrder, g + 1 \in Int, q \in Int, len > 0, g + 1 <= q
  <2>2. len * (g + 1) = g * len + len /\ len * q = q * len
    BY SMT, <1>1
  <2>3. QED
    BY SMT, <1>3, <1>5, <2>1, <2>2
<1>7. g + 1 = q => g * len + len = Half
  BY <1>3, <1>5
<1>8. QED
  BY SMT, <1>1, <1>2, <1>3, <1>4, <1>5, <1>6, <1>7, Sizes
-----------------------------------------------------------------------------
(* The field.  A remainder is a residue.                                   *)
LEMMA Residue ==
    ASSUME NEW x \in Int
    PROVE  x % Q \in Field
  BY SMT, FieldAssumption DEF Field

(* The twiddle factor of an index that the schedule reaches is a number.   *)
LEMMA TwiddleValue ==
    ASSUME NEW cmd \in NL!NttCommand, NEW i \in NL!Address
    PROVE  Zeta(cmd, NL!ZetaOf(cmd, i)) \in Int
<1>1. i \in Int /\ -(-i) = i
  BY SMT, Sizes DEF NL!Address
<1>2. /\ MldsaZeta(i) \in Field /\ MlkemZeta(i) \in Field
      /\ Q \in Nat /\ Field \subseteq Int
  BY FieldAssumption, SameBanks DEF Field
<1>3. CASE cmd = "MLDSA_NTT"
  <2>1. NL!ZetaOf(cmd, i) = i
    BY <1>3 DEF NL!ZetaOf
  <2>2. Zeta(cmd, i) = MldsaZeta(i)
    BY Zenon, <1>3 DEF Zeta
  <2>3. QED
    BY <1>2, <2>1, <2>2
<1>4. CASE cmd = "MLDSA_INTT"
  <2>1. NL!ZetaOf(cmd, i) = -i
    BY <1>4 DEF NL!ZetaOf
  <2>2. Zeta(cmd, -i) = Q - MldsaZeta(-(-i))
    BY <1>4 DEF Zeta
  <2>3. Q - MldsaZeta(i) \in Int
    <3> DEFINE v == MldsaZeta(i)
    <3>1. v \in Int
      BY Zenon, <1>2
    <3> HIDE DEF v
    <3>2. Q - v \in Int
      BY SMT, <3>1, <1>2
    <3>3. QED
      BY <3>2 DEF v
  <2>4. QED
    BY <1>1, <2>1, <2>2, <2>3
<1>5. CASE cmd \notin {"MLDSA_NTT", "MLDSA_INTT"}
  <2>1. NL!ZetaOf(cmd, i) = i
    BY <1>5 DEF NL!ZetaOf
  <2>2. Zeta(cmd, i) = MlkemZeta(i)
    BY <1>5 DEF Zeta
  <2>3. QED
    BY <1>2, <2>1, <2>2
<1>6. QED
  BY <1>3, <1>4, <1>5

(* What a butterfly and a scaling put into a cell is a residue.            *)
LEMMA FieldResults ==
    ASSUME NEW cmd \in NL!NttCommand, NEW z, Zeta(cmd, z) \in Int,
           NEW x \in Field, NEW y \in Field
    PROVE  /\ FieldNewA(cmd, z, x, y) \in Field
           /\ FieldNewB(cmd, z, x, y) \in Field
           /\ FieldScaled(cmd, x) \in Field
<1>1. Field \subseteq Int /\ Q \in Int
  BY FieldAssumption DEF Field
<1>2. \A u \in Int : Twiddled(cmd, z, u) \in Field
  BY Residue DEF Twiddled
<1>3. FieldNewA(cmd, z, x, y) \in Field
  <2>1. (x + Twiddled(cmd, z, y)) \in Int /\ x + y \in Int
    <3>1. x \in Int /\ y \in Int /\ Twiddled(cmd, z, y) \in Int
      BY <1>1, <1>2
    <3>2. QED
      BY SMT, <3>1
  <2>2. QED
    BY <2>1, Residue DEF FieldNewA
<1>4. FieldNewB(cmd, z, x, y) \in Field
  <2> DEFINE t == Twiddled(cmd, z, y)
             u == Twiddled(cmd, z, x + Q - y)
             w == Twiddled(cmd, z, y + Q - x)
  <2>1. (x + Q - t) % Q \in Field /\ u \in Field /\ w \in Field
    <3>1. t \in Int /\ x \in Int /\ y \in Int
      BY <1>1, <1>2
    <3> HIDE DEF t
    <3>2. x + Q - t \in Int /\ x + Q - y \in Int /\ y + Q - x \in Int
      BY <1>1, <3>1
    <3>3. QED
      BY <1>2, <3>2, Residue
  <2>2. CASE cmd \in {"MLDSA_NTT", "MLKEM_NTT"}
    <3>1. FieldNewB(cmd, z, x, y) = (x + Q - t) % Q
      BY Zenon, <2>2 DEF FieldNewB
    <3>2. QED
      BY <2>1, <3>1
  <2>3. CASE cmd = "MLDSA_INTT"
    <3>1. FieldNewB(cmd, z, x, y) = u
      BY Zenon, <2>3 DEF FieldNewB
    <3>2. QED
      BY <2>1, <3>1
  <2>4. CASE cmd = "MLKEM_INTT"
    <3>1. FieldNewB(cmd, z, x, y) = w
      BY Zenon, <2>4 DEF FieldNewB
    <3>2. QED
      BY <2>1, <3>1
  <2>5. QED
    BY <2>2, <2>3, <2>4 DEF NL!NttCommand
<1>5. FieldScaled(cmd, x) \in Field
  <2>1. \A n \in {N, N \div 2} : FieldInverse(n) \in Field
    BY Zenon, FieldAssumption DEF FieldInverse
  <2>2. \A n \in {N, N \div 2} : x * FieldInverse(n) \in Int
    <3>1. \A y1 \in Int : x * y1 \in Int
      BY SMT, <1>1
    <3>2. QED
      BY <1>1, <2>1, <3>1
  <2>3. QED
    BY <2>2, Residue DEF FieldScaled
<1>6. QED
  BY <1>3, <1>4, <1>5
-----------------------------------------------------------------------------
(* A host port that the transform's host may drive.                        *)
HostOK(h) == h.we => h.addr \in Address /\ h.data \in Field

(* An edge keeps the invariant of the engine and residues in the banks,    *)
(* and the last edge of a scrub leaves zeroes.                             *)
LEMMA EngineOnEdge ==
    ASSUME NL!EngineInv, NL!ScrubClears, Coefficients,
           NEW z \in BOOLEAN, NEW s \in BOOLEAN, NEW c \in NL!NttCommand,
           NEW h, HostOK(h), Ntt!NttEdge(z, s, c, h)
    PROVE  /\ NL!EngineInv' /\ NL!ScrubClears' /\ Coefficients'
           /\ ntt_state = "ZEROIZE" /\ ntt_state' = "IDLE" => NL!AllClear'
<1>1. NL!NttEdge(z, s, c, h)
  BY SameActions
<1>2. NL!SizeOK /\ NL!BanksSplit
  BY EngineSize
<1>3. /\ NL!Shape(coeff)
      /\ \A b \in NL!TwoBanks, r \in NL!Row : coeff[b][r] \in Field
  BY SameBanks DEF Coefficients, NL!Shape, NL!TwoBanks
<1>4. NL!EngineInv'
  BY <1>1, <1>2, NL!EngineStep
<1>5. /\ NL!ScrubClears'
      /\ ntt_state = "ZEROIZE" /\ ntt_state' = "IDLE" => NL!AllClear'
  BY <1>1, <1>2, <1>3, NL!ScrubStep
<1>6. h.we => h.addr \in NL!Address /\ h.data \in Field
  BY SameBanks DEF HostOK, Address
<1>7. /\ NL!Shape(coeff')
      /\ \A b \in NL!TwoBanks, r \in NL!Row :
             NL!Becomes(coeff[b][r], coeff'[b][r], z, h)
  BY <1>1, <1>2, <1>3, <1>6, NL!CellStep
<1>8. \A x \in NL!Cells : x \in Field
  BY <1>3 DEF NL!Cells
<1>9. ntt_cmd \in NL!NttCommand /\ 0 \in Field
  BY FieldAssumption DEF NL!EngineInv, NL!Ranges, Field
<1>10. ASSUME ntt_state = "BUTTERFLY", NEW x \in Field, NEW y \in Field
       PROVE  /\ FieldNewA(ntt_cmd, zeta, x, y) \in Field
              /\ FieldNewB(ntt_cmd, zeta, x, y) \in Field
  <2>1. PICK q \in Nat, g \in Nat : NL!InLayer(q, g)
    BY <1>10 DEF NL!EngineInv, NL!Scheduled
  <2>2. k \in NL!Address /\ zeta = NL!ZetaOf(ntt_cmd, k)
    BY <1>2, <2>1, NL!InLayerRanges DEF NL!InLayer, NL!Address
  <2>3. Zeta(ntt_cmd, zeta) \in Int
    BY <1>9, <2>2, TwiddleValue
  <2>4. QED
    BY <1>9, <1>10, <2>3, FieldResults
<1>11. ASSUME NEW x \in Field PROVE FieldScaled(ntt_cmd, x) \in Field
  <2>1. 0 \in NL!Address
    BY SMT, Sizes DEF NL!Address
  <2>2. QED
    BY <1>9, <1>11, <2>1, TwiddleValue, FieldResults
<1>12. ASSUME NEW b \in NL!TwoBanks, NEW r \in NL!Row
       PROVE  coeff'[b][r] \in Field
  <2>1. NL!Becomes(coeff[b][r], coeff'[b][r], z, h) /\ coeff[b][r] \in Field
    BY <1>3, <1>7
  <2>2. CASE ntt_state = "BUTTERFLY"
    BY Zenon, <1>6, <1>8, <1>10, <2>1, <2>2 DEF NL!Becomes
  <2>3. CASE ntt_state # "BUTTERFLY"
    BY Zenon, <1>6, <1>8, <1>9, <1>11, <2>1, <2>3 DEF NL!Becomes
  <2>4. QED
    BY <2>2, <2>3
<1>13. Coefficients'
  BY <1>7, <1>12, SameBanks DEF Coefficients, NL!Shape, NL!TwoBanks
<1>14. QED
  BY <1>4, <1>5, <1>13
-----------------------------------------------------------------------------
(* Time.  Nothing times anything is nothing.                               *)
LEMMA ZeroTimes ==
    ASSUME NEW x \in Nat
    PROVE  0 * x = 0
  OBVIOUS

(* A start begins the first layer at time 0.                               *)
LEMMA StartTimed ==
    ASSUME NEW z, NEW s, NEW c \in NL!NttCommand, NEW h,
           Ntt!NttStart(z, s, c, h), edges' = 0
    PROVE  Timed' /\ FixedLatency'
<1> DEFINE q0 == N \div (2 * NL!FirstLen(c))
<1>1. NL!NttStart(z, s, c, h)
  BY SameActions
<1>2. NL!InLayer(q0, 0)' /\ ntt_cmd' = c /\ q0 \in Nat
  BY <1>1, EngineSize, NL!StartEntersLayer
<1>3. /\ ntt_state' = "BUTTERFLY" /\ ntt_done' = FALSE
      /\ j' = 0 /\ group' = 0 /\ len' \in Nat
  BY <1>1, <1>2 DEF NL!NttStart, NL!InLayer
<1>4. LayersDone(q0)' = 0
  <2>1. CASE c \in NL!Forward
    <3>1. NL!FirstLen(c) = N \div 2
      <4>1. c # "MLDSA_INTT" /\ c # "MLKEM_INTT"
        BY <2>1 DEF NL!Forward
      <4>2. QED
        BY Zenon, <2>1, <4>1 DEF NL!FirstLen
    <3>2. q0 = 1
      BY SMT, <3>1, Sizes DEF Half
    <3>3. QED
      BY <1>2, <2>1, <3>2, LayersAre DEF LayersDone
  <2>2. CASE c = "MLDSA_INTT"
    <3>1. NL!FirstLen(c) = 1 /\ c \notin NL!Forward
      BY Zenon, <2>2 DEF NL!FirstLen, NL!Forward
    <3>2. q0 = Half /\ Layers(c) = Log2[N]
      BY <2>2, <3>1 DEF Half, Layers
    <3>3. QED
      BY <1>2, <3>1, <3>2, LayersAre DEF LayersDone
  <2>3. CASE c = "MLKEM_INTT"
    <3>1. NL!FirstLen(c) = 2 /\ c \notin NL!Forward
      BY Zenon, <2>3 DEF NL!FirstLen, NL!Forward
    <3>2. q0 = Half \div 2 /\ Layers(c) = Log2[N] - 1
      <4>1. q0 = Half \div 2
        BY SMT, <3>1, Sizes
      <4>2. QED
        BY <2>3, <4>1 DEF Layers
    <3>3. QED
      BY <1>2, <3>1, <3>2, LayersAre DEF LayersDone
  <2>4. QED
    BY <2>1, <2>2, <2>3 DEF NL!NttCommand, NL!Forward
<1> HIDE DEF q0
<1>5. edges' = LayersDone(q0)' * Half + (0 * len' + (j' - group'))
  <2>1. 0 * len' = 0 /\ 0 * Half = 0
    BY <1>3, Sizes, ZeroTimes
  <2>2. QED
    BY SMT, <1>3, <1>4, <2>1
<1>6. InTime(q0, 0)'
  BY <1>2, <1>5 DEF InTime
<1>7. QED
  BY <1>2, <1>3, <1>6 DEF Timed, FixedLatency

(* The bound on the edges is never met while the engine works.             *)
LEMMA RoomLeft ==
    ASSUME NEW d \in Int, d <= N, NEW p \in Nat, p < N
    PROVE  d * Half + p < MaxEdges
<1>1. Half * d <= Half * N
  BY NL!ScaleOrder, Sizes, Half > 0
<1>2. Half * d = d * Half /\ Half * N = N * Half /\ d * Half \in Int
      /\ N * Half \in Int
  BY SMT, Sizes
<1>3. QED
  BY SMT, <1>1, <1>2, Sizes

(* Every butterfly takes one edge, whatever comes next.                    *)
LEMMA ButterflyTimed ==
    ASSUME NL!EngineInv, Timed, NEW z, NEW h,
           Ntt!NttButterfly(z, h), edges' = Elapsed
    PROVE  Timed' /\ FixedLatency'
<1>1. NL!NttButterfly(z, h) /\ ntt_state = "BUTTERFLY"
  BY SameActions DEF Ntt!NttButterfly
<1>2. PICK q \in Nat, g \in Nat : InTime(q, g)
  BY <1>1 DEF Timed
<1>3. NL!InLayer(q, g) /\ ntt_cmd \in NL!NttCommand
  BY <1>2 DEF InTime, NL!EngineInv, NL!Ranges
<1> DEFINE d == LayersDone(q)
           p == g * len + (j - group)
<1>4. /\ p \in Nat /\ p < Half /\ q \in Nat \ {0} /\ 2 * q <= N
      /\ q * len = Half
      /\ g + 1 = q /\ j + 1 = group + len => p + 1 = Half
  BY <1>3, PairsDone
<1>5. /\ Log2[2 * q] = 1 + Log2[q] /\ Log2[q] \in Nat /\ Log2[q] <= q
  BY <1>4, Doubling
<1>6. d \in Int /\ d <= N
  <2>1. CASE ntt_cmd \in NL!Forward
    <3>1. d = Log2[q]
      BY <2>1 DEF LayersDone
    <3>2. QED
      BY SMT, <1>4, <1>5, <3>1, Sizes
  <2>2. CASE ntt_cmd \notin NL!Forward
    <3>1. d = Layers(ntt_cmd) - 1 - Log2[q]
      BY <2>2 DEF LayersDone
    <3>2. Layers(ntt_cmd) \in Int /\ Layers(ntt_cmd) <= N
      BY LayersAre
    <3>3. QED
      BY SMT, <1>5, <3>1, <3>2, Sizes
  <2>3. QED
    BY <2>1, <2>2
<1>7. edges = d * Half + p
  BY <1>2 DEF InTime
<1>8. p < N
  BY SMT, <1>4, Sizes
<1>9. edges' = d * Half + p + 1 /\ d * Half \in Int
  <2>1. d * Half + p < MaxEdges
    BY <1>4, <1>6, <1>8, RoomLeft
  <2>2. edges' = edges + 1
    BY <1>7, <2>1 DEF Elapsed
  <2>3. QED
    BY SMT, <1>6, <1>7, <2>2, Sizes
<1>10. /\ len \in Nat \ {0} /\ j \in Nat /\ group \in Nat
       /\ g * len \in Nat /\ (g + 1) * len = g * len + len
  <2>1. len \in Nat \ {0} /\ j \in Nat /\ group = 2 * len * g
    BY <1>3 DEF NL!InLayer
  <2>2. QED
    BY SMT, <2>1
<1>11. /\ ntt_cmd' = ntt_cmd /\ zeroize_index' = zeroize_index
       /\ \/ /\ NL!ButterflyStays
             /\ NL!NextPair(q, g) \/ NL!NextGroup(q, g) \/ NL!NextLayer(q, g)
          \/ NL!TransformEnds(q, g)
  BY <1>1, <1>3, EngineSize, NL!ButterflyMoves
<1>12. ntt_done = FALSE
  BY <1>1 DEF NL!EngineInv, NL!Control
<1>13. ASSUME NL!ButterflyStays, NEW q1 \in Nat, NEW g1 \in Nat, InTime(q1, g1)'
       PROVE  Timed' /\ FixedLatency'
  BY <1>12, <1>13 DEF NL!ButterflyStays, Timed, FixedLatency
<1>14. LayersDone(q)' = d
  BY <1>11 DEF LayersDone
<1> HIDE DEF d
<1>15. CASE NL!ButterflyStays /\ NL!NextPair(q, g)
  <2>1. NL!InLayer(q, g)' /\ j' = j + 1 /\ group' = group /\ len' = len
    BY <1>15 DEF NL!NextPair
  <2>2. edges' = d * Half + (g * len' + (j' - group'))
    BY SMT, <1>9, <1>10, <2>1
  <2>3. InTime(q, g)'
    BY <1>14, <2>1, <2>2 DEF InTime
  <2>4. QED
    BY <1>13, <1>15, <2>3
<1>16. CASE NL!ButterflyStays /\ NL!NextGroup(q, g)
  <2>1. /\ NL!InLayer(q, g + 1)' /\ j' = group' /\ len' = len
        /\ j + 1 = group + len
    BY <1>16 DEF NL!NextGroup
  <2>2. j' \in Nat /\ group' \in Nat
    BY <2>1 DEF NL!InLayer
  <2>3. edges' = d * Half + ((g + 1) * len' + (j' - group'))
    BY SMT, <1>9, <1>10, <2>1, <2>2
  <2>4. InTime(q, g + 1)' /\ g + 1 \in Nat
    BY <1>14, <2>1, <2>3 DEF InTime
  <2>5. QED
    BY <1>13, <1>16, <2>4
<1>17. (d + 1) * Half = d * Half + Half
  BY SMT, <1>6, Sizes
<1>18. CASE NL!ButterflyStays /\ NL!NextLayer(q, g)
  <2>1. /\ g + 1 = q /\ j + 1 = group + len /\ j' = 0 /\ group' = 0
        /\ IF ntt_cmd \in NL!Forward
           THEN NL!InLayer(2 * q, 0)'
           ELSE /\ q = 2 * (q \div 2) /\ q \div 2 \in Nat
                /\ NL!InLayer(q \div 2, 0)'
    BY <1>18 DEF NL!NextLayer
  <2>2. edges' = (d + 1) * Half
    BY SMT, <1>4, <1>9, <1>17, <2>1
  <2>3. PICK q1 \in Nat : NL!InLayer(q1, 0)' /\ LayersDone(q1)' = d + 1
    <3>1. CASE ntt_cmd \in NL!Forward
      <4>1. LayersDone(2 * q)' = d + 1
        BY SMT, <1>5, <1>11, <3>1 DEF LayersDone, d
      <4>2. 2 * q \in Nat
        BY SMT
      <4>3. QED
        BY <2>1, <3>1, <4>1, <4>2
    <3>2. CASE ntt_cmd \notin NL!Forward
      <4>1. q \div 2 \in Nat \ {0} /\ 2 * (q \div 2) <= N
        <5>1. q = 2 * (q \div 2) /\ q \div 2 \in Nat
          BY <2>1, <3>2
        <5>2. QED
          BY SMT, <1>4, <5>1, Sizes
      <4>2. Log2[q] = 1 + Log2[q \div 2] /\ Log2[q \div 2] \in Nat
        BY <2>1, <3>2, <4>1, Doubling
      <4>3. LayersDone(q \div 2)' = d + 1
        BY SMT, <1>11, <3>2, <4>2, LayersAre DEF LayersDone, d
      <4>4. QED
        BY <2>1, <3>2, <4>1, <4>3
    <3>3. QED
      BY <3>1, <3>2
  <2>4. len' \in Nat
    BY <2>3 DEF NL!InLayer
  <2>5. edges' = LayersDone(q1)' * Half + (0 * len' + (j' - group'))
    <3>1. 0 * len' = 0
      BY <2>4, ZeroTimes
    <3>2. (d + 1) * Half \in Int
      BY SMT, <1>6, Sizes
    <3>3. QED
      BY SMT, <2>1, <2>2, <2>3, <3>1, <3>2
  <2>6. InTime(q1, 0)'
    BY <2>3, <2>5 DEF InTime
  <2>7. QED
    BY <1>13, <1>18, <2>6
<1>19. CASE NL!TransformEnds(q, g)
  <2>1. g + 1 = q /\ j + 1 = group + len
    BY <1>19 DEF NL!TransformEnds
  <2>2. edges' = (d + 1) * Half /\ edges' \in Int
    BY SMT, <1>4, <1>9, <1>17, <2>1
  <2>3. d + 1 = Layers(ntt_cmd)
    <3>1. CASE ntt_cmd \in NL!Forward
      <4>1. len = IF ntt_cmd = "MLKEM_NTT" THEN 2 ELSE 1
        BY <1>19, <3>1 DEF NL!TransformEnds, NL!SmallestSpan
      <4>2. q = IF ntt_cmd = "MLKEM_NTT" THEN Half \div 2 ELSE Half
        BY SMT, <1>4, <4>1, Sizes
      <4>3. ntt_cmd \in {"MLDSA_NTT", "MLKEM_NTT"} /\ d = Log2[q]
        BY <3>1 DEF NL!Forward, LayersDone, d
      <4>4. CASE ntt_cmd = "MLKEM_NTT"
        BY SMT, <4>2, <4>3, <4>4, LayersAre DEF Layers
      <4>5. CASE ntt_cmd = "MLDSA_NTT"
        BY SMT, <4>2, <4>3, <4>5, LayersAre DEF Layers
      <4>6. QED
        BY <4>3, <4>4, <4>5
    <3>2. CASE ntt_cmd \notin NL!Forward
      <4>1. q = 1
        BY <1>19, <3>2 DEF NL!TransformEnds
      <4>2. QED
        BY SMT, <3>2, <4>1, LayersAre DEF LayersDone, d
    <3>3. QED
      BY <3>1, <3>2
  <2>4. CASE ntt_cmd \in NL!Forward
    <3>1. ntt_state' = "IDLE"
      BY <1>19, <2>4 DEF NL!TransformEnds
    <3>2. ntt_cmd' \in Ntt!Forward
      BY <1>11, <2>4 DEF NL!Forward, Ntt!Forward
    <3>3. edges' = Layers(ntt_cmd') * (N \div 2) + 0
      BY SMT, <1>11, <2>2, <2>3 DEF Half
    <3>4. QED
      BY <3>1, <3>2, <3>3 DEF Timed, FixedLatency
  <2>5. CASE ntt_cmd \notin NL!Forward
    <3>1. /\ ntt_state' = "SCALE" /\ scale_index' = 0 /\ ntt_done' = FALSE
      BY <1>12, <1>19, <2>5 DEF NL!TransformEnds
    <3>2. edges' = Layers(ntt_cmd') * Half + scale_index'
      BY SMT, <1>11, <2>2, <2>3, <3>1
    <3>3. QED
      BY <1>11, <2>5, <3>1, <3>2 DEF Timed, FixedLatency
  <2>6. QED
    BY <2>4, <2>5
<1>20. QED
  BY <1>11, <1>15, <1>16, <1>18, <1>19

(* Every coefficient takes one edge to scale.                              *)
LEMMA ScaleTimed ==
    ASSUME NL!EngineInv, Timed, NEW z, NEW h,
           Ntt!NttScale(z, h), edges' = Elapsed
    PROVE  Timed' /\ FixedLatency'
<1>1. /\ ntt_state = "SCALE" /\ ntt_done = FALSE /\ ntt_cmd' = ntt_cmd
      /\ ntt_cmd \notin NL!Forward
      /\ edges = Layers(ntt_cmd) * Half + scale_index
      /\ scale_index \in NL!Address
  BY DEF Ntt!NttScale, Timed, NL!EngineInv, NL!Control, NL!Ranges
<1> DEFINE d == Layers(ntt_cmd)
<1>2. d \in Int /\ d <= N
  BY LayersAre
<1>3. Layers(ntt_cmd') = d
  BY <1>1
<1> HIDE DEF d
<1>4. scale_index \in Nat /\ scale_index < N
  BY SMT, <1>1, Sizes DEF NL!Address
<1>5. edges' = d * Half + scale_index + 1 /\ d * Half \in Int
  <2>1. d * Half + scale_index < MaxEdges
    BY <1>2, <1>4, RoomLeft
  <2>2. edges' = edges + 1 /\ edges = d * Half + scale_index
    BY <1>1, <2>1 DEF Elapsed, d
  <2>3. QED
    BY SMT, <1>2, <1>4, <2>2, Sizes
<1>6. ntt_cmd' \notin Ntt!Forward /\ ntt_cmd' \notin NL!Forward
  BY <1>1 DEF NL!Forward, Ntt!Forward
<1>7. CASE scale_index = N - 1
  <2>1. ntt_state' = "IDLE"
    BY <1>7 DEF Ntt!NttScale
  <2>2. edges' = d * (N \div 2) + N
    BY SMT, <1>5, <1>7, Sizes DEF Half
  <2>3. QED
    BY <1>3, <1>6, <2>1, <2>2 DEF Timed, FixedLatency
<1>8. CASE scale_index # N - 1
  <2>1. /\ ntt_state' = "SCALE" /\ ntt_done' = FALSE
        /\ scale_index' = scale_index + 1
    BY <1>1, <1>8 DEF Ntt!NttScale
  <2>2. edges' = d * Half + scale_index'
    BY SMT, <1>4, <1>5, <2>1
  <2>3. QED
    BY <1>3, <1>6, <2>1, <2>2 DEF Timed, FixedLatency
<1>9. QED
  BY <1>7, <1>8
-----------------------------------------------------------------------------
(* The invariant holds of the polynomials of power-on.                     *)
LEMMA InitInv == Init => Inv
<1> SUFFICES ASSUME Init PROVE Inv
  OBVIOUS
<1>1. PICK p \in InputPolys : coeff = Banks(p)
  BY DEF Init
<1>2. NL!EngineInv /\ ntt_state = "IDLE" /\ ntt_done = FALSE
  BY SameReset, EngineSize, NL!EngineReset DEF Init, NL!NttResetState
<1>3. p \in [Address -> Field]
  BY BoundsAssumption DEF Address
<1>4. Coefficients
  <2>1. ASSUME NEW b \in {0, 1}, NEW r \in Ntt!Row
        PROVE  p[CHOOSE a \in Address : Ntt!Bank(a) = b /\ Ntt!RowOf(a) = r]
                   \in Field
    <3>1. b \in NL!TwoBanks /\ r \in NL!Row
      BY SameBanks DEF NL!TwoBanks
    <3>2. \E a \in NL!Address : NL!Bank(a) = b /\ NL!RowOf(a) = r
      BY <3>1, EngineSize, NL!CellOnto
    <3>3. \E a \in Address : Ntt!Bank(a) = b /\ Ntt!RowOf(a) = r
      BY <3>2, SameBanks DEF Address
    <3>4. (CHOOSE a \in Address : Ntt!Bank(a) = b /\ Ntt!RowOf(a) = r)
              \in Address
      BY <3>3
    <3>5. QED
      BY <1>3, <3>4
  <2>2. Banks(p) \in [{0, 1} -> [Ntt!Row -> Field]]
    BY <2>1 DEF Banks
  <2>3. QED
    BY <1>1, <2>2 DEF Coefficients
<1>5. Registers
  <2>1. input \in [Address -> Field]
    <3>1. input = [a \in Address |-> Ntt!coeff_read(a)]
      BY DEF Init, Poly
    <3>2. ASSUME NEW a \in Address PROVE Ntt!coeff_read(a) \in Field
      <4>1. Ntt!Bank(a) \in {0, 1} /\ Ntt!RowOf(a) \in Ntt!Row
        BY EngineSize, NL!Cell, SameBanks DEF Address, NL!TwoBanks
      <4>2. QED
        BY <1>4, <4>1 DEF Coefficients, Ntt!coeff_read
    <3>3. QED
      BY <3>1, <3>2
  <2>2. 0 \in 0 .. MaxEdges
    BY SMT, Sizes
  <2>3. 0 \in 0 .. MAX_STARTS /\ 0 \in 0 .. MAX_WRITES /\ 0 \in 0 .. MAX_CUTS
    BY SMT, BoundsAssumption
  <2>4. QED
    BY <2>1, <2>2, <2>3 DEF Init, Registers
<1>6. QED
  BY <1>2, <1>4, <1>5 DEF Inv, NL!ScrubClears, Timed, FixedLatency

(* A reset keeps the invariant.                                            *)
LEMMA ResetStep == Inv /\ Reset => Inv'
<1> SUFFICES ASSUME Inv, Reset PROVE Inv'
  OBVIOUS
<1>1. NL!NttReset
  BY SameReset DEF Reset
<1>2. NL!EngineInv'
  BY <1>1, EngineSize, NL!EngineReset
<1>3. ntt_state' = "IDLE" /\ ntt_done' = FALSE /\ coeff' = coeff
  BY <1>1 DEF NL!NttReset
<1>4. Registers'
  <2>1. cuts' \in 0 .. MAX_CUTS
    BY SMT, BoundsAssumption DEF Inv, Registers, Reset, Cut
  <2>2. QED
    BY <2>1 DEF Inv, Registers, Reset
<1>5. Coefficients'
  BY <1>3 DEF Inv, Coefficients
<1>6. QED
  BY <1>2, <1>3, <1>4, <1>5 DEF Inv, NL!ScrubClears, Timed, FixedLatency

(* What the host may put on its port.                                      *)
LEMMA HostPorts ==
    /\ HostOK(NoWrite)
    /\ \A host \in HostWrites : HostOK(host)
  BY BoundsAssumption DEF HostOK, NoWrite, HostWrites

(* The edge of a zeroize pulse keeps it.                                   *)
LEMMA ZeroizeStartStep ==
    ASSUME Inv, NEW z \in BOOLEAN, ZeroizeStart(z)
    PROVE  Inv' /\ ntt_state' = "ZEROIZE"
<1>1. Ntt!NttZeroizeStart(z) /\ edges' = 0
  BY DEF ZeroizeStart
<1>2. Ntt!NttEdge(z, FALSE, "MLDSA_NTT", NoWrite)
  BY <1>1 DEF Ntt!NttEdge
<1>3. NL!EngineInv' /\ NL!ScrubClears' /\ Coefficients'
  BY <1>2, HostPorts, EngineOnEdge, "MLDSA_NTT" \in NL!NttCommand
     DEF Inv, NL!NttCommand
<1>4. ntt_state' = "ZEROIZE" /\ ntt_done' = FALSE
  BY <1>1 DEF Ntt!NttZeroizeStart
<1>5. Registers'
  <2>1. cuts' \in 0 .. MAX_CUTS /\ edges' \in 0 .. MaxEdges
    BY SMT, <1>1, BoundsAssumption, Sizes
       DEF Inv, Registers, ZeroizeStart, Cut
  <2>2. QED
    BY <2>1 DEF Inv, Registers, ZeroizeStart
<1>6. QED
  BY <1>3, <1>4, <1>5 DEF Inv, Timed, FixedLatency

(* A start keeps it.                                                       *)
LEMMA StartStep ==
    ASSUME Inv, NEW z \in BOOLEAN, NEW cmd \in Ntt!NttCommand, NEW host,
           HostOK(host), host.we => writes < MAX_WRITES \/ ntt_busy,
           Start(z, cmd, host)
    PROVE  Inv' /\ ntt_state = "IDLE"
<1>1. Ntt!NttStart(z, TRUE, cmd, host) /\ edges' = 0 /\ cmd \in NL!NttCommand
  BY DEF Start, NL!NttCommand, Ntt!NttCommand
<1>2. Ntt!NttEdge(z, TRUE, cmd, host)
  BY <1>1 DEF Ntt!NttEdge
<1>3. NL!EngineInv' /\ NL!ScrubClears' /\ Coefficients'
  BY <1>1, <1>2, EngineOnEdge DEF Inv
<1>4. Timed' /\ FixedLatency'
  BY <1>1, StartTimed
<1>5. ntt_state = "IDLE" /\ ~ntt_busy /\ coeff' = Ntt!HostWritten(z, host)
  BY <1>1 DEF Ntt!NttStart, Inv, NL!EngineInv, NL!Control
<1>6. Registers'
  <2>1. input' \in [Address -> Field]
    <3>1. input' = [a \in Address |-> coeff'[Ntt!Bank(a)][Ntt!RowOf(a)]]
      BY <1>5 DEF Start
    <3>2. \A a \in Address : Ntt!Bank(a) \in {0, 1} /\ Ntt!RowOf(a) \in Ntt!Row
      BY EngineSize, NL!Cell, SameBanks DEF Address, NL!TwoBanks
    <3>3. QED
      BY <1>3, <3>1, <3>2 DEF Coefficients
  <2>2. /\ starts' \in 0 .. MAX_STARTS /\ writes' \in 0 .. MAX_WRITES
        /\ edges' \in 0 .. MaxEdges
    BY SMT, <1>1, <1>5, BoundsAssumption, Sizes DEF Inv, Registers, Start
  <2>3. QED
    BY <2>1, <2>2 DEF Inv, Registers, Start
<1>7. QED
  BY <1>3, <1>4, <1>5, <1>6 DEF Inv

(* An edge at rest keeps it.                                               *)
LEMMA RestStep ==
    ASSUME Inv, NEW z \in BOOLEAN, NEW s \in BOOLEAN, NEW host,
           HostOK(host), host.we => writes < MAX_WRITES \/ ntt_busy,
           Rest(z, s, host)
    PROVE  Inv' /\ ntt_state = "IDLE"
<1>1. Ntt!NttRest(z, s, host)
  BY DEF Rest
<1>2. Ntt!NttEdge(z, s, "MLDSA_NTT", host)
  BY <1>1 DEF Ntt!NttEdge
<1>3. NL!EngineInv' /\ NL!ScrubClears' /\ Coefficients'
  BY <1>2, EngineOnEdge, "MLDSA_NTT" \in NL!NttCommand DEF Inv, NL!NttCommand
<1>4. /\ ntt_state = "IDLE" /\ ntt_state' = "IDLE" /\ ~ntt_busy
      /\ ntt_done' = ntt_done /\ ntt_cmd' = ntt_cmd /\ edges' = edges
  BY <1>1 DEF Ntt!NttRest, Ntt!schedule, Rest, Inv, NL!EngineInv, NL!Control
<1>5. Timed' /\ FixedLatency'
  BY <1>4 DEF Inv, Timed, FixedLatency
<1>6. Registers'
  <2>1. writes' \in 0 .. MAX_WRITES
    BY SMT, <1>4, BoundsAssumption DEF Inv, Registers, Rest
  <2>2. QED
    BY <2>1 DEF Inv, Registers, Rest
<1>7. QED
  BY <1>3, <1>4, <1>5, <1>6 DEF Inv

(* An edge of a transform keeps it.                                        *)
LEMMA WorkStep ==
    ASSUME Inv, NEW z \in BOOLEAN, NEW host, HostOK(host), Work(z, host)
    PROVE  Inv' /\ ntt_state # "ZEROIZE"
<1>1. /\ Ntt!NttButterfly(z, host) \/ Ntt!NttScale(z, host)
      /\ edges' = Elapsed
  BY DEF Work
<1>2. Ntt!NttEdge(z, FALSE, "MLDSA_NTT", host)
  BY <1>1 DEF Ntt!NttEdge
<1>3. NL!EngineInv' /\ NL!ScrubClears' /\ Coefficients'
  BY <1>2, EngineOnEdge, "MLDSA_NTT" \in NL!NttCommand DEF Inv, NL!NttCommand
<1>4. Timed' /\ FixedLatency'
  BY <1>1, ButterflyTimed, ScaleTimed DEF Inv
<1>5. Registers'
  <2>1. edges' \in 0 .. MaxEdges
    BY SMT, <1>1, Sizes DEF Elapsed, Inv, Registers
  <2>2. QED
    BY <2>1 DEF Inv, Registers, Work
<1>6. ntt_state # "ZEROIZE"
  BY <1>1 DEF Ntt!NttButterfly, Ntt!NttScale
<1>7. QED
  BY <1>3, <1>4, <1>5, <1>6 DEF Inv

(* An edge of the scrub keeps it, and the last one leaves nothing.         *)
LEMMA ZeroizeStep ==
    ASSUME Inv, NEW z \in BOOLEAN, NEW host, HostOK(host), Zeroize(z, host)
    PROVE  /\ Inv'
           /\ ntt_state' = "IDLE" => Poly' = [a \in Address |-> 0]
<1>1. Ntt!NttZeroize(z, host)
  BY DEF Zeroize
<1>2. Ntt!NttEdge(z, FALSE, "MLDSA_NTT", host)
  BY <1>1 DEF Ntt!NttEdge
<1>3. /\ ntt_state = "ZEROIZE" /\ ntt_done' = FALSE
      /\ ntt_state' \in {"IDLE", "ZEROIZE"}
  BY <1>1 DEF Ntt!NttZeroize
<1>4. /\ NL!EngineInv' /\ NL!ScrubClears' /\ Coefficients'
      /\ ntt_state' = "IDLE" => NL!AllClear'
  BY <1>2, <1>3, EngineOnEdge, "MLDSA_NTT" \in NL!NttCommand
     DEF Inv, NL!NttCommand
<1>5. Registers'
  BY DEF Inv, Registers, Zeroize
<1>6. Timed' /\ FixedLatency'
  BY <1>3 DEF Timed, FixedLatency
<1>7. ASSUME ntt_state' = "IDLE" PROVE Poly' = [a \in Address |-> 0]
  <2>1. \A a \in Address : Ntt!Bank(a) \in {0, 1} /\ Ntt!RowOf(a) \in Ntt!Row
    BY EngineSize, NL!Cell, SameBanks DEF Address, NL!TwoBanks
  <2>2. \A a \in Address : coeff'[Ntt!Bank(a)][Ntt!RowOf(a)] = 0
    BY <1>4, <1>7, <2>1, SameBanks DEF NL!AllClear, NL!TwoBanks
  <2>3. QED
    BY <2>2 DEF Poly, Ntt!coeff_read
<1>8. QED
  BY <1>4, <1>5, <1>6, <1>7 DEF Inv

(* Every step keeps it.                                                    *)
LEMMA InvStep ==
    ASSUME Inv, [Next]_vars
    PROVE  /\ Inv'
           /\ [ntt_state = "ZEROIZE" /\ ntt_state' = "IDLE" =>
                  \/ Poly' = [a \in Address |-> 0]
                  \/ Reset]_vars
<1>1. CASE UNCHANGED vars
  <2>1. /\ NL!EngineInv' /\ NL!ScrubClears'
    BY <1>1 DEF vars, Ntt!nttVars, Ntt!schedule, Inv, NL!EngineInv,
                NL!Control, NL!Ranges, NL!Scheduled, NL!InLayer,
                NL!ScrubClears, NL!ClearedBelow, NL!coeff_read
  <2>2. Coefficients' /\ Registers' /\ FixedLatency'
    BY <1>1 DEF vars, Ntt!nttVars, Ntt!schedule, Inv, Coefficients,
                Registers, FixedLatency
  <2>3. Timed'
    BY <1>1 DEF vars, Ntt!nttVars, Ntt!schedule, Inv, Timed, InTime,
                LayersDone, NL!InLayer
  <2>4. QED
    BY <1>1, <2>1, <2>2, <2>3 DEF Inv
<1>2. CASE Reset
  BY <1>2, ResetStep
<1>3. ASSUME NEW z \in BOOLEAN, ZeroizeStart(z)
      PROVE  Inv' /\ ntt_state' # "IDLE"
  BY <1>3, ZeroizeStartStep
<1>4. ASSUME NEW z \in BOOLEAN, NEW host \in {NoWrite} \cup HostWrites,
             host.we => writes < MAX_WRITES \/ ntt_busy,
             \/ \E cmd \in Ntt!NttCommand : Start(z, cmd, host)
             \/ \E s \in BOOLEAN : Rest(z, s, host)
             \/ Work(z, host)
             \/ Zeroize(z, host)
      PROVE  /\ Inv'
             /\ ntt_state = "ZEROIZE" /\ ntt_state' = "IDLE" =>
                    Poly' = [a \in Address |-> 0]
  <2>1. HostOK(host)
    BY HostPorts
  <2>2. CASE \E cmd \in Ntt!NttCommand : Start(z, cmd, host)
    BY <1>4, <2>1, <2>2, StartStep
  <2>3. CASE \E s \in BOOLEAN : Rest(z, s, host)
    BY <1>4, <2>1, <2>3, RestStep
  <2>4. CASE Work(z, host)
    BY <2>1, <2>4, WorkStep
  <2>5. CASE Zeroize(z, host)
    BY <2>1, <2>5, ZeroizeStep
  <2>6. QED
    BY <1>4, <2>2, <2>3, <2>4, <2>5
<1>5. QED
  BY <1>1, <1>2, <1>3, <1>4 DEF Next

(* The invariant holds throughout every behaviour.                         *)
LEMMA TransformInvariant == Spec => []Inv
  BY InitInv, InvStep, PTL DEF Spec
-----------------------------------------------------------------------------
(* Every register of the engine holds what fits it and every coefficient   *)
(* is a residue, through starts, host writes, resets and zeroizations      *)
(* (the declarations of lca_ntt_accel.sv).                                 *)
THEOREM TypeCorrect == Spec => []TypeOK
<1>1. Inv => TypeOK
  BY SameBanks
     DEF Inv, NL!EngineInv, NL!Control, NL!Ranges, NL!NttCommand,
         Ntt!NttCommand, Coefficients, Registers, TypeOK, Ntt!NttTypeOK
<1>2. QED
  BY <1>1, TransformInvariant, PTL

(* In every layer of every command the two operands of a butterfly are     *)
(* addresses in different banks (lca_ntt_accel.sv:10-15).                  *)
THEOREM BanksNeverConflict == Spec => []BankConflictFree
<1>1. ASSUME Inv, ntt_state = "BUTTERFLY"
      PROVE  Ntt!peer \in Address /\ Ntt!Bank(j) # Ntt!Bank(Ntt!peer)
  <2>1. PICK q \in Nat, g \in Nat : NL!InLayer(q, g)
    BY <1>1 DEF Inv, Timed, InTime
  <2>2. NL!peer \in NL!Address /\ NL!peer = Ntt!peer
    BY <2>1, EngineSize, NL!InLayerRanges DEF NL!peer, Ntt!peer
  <2>3. NL!Bank(NL!peer) = 1 - NL!Bank(j) /\ NL!Bank(j) \in {0, 1}
    BY <2>1, EngineSize, NL!PairSplit
  <2>4. NL!Bank(j) # NL!Bank(NL!peer)
    BY SMT, <2>3
  <2>5. QED
    BY <2>2, <2>4, SameBanks DEF Address
<1>2. Inv => BankConflictFree
  BY <1>1 DEF BankConflictFree
<1>3. QED
  BY <1>2, TransformInvariant, PTL

(* The time of a transform is a function of its command and the size       *)
(* alone: no coefficient, host write or ignored start moves it             *)
(* (lca_ntt_accel.sv:238-360).                                             *)
THEOREM LatencyIsFixed == Spec => []FixedLatency
<1>1. Inv => FixedLatency
  BY DEF Inv
<1>2. QED
  BY <1>1, TransformInvariant, PTL

(* A zeroization that is let finish leaves no coefficient, whatever it     *)
(* interrupted (lca_ntt_accel.sv:207-221, 362-378).                        *)
THEOREM ZeroizeLeavesNothing == Spec => ZeroizeCleans
<1>1. Inv /\ [Next]_vars =>
          [ntt_state = "ZEROIZE" /\ ntt_state' = "IDLE" =>
               \/ Poly' = [a \in Address |-> 0]
               \/ Reset]_vars
  BY InvStep
<1>2. QED
  BY <1>1, TransformInvariant, PTL DEF Spec, ZeroizeCleans
=============================================================================
