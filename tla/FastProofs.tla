----------------------------- MODULE FastProofs -----------------------------
(***************************************************************************)
(* Proofs about the pipelined multiplier: its reductions are exact for     *)
(* every pair of canonical operands, its responses are right in every      *)
(* reachable state, and it implements the abstract pipeline PipeServer.    *)
(***************************************************************************)
EXTENDS ModMulFast, TLAPS

Within(x, low, high) == x \in Int /\ low <= x /\ x <= high

(* A number in [0, q) that differs from c by a multiple of q is c % q.     *)
LEMMA Residue ==
    /\ \A c \in Nat, r \in Nat, k \in Int :
           r < 3329 /\ r = c - 3329 * k => c % 3329 = r
    /\ \A c \in Nat, r \in Nat, k \in Int :
           r < 8380417 /\ r = c - 8380417 * k => c % 8380417 = r
  BY SMT

(* One K-RED fold is 13 times its argument up to a multiple of 3329.       *)
LEMMA KredIdentity ==
    ASSUME NEW v \in Int
    PROVE  /\ kred(v) \in Int
           /\ \E k \in Int : kred(v) = 13 * v - 3329 * k
<1>1. kred(v) \in Int /\ v \div 256 \in Int
  BY SMT DEF kred
<1>2. kred(v) = 13 * v - 3329 * (v \div 256)
  BY SMT DEF kred
<1>3. QED
  BY SMT, <1>1, <1>2

(* The range of the first fold, for every 24-bit input.                    *)
LEMMA FirstKredRange ==
    ASSUME NEW v \in Nat, v < 16777216
    PROVE  Within(kred(v), -65535, 3315)
  BY SMT DEF kred, Within

(* The range of the second fold.                                           *)
LEMMA SecondKredRange ==
    ASSUME NEW v \in Int, Within(v, -65535, 3315)
    PROVE  Within(kred(v), -12, 3571)
  BY SMT DEF kred, Within

(* Two subtractions are enough to bring that range into [0, 3329).         *)
LEMMA NormalizeExact ==
    ASSUME NEW v \in Int, Within(v, -12, 3571)
    PROVE  /\ kem_normalize(v) \in Nat
           /\ kem_normalize(v) < 3329
           /\ \E e \in Int : kem_normalize(v) = v - 3329 * e
<1>1. \/ kem_normalize(v) = v - 3329 * (-1)
      \/ kem_normalize(v) = v - 3329 * 0
      \/ kem_normalize(v) = v - 3329 * 1
  BY SMT DEF kem_normalize, CondSub, KEM_Q, Within
<1>2. kem_normalize(v) \in Nat /\ kem_normalize(v) < 3329
  BY SMT DEF kem_normalize, CondSub, KEM_Q, Within
<1>3. -1 \in Int /\ 0 \in Int /\ 1 \in Int
  BY SMT
<1>4. QED
  BY SMT, <1>1, <1>2, <1>3

(* One round multiplies by 169 modulo 3329, with a canonical result.       *)
LEMMA RoundExact ==
    ASSUME NEW v \in Nat, v < 16777216
    PROVE  /\ kred2_norm(v) \in Nat
           /\ kred2_norm(v) < 3329
           /\ \E m \in Int : kred2_norm(v) = 169 * v - 3329 * m
<1> DEFINE x == kred(v)
           y == kred(x)
           z == kem_normalize(y)
<1>1. PICK m1 \in Int : x = 13 * v - 3329 * m1
  BY SMT, KredIdentity, v \in Int
<1>2. x \in Int /\ Within(x, -65535, 3315)
  BY SMT, FirstKredRange DEF Within
<1> HIDE DEF x
<1>3. PICK m2 \in Int : y = 13 * x - 3329 * m2
  BY SMT, <1>2, KredIdentity
<1>4. y \in Int /\ Within(y, -12, 3571)
  BY SMT, <1>2, SecondKredRange DEF Within
<1> HIDE DEF y
<1>5. z \in Nat /\ z < 3329 /\ \E e \in Int : z = y - 3329 * e
  BY SMT, <1>4, NormalizeExact
<1>6. PICK e \in Int : z = y - 3329 * e
  BY SMT, <1>5
<1> HIDE DEF z
<1>7. z = 169 * v - 3329 * (13 * m1 + m2 + e)
  BY SMT, <1>1, <1>2, <1>3, <1>4, <1>6
<1>8. 13 * m1 + m2 + e \in Int
  BY SMT
<1>9. kred2_norm(v) = z
  BY SMT DEF kred2_norm, z, y, x
<1>10. QED
  BY SMT, <1>5, <1>7, <1>8, <1>9

(* The ML-KEM path: two rounds around the constant 1353 give the residue,  *)
(* because 169 * 169 * 1353 = 1 modulo 3329.                               *)
LEMMA KemExact ==
    ASSUME NEW c \in Nat, c <= 11075584
    PROVE  kred2_norm((((kred2_norm(c % 16777216) % 4096) % 4096) * 1353)
                          % 16777216) % 4096 = c % 3329
<1> DEFINE x == kred2_norm(c)
           w == x * 1353
           y == kred2_norm(w)
<1>1. x \in Nat /\ x < 3329 /\ \E m \in Int : x = 169 * c - 3329 * m
  <2>1. c < 16777216
    BY SMT
  <2>2. QED
    BY SMT, <2>1, RoundExact
<1>2. PICK m1 \in Int : x = 169 * c - 3329 * m1
  BY SMT, <1>1
<1> HIDE DEF x
<1>3. w = x * 1353
  OBVIOUS
<1>4. w \in Nat /\ w < 16777216
  BY SMT, <1>1
<1> HIDE DEF w
<1>5. y \in Nat /\ y < 3329 /\ \E m \in Int : y = 169 * w - 3329 * m
  BY SMT, <1>4, RoundExact
<1>6. PICK m2 \in Int : y = 169 * w - 3329 * m2
  BY SMT, <1>5
<1> HIDE DEF y
<1>7. x \in Int /\ y \in Int /\ w \in Int /\ c \in Int
  BY SMT, <1>1, <1>5, <1>4
<1>8. y = c - 3329 * (228657 * m1 + m2 - 11608 * c)
  BY SMT, <1>2, <1>3, <1>6, <1>7
<1>9. 228657 * m1 + m2 - 11608 * c \in Int
  BY SMT
<1>10. c % 3329 = y
  BY SMT, <1>5, <1>8, <1>9, Residue
<1>11. c % 16777216 = c /\ w % 16777216 = w
  BY SMT, <1>4
<1>12. (x % 4096) % 4096 = x /\ y % 4096 = y
  BY SMT, <1>1, <1>5
<1>13. QED
  BY SMT, <1>10, <1>11, <1>12 DEF x, w, y

(* One Solinas fold is its argument up to a multiple of 8380417.           *)
LEMMA FoldIdentity ==
    ASSUME NEW v \in Nat
    PROVE  /\ dsa_fold(v) \in Nat
           /\ \E k \in Int : dsa_fold(v) = v - 8380417 * k
<1>1. dsa_fold(v) \in Nat /\ v \div 8388608 \in Int
  BY SMT DEF dsa_fold
<1>2. dsa_fold(v) = v - 8380417 * (v \div 8388608)
  BY SMT DEF dsa_fold
<1>3. QED
  BY SMT, <1>1, <1>2

(* The worst cases of the four folds: nothing reaches 48 bits, and one     *)
(* subtraction is left to do.                                              *)
LEMMA FoldRange ==
    ASSUME NEW v \in Nat
    PROVE  /\ v < 70368744177664 => dsa_fold(v) <= 68719468544
           /\ v <= 68719468544 => dsa_fold(v) <= 75472897
           /\ v <= 75472897 => dsa_fold(v) <= 8445944
           /\ v <= 8445944 => dsa_fold(v) <= 8388607
<1>1. v < 70368744177664 => dsa_fold(v) <= 68719468544
  BY SMT DEF dsa_fold
<1>2. v <= 68719468544 => dsa_fold(v) <= 75472897
  BY SMT DEF dsa_fold
<1>3. v <= 75472897 => dsa_fold(v) <= 8445944
  BY SMT DEF dsa_fold
<1>4. v <= 8445944 => dsa_fold(v) <= 8388607
  BY SMT DEF dsa_fold
<1>5. QED
  BY SMT, <1>1, <1>2, <1>3, <1>4

(* The last subtraction.                                                   *)
LEMMA FinalExact ==
    ASSUME NEW v \in Nat, v <= 8388607
    PROVE  /\ dsa_final(v) \in Nat
           /\ dsa_final(v) < 8380417
           /\ \E k \in Int : dsa_final(v) = v - 8380417 * k
<1>1. \/ dsa_final(v) = v - 8380417 * 0
      \/ dsa_final(v) = v - 8380417 * 1
  BY SMT DEF dsa_final, CondSub, DSA_Q
<1>2. dsa_final(v) \in Nat /\ dsa_final(v) < 8380417
  BY SMT DEF dsa_final, CondSub, DSA_Q
<1>3. 0 \in Int /\ 1 \in Int
  BY SMT
<1>4. QED
  BY SMT, <1>1, <1>2, <1>3

(* The ML-DSA path: four folds and one subtraction give the residue.       *)
LEMMA DsaExact ==
    ASSUME NEW c \in Nat, c <= 70231372333056
    PROVE  dsa_final(dsa_fold(dsa_fold(dsa_fold(dsa_fold(c))))) % 16777216
               = c % 8380417
<1> DEFINE f1 == dsa_fold(c)
           f2 == dsa_fold(f1)
           f3 == dsa_fold(f2)
           f4 == dsa_fold(f3)
           r == dsa_final(f4)
<1>1. f1 \in Nat /\ f1 <= 68719468544
  BY SMT, FoldRange, FoldIdentity
<1>2. PICK k1 \in Int : f1 = c - 8380417 * k1
  BY SMT, FoldIdentity
<1> HIDE DEF f1
<1>3. f2 \in Nat /\ f2 <= 75472897
  BY SMT, <1>1, FoldRange, FoldIdentity
<1>4. PICK k2 \in Int : f2 = f1 - 8380417 * k2
  BY SMT, <1>1, FoldIdentity
<1> HIDE DEF f2
<1>5. f3 \in Nat /\ f3 <= 8445944
  BY SMT, <1>3, FoldRange, FoldIdentity
<1>6. PICK k3 \in Int : f3 = f2 - 8380417 * k3
  BY SMT, <1>3, FoldIdentity
<1> HIDE DEF f3
<1>7. f4 \in Nat /\ f4 <= 8388607
  BY SMT, <1>5, FoldRange, FoldIdentity
<1>8. PICK k4 \in Int : f4 = f3 - 8380417 * k4
  BY SMT, <1>5, FoldIdentity
<1> HIDE DEF f4
<1>9. r \in Nat /\ r < 8380417 /\ \E k \in Int : r = f4 - 8380417 * k
  BY SMT, <1>7, FinalExact
<1>10. PICK k5 \in Int : r = f4 - 8380417 * k5
  BY SMT, <1>9
<1> HIDE DEF r
<1>11. r = c - 8380417 * (k1 + k2 + k3 + k4 + k5)
  BY SMT, <1>1, <1>2, <1>3, <1>4, <1>5, <1>6, <1>7, <1>8, <1>9, <1>10
<1>12. k1 + k2 + k3 + k4 + k5 \in Int
  BY SMT
<1>13. c % 8380417 = r
  BY SMT, <1>9, <1>11, <1>12, Residue
<1>14. r % 16777216 = r
  BY SMT, <1>9
<1>15. QED
  BY SMT, <1>13, <1>14 DEF r, f4, f3, f2, f1

(* A product of two operands is bounded by the square of their bound.      *)
LEMMA ProductBound ==
    ASSUME NEW a \in Nat, NEW b \in Nat, NEW n \in Nat, a <= n, b <= n
    PROVE  a * b \in Nat /\ a * b <= n * n
<1>1. a * b <= n * b
  BY SMT
<1>2. n * b <= n * n
  BY SMT
<1>3. a * b \in Nat /\ n * b \in Nat /\ n * n \in Nat
  BY SMT
<1>4. QED
  BY SMT, <1>1, <1>2, <1>3

(* The check of stage A accepts exactly the canonical requests.            *)
LEMMA CheckExact ==
    ASSUME NEW r \in Requests
    PROVE  /\ r.id \in 0 .. 3 /\ r.a \in Nat /\ r.b \in Nat
           /\ request_ok(r) <=> Canonical(r)
<1>1. r.id \in 0 .. 3 /\ r.a \in Nat /\ r.b \in Nat
  <2>1. r \in [id : 0 .. 3, a : Nat, b : Nat]
    BY SMT, RequestsAssumption
  <2>2. QED
    BY SMT, <2>1
<1>2. CASE r.id = 0
  BY SMT, <1>1, <1>2 DEF request_ok, selected_modulus, Canonical, KEM_Q
<1>3. CASE r.id = 1
  BY SMT, <1>1, <1>3 DEF request_ok, selected_modulus, Canonical, DSA_Q
<1>4. CASE r.id # 0 /\ r.id # 1
  BY SMT, <1>1, <1>4 DEF request_ok, selected_modulus, Canonical
<1>5. QED
  BY SMT, <1>1, <1>2, <1>3, <1>4

(* The result that the three stages compute from a canonical request is    *)
(* the residue of the product, for both moduli and all operands (lines     *)
(* 93-149; the FORMAL block proves the ranges only).                       *)
THEOREM ReductionExact ==
    ASSUME NEW r \in Requests, Canonical(r), NEW kem \in BOOLEAN,
           kem <=> r.id = 0
    PROVE  stage_c_result(kem, stage_b_data(kem, stage_a_product(r)))
               = Expected(r)
<1> DEFINE c == r.a * r.b
<1>1. stage_a_product(r) = c
  BY SMT, CheckExact DEF stage_a_product
<1>2. CASE r.id = 0
  <2>1. c \in Nat /\ c <= 3328 * 3328
    <3>1. r.a \in Nat /\ r.b \in Nat /\ r.a <= 3328 /\ r.b <= 3328
      BY SMT, <1>2, CheckExact DEF Canonical
    <3>2. QED
      BY SMT, <3>1, ProductBound
  <2>2. c <= 11075584
    BY SMT, <2>1
  <2>3. Expected(r) = c % 3329
    BY SMT, <1>2 DEF Expected
  <2>4. kem
    BY SMT, <1>2
  <2> HIDE DEF c
  <2>5. QED
    BY SMT, <1>1, <2>1, <2>2, <2>3, <2>4, KemExact
       DEF stage_b_data, stage_c_result
<1>3. CASE r.id = 1
  <2>1. c \in Nat /\ c <= 8380416 * 8380416
    <3>1. r.a \in Nat /\ r.b \in Nat /\ r.a <= 8380416 /\ r.b <= 8380416
      BY SMT, <1>3, CheckExact DEF Canonical
    <3>2. QED
      BY SMT, <3>1, ProductBound
  <2>2. c <= 70231372333056
    BY SMT, <2>1
  <2>3. Expected(r) = c % 8380417
    BY SMT, <1>3 DEF Expected
  <2>4. ~kem
    BY SMT, <1>3
  <2> HIDE DEF c
  <2>5. QED
    BY SMT, <1>1, <2>1, <2>2, <2>3, <2>4, DsaExact
       DEF stage_b_data, stage_c_result
<1>4. QED
  BY SMT, <1>2, <1>3 DEF Canonical

-----------------------------------------------------------------------------
Count(valid) == IF valid THEN 1 ELSE 0

(* What a stage holds while it works on the request r.                     *)
Holds1(r) ==
    /\ stage1_kem <=> r.id = 0
    /\ stage1_fault <=> ~Canonical(r)
    /\ stage1_product = stage_a_product(r)
Holds2(r) ==
    /\ stage2_kem <=> r.id = 0
    /\ stage2_fault <=> ~Canonical(r)
    /\ stage2_data = stage_b_data(stage2_kem, stage_a_product(r))
HoldsRsp(r) ==
    /\ rsp_fault <=> ~Canonical(r)
    /\ rsp_product = Expected(r)

FlagsOK ==
    /\ stage1_valid \in BOOLEAN /\ stage1_fault \in BOOLEAN
    /\ stage1_kem \in BOOLEAN
    /\ stage2_valid \in BOOLEAN /\ stage2_fault \in BOOLEAN
    /\ stage2_kem \in BOOLEAN
    /\ rsp_valid \in BOOLEAN /\ rsp_fault \in BOOLEAN

(* The pending requests are, in order, those of the valid stages, the      *)
(* response port first.                                                    *)
InFlight ==
    /\ pending \in Seq(Requests)
    /\ Len(pending)
           = Count(rsp_valid) + Count(stage2_valid) + Count(stage1_valid)
    /\ rsp_valid => HoldsRsp(pending[1])
    /\ stage2_valid => Holds2(pending[Count(rsp_valid) + 1])
    /\ stage1_valid =>
           Holds1(pending[Count(rsp_valid) + Count(stage2_valid) + 1])

Inv == FlagsOK /\ InFlight

(* Taking the oldest element off a sequence, and putting one behind it.    *)
LEMMA TakeOff ==
    ASSUME NEW S, NEW s \in Seq(S), Len(s) > 0
    PROVE  /\ Tail(s) \in Seq(S)
           /\ Len(Tail(s)) = Len(s) - 1
           /\ \A i \in 1 .. (Len(s) - 1) : Tail(s)[i] = s[i + 1]
           /\ Head(s) = s[1]
  BY SMT

LEMMA PutBehind ==
    ASSUME NEW S, NEW s \in Seq(S), NEW x \in S
    PROVE  /\ s \o <<x>> \in Seq(S)
           /\ Len(s \o <<x>>) = Len(s) + 1
           /\ \A i \in 1 .. Len(s) : (s \o <<x>>)[i] = s[i]
           /\ (s \o <<x>>)[Len(s) + 1] = x
           /\ s \o << >> = s
  BY SMT

LEMMA InitInv == Init => Inv
<1>1. Init => FlagsOK
  BY Zenon DEF Init, FlagsOK
<1>2. Init => InFlight
  BY SMT DEF Init, InFlight, Count
<1>3. QED
  BY <1>1, <1>2 DEF Inv

(* The requests that stay when the response leaves.                        *)
Left == IF rsp_valid THEN Tail(pending) ELSE pending

LEMMA LeftBehind ==
    ASSUME Inv
    PROVE  /\ Left \in Seq(Requests)
           /\ Len(Left) = Count(stage2_valid) + Count(stage1_valid)
           /\ stage2_valid => Holds2(Left[1])
           /\ stage1_valid => Holds1(Left[Count(stage2_valid) + 1])
<1> USE DEF Inv, InFlight, Left, Count
<1>1. CASE rsp_valid
  <2>1. /\ Len(pending) > 0
        /\ Len(pending) = 1 + Count(stage2_valid) + Count(stage1_valid)
        /\ pending \in Seq(Requests)
    BY SMT, <1>1
  <2>2. /\ Left \in Seq(Requests)
        /\ Len(Left) = Count(stage2_valid) + Count(stage1_valid)
        /\ \A i \in 1 .. (Len(pending) - 1) : Left[i] = pending[i + 1]
    BY SMT, <1>1, <2>1, TakeOff
  <2>3. stage2_valid => Left[1] = pending[Count(rsp_valid) + 1]
    BY SMT, <1>1, <2>1, <2>2
  <2>4. stage1_valid => Left[Count(stage2_valid) + 1]
                 = pending[Count(rsp_valid) + Count(stage2_valid) + 1]
    BY SMT, <1>1, <2>1, <2>2
  <2> QED
    BY SMT, <2>2, <2>3, <2>4
<1>2. CASE ~rsp_valid
  BY SMT, <1>2
<1>3. QED
  BY <1>1, <1>2

(* Every kind of step preserves the invariant.                             *)
LEMMA ResetInv == Reset => Inv'
<1>1. Reset => FlagsOK'
  BY Zenon DEF Reset, FlagsOK
<1>2. Reset => InFlight'
  BY SMT DEF Reset, InFlight, Count
<1>3. QED
  BY <1>1, <1>2 DEF Inv

LEMMA AdvanceInv ==
    ASSUME Inv, NEW r \in Requests,
           NEW req_valid \in BOOLEAN, NEW rsp_ready \in BOOLEAN,
           Advance(r, req_valid, rsp_ready)
    PROVE  Inv'
<1>1. FlagsOK'
  BY SMT DEF Inv, FlagsOK, Advance
<1>2. pending' = Left \o (IF req_valid THEN <<r>> ELSE << >>)
  BY Zenon DEF Advance, pipeline_advance, Left
<1>3. /\ Left \in Seq(Requests)
      /\ Len(Left) = Count(stage2_valid) + Count(stage1_valid)
  BY SMT, LeftBehind
<1>4. /\ pending' \in Seq(Requests)
      /\ Len(pending') = Len(Left) + Count(req_valid)
      /\ \A i \in 1 .. Len(Left) : pending'[i] = Left[i]
      /\ req_valid => pending'[Len(Left) + 1] = r
  BY SMT, <1>2, <1>3, PutBehind DEF Count
<1>5. /\ rsp_valid' = stage2_valid /\ stage2_valid' = stage1_valid
      /\ stage1_valid' = req_valid
  BY DEF Advance
<1>6. rsp_valid' => HoldsRsp(pending[1])'
  <2>1. SUFFICES ASSUME stage2_valid PROVE HoldsRsp(pending[1])'
    BY <1>5
  <2>2. PICK q \in Requests : q = Left[1]
    BY SMT, <1>3, <2>1, LeftBehind DEF Count, FlagsOK, Inv
  <2>3. pending'[1] = q /\ Holds2(q)
    BY SMT, <1>3, <1>4, <2>1, <2>2, LeftBehind DEF Count, FlagsOK, Inv
  <2>4. Canonical(q) =>
            stage_c_result(stage2_kem, stage2_data) = Expected(q)
    BY SMT, <2>3, ReductionExact DEF Holds2, Inv, FlagsOK
  <2>5. /\ rsp_fault' = stage2_fault
        /\ rsp_product' = IF stage2_fault THEN 0
                          ELSE stage_c_result(stage2_kem, stage2_data)
    BY Zenon DEF Advance
  <2>6. stage2_fault <=> ~Canonical(q)
    BY <2>3 DEF Holds2
  <2>7. rsp_product' = Expected(q)
    BY SMT, <2>4, <2>5, <2>6 DEF Expected
  <2>8. rsp_fault' <=> ~Canonical(q)
    BY Zenon, <2>5, <2>6
  <2>9. QED
    BY Zenon, <2>3, <2>7, <2>8 DEF HoldsRsp
<1>7. stage2_valid' => Holds2(pending[Count(rsp_valid) + 1])'
  <2>1. SUFFICES ASSUME stage1_valid
                 PROVE  Holds2(pending[Count(rsp_valid) + 1])'
    BY <1>5
  <2> DEFINE i == Count(stage2_valid) + 1
  <2>2. pending'[i] = Left[i] /\ Holds1(Left[i])
    BY SMT, <1>3, <1>4, <2>1, LeftBehind DEF Count, FlagsOK, Inv
  <2>3. stage2_kem' = stage1_kem /\ stage2_fault' = stage1_fault
        /\ stage2_data' = stage_b_data(stage1_kem, stage1_product)
    BY DEF Advance
  <2>4. Count(rsp_valid)' + 1 = i
    BY <1>5 DEF Count
  <2> HIDE DEF i
  <2>5. QED
    BY SMT, <2>2, <2>3, <2>4 DEF Holds1, Holds2
<1>8. stage1_valid' =>
          Holds1(pending[Count(rsp_valid) + Count(stage2_valid) + 1])'
  <2>1. SUFFICES ASSUME req_valid
        PROVE  Holds1(pending[Count(rsp_valid) + Count(stage2_valid) + 1])'
    BY <1>5
  <2>2. Count(rsp_valid)' + Count(stage2_valid)' + 1 = Len(Left) + 1
    BY SMT, <1>3, <1>5 DEF Count
  <2>3. pending'[Len(Left) + 1] = r
    BY <1>4, <2>1
  <2>4. stage1_kem' = (r.id = 0) /\ stage1_fault' = ~request_ok(r)
        /\ stage1_product' = stage_a_product(r)
    BY DEF Advance
  <2>5. request_ok(r) <=> Canonical(r)
    BY SMT, CheckExact
  <2>6. QED
    BY Zenon, <2>2, <2>3, <2>4, <2>5 DEF Holds1
<1>9. Len(pending')
          = Count(rsp_valid)' + Count(stage2_valid)' + Count(stage1_valid)'
  BY SMT, <1>3, <1>4, <1>5 DEF Count
<1>10. QED
  BY SMT, <1>1, <1>4, <1>6, <1>7, <1>8, <1>9 DEF Inv, InFlight

(* In every reachable state the stages hold what they should.              *)
LEMMA Invariance == Spec => []Inv
<1>1. Inv /\ [Next]_vars => Inv'
  <2> SUFFICES ASSUME Inv, [Next]_vars PROVE Inv'
    OBVIOUS
  <2>1. CASE Reset
    BY <2>1, ResetInv
  <2>2. ASSUME NEW r \in Requests, NEW req_valid \in BOOLEAN,
               NEW rsp_ready \in BOOLEAN, Advance(r, req_valid, rsp_ready)
        PROVE  Inv'
    BY Zenon, <2>2, AdvanceInv
  <2>3. CASE UNCHANGED vars
    BY Zenon, <2>3 DEF vars, Inv, FlagsOK, InFlight, Holds1, Holds2, HoldsRsp,
                       Count
  <2>4. QED
    BY Zenon, <2>1, <2>2, <2>3 DEF Next, Stall
<1>2. QED
  BY InitInv, <1>1, PTL DEF Spec

(* A response is always the exact answer to the oldest pending request.    *)
THEOREM ResponseIsExact == Spec => []ResponseExact
<1>1. Inv => ResponseExact
  <2> SUFFICES ASSUME Inv, rsp_valid PROVE ResponseExact
    BY DEF ResponseExact
  <2>1. Len(pending) > 0 /\ pending \in Seq(Requests)
    BY SMT DEF Inv, FlagsOK, InFlight, Count
  <2>2. pending # << >> /\ Head(pending) = pending[1]
    BY SMT, <2>1
  <2>3. HoldsRsp(pending[1])
    BY DEF Inv, InFlight
  <2>4. QED
    BY Zenon, <2>2, <2>3 DEF ResponseExact, HoldsRsp
<1>2. QED
  BY Invariance, <1>1, PTL

-----------------------------------------------------------------------------
(* The borrow bit of the model selects what the comparison of the pipeline *)
(* selects, as long as value and modulus stay below the width.             *)
LEMMA BorrowIsSign ==
    ASSUME NEW v \in Nat
    PROVE  /\ v < 8192 => Model!_cond_sub(v, 3329, 8192) = CondSub(v, 3329)
           /\ v < 16777216 =>
                  Model!_cond_sub(v, 8380417, 16777216) = CondSub(v, 8380417)
<1>1. v < 8192 => Model!_cond_sub(v, 3329, 8192) = CondSub(v, 3329)
  BY SMT DEF Model!_cond_sub, CondSub
<1>2. v < 16777216 =>
          Model!_cond_sub(v, 8380417, 16777216) = CondSub(v, 8380417)
  BY SMT DEF Model!_cond_sub, CondSub
<1>3. QED
  BY SMT, <1>1, <1>2

(* One round of the model is one round of the pipeline.                    *)
LEMMA SameRound ==
    ASSUME NEW v \in Nat, v < 16777216
    PROVE  Model!kred2_norm(v) = kred2_norm(v)
<1> DEFINE y == kred(kred(v))
<1>1. y \in Int /\ Within(y, -12, 3571)
  BY SMT, FirstKredRange, SecondKredRange DEF Within
<1>2. Model!k2red(v) = y
  BY SMT DEF Model!k2red, Model!kred, Model!KEM_K, Model!KEM_M, kred
<1> HIDE DEF y
<1> DEFINE w == CondSub(y + 3329, 3329)
<1>3. y + 3329 \in Nat /\ y + 3329 < 8192 /\ w \in Nat /\ w < 8192
  BY SMT, <1>1 DEF Within, CondSub
<1>4. Model!_cond_sub(y + 3329, 3329, 8192) = w
  BY SMT, <1>3, BorrowIsSign
<1> HIDE DEF w
<1>5. Model!_cond_sub(w, 3329, 8192) = CondSub(w, 3329)
  BY SMT, <1>3, BorrowIsSign
<1>6. Model!kem_normalize(y) = kem_normalize(y)
  BY SMT, <1>4, <1>5
     DEF Model!kem_normalize, Model!Q_KEM, kem_normalize, KEM_Q, w
<1>7. QED
  BY SMT, <1>2, <1>6 DEF Model!kred2_norm, kred2_norm, y

(* The model's reductions give the residue.                                *)
LEMMA ModelKem ==
    ASSUME NEW c \in Nat, c <= 11075584
    PROVE  Model!reduce_kem(c) = c % 3329
<1> DEFINE x == kred2_norm(c)
           y == kred2_norm(x * 1353)
<1>1. c < 16777216 /\ c % 16777216 = c
  BY SMT
<1>2. x \in Nat /\ x < 3329
  BY SMT, <1>1, RoundExact
<1>3. Model!kred2_norm(c) = x
  BY SMT, <1>1, SameRound
<1>4. kred2_norm((((kred2_norm(c % 16777216) % 4096) % 4096) * 1353)
                     % 16777216) % 4096 = c % 3329
  BY SMT, KemExact
<1> HIDE DEF x
<1>5. /\ x * 1353 \in Nat /\ x * 1353 < 16777216
      /\ (x * 1353) % 16777216 = x * 1353
      /\ (x % 4096) % 4096 = x
  BY SMT, <1>2
<1>6. Model!kred2_norm(x * 1353) = y /\ y \in Nat /\ y < 3329
  BY SMT, <1>5, SameRound, RoundExact
<1>7. y % 4096 = c % 3329
  BY SMT, <1>1, <1>4, <1>5 DEF x
<1> HIDE DEF y
<1>8. y = c % 3329
  BY SMT, <1>6, <1>7
<1>9. QED
  BY SMT, <1>3, <1>6, <1>8 DEF Model!reduce_kem, Model!KEM_CORR

LEMMA ModelDsa ==
    ASSUME NEW c \in Nat, c <= 70231372333056
    PROVE  Model!reduce_dsa(c) = c % 8380417
<1> DEFINE f1 == dsa_fold(c)
           f2 == dsa_fold(f1)
           f3 == dsa_fold(f2)
           f4 == dsa_fold(f3)
<1>1. f1 \in Nat /\ f1 <= 68719468544
  BY SMT, FoldRange, FoldIdentity
<1> HIDE DEF f1
<1>2. f2 \in Nat /\ f2 <= 75472897
  BY SMT, <1>1, FoldRange, FoldIdentity
<1> HIDE DEF f2
<1>3. f3 \in Nat /\ f3 <= 8445944
  BY SMT, <1>2, FoldRange, FoldIdentity
<1> HIDE DEF f3
<1>4. f4 \in Nat /\ f4 <= 8388607
  BY SMT, <1>3, FoldRange, FoldIdentity
<1>s. \A v : Model!dsa_fold(v) = dsa_fold(v)
  BY SMT DEF Model!dsa_fold, Model!DSA_S, Model!DSA_T, dsa_fold
<1>5. Model!dsa_fold(Model!dsa_fold(Model!dsa_fold(Model!dsa_fold(c)))) = f4
  BY SMT, <1>s DEF f1, f2, f3, f4
<1> HIDE DEF f4
<1>6. Model!_cond_sub(f4, 8380417, 16777216) = dsa_final(f4)
  BY SMT, <1>4, BorrowIsSign DEF dsa_final, DSA_Q
<1>7. dsa_final(f4) % 16777216 = dsa_final(f4)
  BY SMT, <1>4, FinalExact
<1>8. dsa_final(f4) % 16777216 = c % 8380417
  BY SMT, DsaExact DEF f4, f3, f2, f1
<1>9. QED
  BY SMT, <1>5, <1>6, <1>7, <1>8 DEF Model!reduce_dsa, Model!Q_DSA

(* For every request the model returns the residue, or zero and the fault. *)
LEMMA ModelExact ==
    ASSUME NEW r \in Requests
    PROVE  Model!execute(r.id, r.a, r.b)
               = [product |-> Expected(r), fault |-> ~Canonical(r)]
<1>0. r.id \in 0 .. 3 /\ r.a \in Nat /\ r.b \in Nat
  BY SMT, CheckExact
<1>1. Model!request_is_valid(r.id, r.a, r.b) <=> Canonical(r)
  BY SMT, <1>0 DEF Model!request_is_valid, Model!modulus_for_id, Canonical,
     Model!MODULUS_ID_KEM, Model!MODULUS_ID_DSA, Model!Q_KEM, Model!Q_DSA
<1>2. CASE ~Canonical(r)
  <2>1. Expected(r) = 0
    BY SMT, <1>2 DEF Expected
  <2>2. QED
    BY Zenon, <1>1, <1>2, <2>1 DEF Model!execute
<1>3. CASE Canonical(r) /\ r.id = 0
  <2>1. /\ 0 <= r.a /\ r.a < 3329 /\ 0 <= r.b /\ r.b < 3329
        /\ r.a <= 3328 /\ r.b <= 3328
    BY SMT, <1>0, <1>3 DEF Canonical
  <2>2. r.a * r.b \in Nat /\ r.a * r.b <= 3328 * 3328
    BY SMT, <1>0, <2>1, ProductBound
  <2>3. Model!reduce_kem(r.a * r.b) = (r.a * r.b) % 3329
    BY SMT, <2>2, ModelKem
  <2>4. Model!modulus_for_id(r.id) = 3329
    BY SMT, <1>3 DEF Model!modulus_for_id, Model!MODULUS_ID_KEM, Model!Q_KEM
  <2>5. Model!mulmod(r.a, r.b, 3329) = (r.a * r.b) % 3329
    BY SMT, <2>1, <2>3 DEF Model!mulmod, Model!mulmod_kem,
                      Model!_require_canonical, Model!Q_KEM
  <2>6. Expected(r) = (r.a * r.b) % 3329
    BY SMT, <1>3 DEF Expected
  <2>7. Expected(r) = Model!mulmod(r.a, r.b, Model!modulus_for_id(r.id))
    BY SMT, <2>4, <2>5, <2>6
  <2>8. QED
    BY Zenon, <1>1, <1>3, <2>7 DEF Model!execute
<1>4. CASE Canonical(r) /\ r.id = 1
  <2>1. /\ 0 <= r.a /\ r.a < 8380417 /\ 0 <= r.b /\ r.b < 8380417
        /\ r.a <= 8380416 /\ r.b <= 8380416
    BY SMT, <1>0, <1>4 DEF Canonical
  <2>2. r.a * r.b \in Nat /\ r.a * r.b <= 8380416 * 8380416
    BY SMT, <1>0, <2>1, ProductBound
  <2>3. Model!reduce_dsa(r.a * r.b) = (r.a * r.b) % 8380417
    BY SMT, <2>2, ModelDsa
  <2>4. Model!modulus_for_id(r.id) = 8380417
    BY SMT, <1>4 DEF Model!modulus_for_id, Model!MODULUS_ID_KEM,
                Model!MODULUS_ID_DSA, Model!Q_DSA
  <2>5. Model!mulmod(r.a, r.b, 8380417) = (r.a * r.b) % 8380417
    BY SMT, <2>1, <2>3 DEF Model!mulmod, Model!mulmod_dsa,
                      Model!_require_canonical, Model!Q_KEM, Model!Q_DSA
  <2>6. Expected(r) = (r.a * r.b) % 8380417
    BY SMT, <1>4 DEF Expected
  <2>7. Expected(r) = Model!mulmod(r.a, r.b, Model!modulus_for_id(r.id))
    BY SMT, <2>4, <2>5, <2>6
  <2>8. QED
    BY Zenon, <1>1, <1>4, <2>7 DEF Model!execute
<1>5. QED
  BY SMT, <1>2, <1>3, <1>4 DEF Canonical

(* Every answer of the pipeline is the answer of model/fastmod.py, for all *)
(* requests, with ML-DSA products of any size (TLC's stay below 2^31).     *)
THEOREM ModelMatched == Spec => []MatchesModel
<1>1. Inv => MatchesModel
  <2> SUFFICES ASSUME Inv, rsp_valid
               PROVE  Model!execute(Head(pending).id, Head(pending).a,
                                    Head(pending).b)
                          = [product |-> rsp_product, fault |-> rsp_fault]
    BY DEF MatchesModel
  <2>1. Len(pending) > 0 /\ pending \in Seq(Requests)
    BY SMT DEF Inv, FlagsOK, InFlight, Count
  <2>2. Head(pending) = pending[1] /\ Head(pending) \in Requests
    BY SMT, <2>1
  <2>3. HoldsRsp(Head(pending)) /\ rsp_fault \in BOOLEAN
    BY <2>2 DEF Inv, InFlight, FlagsOK
  <2>4. rsp_fault = ~Canonical(Head(pending))
    BY Zenon, <2>3 DEF HoldsRsp
  <2>5. QED
    BY Zenon, <2>2, <2>3, <2>4, ModelExact DEF HoldsRsp
<1>2. QED
  BY Invariance, <1>1, PTL

-----------------------------------------------------------------------------
(* After a step the response port shows what the abstract pipeline shows.  *)
LEMMA PortShown ==
    ASSUME Inv'
    PROVE  (IF ~rsp_valid THEN -2 ELSE IF rsp_fault THEN -1 ELSE rsp_product)'
               = (IF rsp_valid'
                  THEN [r \in Requests |->
                          IF Canonical(r) THEN Expected(r) ELSE -1]
                            [Head(pending')]
                  ELSE -2)
<1>1. CASE rsp_valid'
  <2>1. Len(pending') > 0 /\ pending' \in Seq(Requests)
    BY SMT, <1>1 DEF Inv, FlagsOK, InFlight, Count
  <2>2. Head(pending') \in Requests /\ Head(pending') = pending'[1]
    BY SMT, <2>1
  <2>3. /\ rsp_fault' <=> ~Canonical(Head(pending'))
        /\ rsp_product' = Expected(Head(pending'))
    BY Zenon, <1>1, <2>2 DEF Inv, InFlight, HoldsRsp
  <2>4. QED
    BY Zenon, <1>1, <2>2, <2>3
<1>2. CASE ~rsp_valid'
  BY Zenon, <1>2
<1>3. QED
  BY <1>1, <1>2

Due == [k \in 0 .. 2 |-> IF k = 0 THEN rsp_valid
                         ELSE IF k = 1 THEN stage2_valid ELSE stage1_valid]

(* An edge moves the flags of the stages along.                            *)
LEMMA DueMoves ==
    ASSUME NEW r \in Requests, NEW req_valid \in BOOLEAN,
           NEW rsp_ready \in BOOLEAN, Advance(r, req_valid, rsp_ready),
           NEW taken, taken = req_valid
    PROVE  Due' = [k \in 0 .. 2 |-> IF k = 2 THEN taken ELSE Due[k + 1]]
<1>1. /\ rsp_valid' = stage2_valid /\ stage2_valid' = stage1_valid
      /\ stage1_valid' = taken
  BY DEF Advance
<1>2. \A k \in 0 .. 2 : k = 0 \/ k = 1 \/ k = 2
  BY SMT
<1>3. /\ 0 + 1 = 1 /\ 1 + 1 = 2 /\ 0 # 1 /\ 1 # 2 /\ 0 # 2
      /\ 1 \in 0 .. 2 /\ 2 \in 0 .. 2
  BY SMT
<1>4. Due[1] = stage2_valid /\ Due[2] = stage1_valid
  BY Zenon, <1>3 DEF Due
<1>5. ASSUME NEW k \in 0 .. 2
      PROVE  (IF k = 0 THEN rsp_valid
              ELSE IF k = 1 THEN stage2_valid ELSE stage1_valid)'
                 = (IF k = 2 THEN taken ELSE Due[k + 1])
  BY Zenon, <1>1, <1>2, <1>3, <1>4
<1>6. Due' = [k \in 0 .. 2 |->
                (IF k = 0 THEN rsp_valid
                 ELSE IF k = 1 THEN stage2_valid ELSE stage1_valid)']
  BY DEF Due
<1>7. QED
  BY Zenon, <1>5, <1>6

(* A step that is not held up is the abstract step with the request it     *)
(* takes, if any.                                                          *)
LEMMA AdvanceRefines ==
    ASSUME Inv, Inv', NEW r \in Requests, NEW req_valid \in BOOLEAN,
           NEW rsp_ready \in BOOLEAN, Advance(r, req_valid, rsp_ready)
    PROVE  Server!Next
<1> DEFINE new == IF req_valid THEN <<r>> ELSE << >>
           taken == new # << >>
<1>1. new # << >> <=> req_valid
  BY SMT
<1>2. taken = req_valid
  BY Zenon, <1>1
<1>3. Due[0] = rsp_valid /\ Due'[0] = rsp_valid'
  <2>1. 0 \in 0 .. 2
    BY SMT
  <2>2. QED
    BY Zenon, <2>1 DEF Due
<1>4. pending' = (IF Due[0] THEN Tail(pending) ELSE pending) \o new
  BY Zenon, <1>3 DEF Advance, pipeline_advance
<1>5. Due' = [k \in 0 .. 2 |-> IF k = 2 THEN taken ELSE Due[k + 1]]
  <2> HIDE DEF taken
  <2>1. QED
    BY <1>2, DueMoves
<1>6. (IF ~rsp_valid THEN -2 ELSE IF rsp_fault THEN -1 ELSE rsp_product)'
          = IF Due'[0]
            THEN [q \in Requests |->
                    IF Canonical(q) THEN Expected(q) ELSE -1][Head(pending')]
            ELSE -2
  BY Zenon, <1>3, PortShown
<1>7. Server!Advance(new)
  BY Zenon, <1>4, <1>5, <1>6 DEF Server!Advance, Server!Shown, Due
<1>8. new = << >> \/ new = <<r>>
  BY Zenon
<1>9. QED
  BY Zenon, <1>7, <1>8 DEF Server!Next

(* The pipelined multiplier implements the abstract pipeline.              *)
THEOREM PipelineImplemented == Spec => ImplementsPipeline
<1>1. Init => Server!Init
  <2> SUFFICES ASSUME Init PROVE Server!Init
    OBVIOUS
  <2>1. pending = << >> /\ ~rsp_valid
    BY DEF Init
  <2>2. Due = [k \in 0 .. 2 |-> FALSE]
    BY Zenon DEF Init, Due
  <2>3. QED
    BY Zenon, <2>1, <2>2 DEF Server!Init, Due
<1>2. Inv /\ Inv' /\ [Next]_vars => [Server!Next]_(Server!pipeVars)
  <2> SUFFICES ASSUME Inv, Inv', [Next]_vars
               PROVE  [Server!Next]_(Server!pipeVars)
    OBVIOUS
  <2>1. CASE Reset
    <3>1. pending' = << >> /\ ~rsp_valid'
      BY <2>1 DEF Reset
    <3>2. Due' = [k \in 0 .. 2 |-> FALSE]
      BY Zenon, <2>1 DEF Reset, Due
    <3>3. Server!Cancel
      BY Zenon, <3>1, <3>2 DEF Server!Cancel, Due
    <3>4. QED
      BY <3>3 DEF Server!Next
  <2>2. ASSUME NEW r \in Requests, NEW req_valid \in BOOLEAN,
               NEW rsp_ready \in BOOLEAN, Advance(r, req_valid, rsp_ready)
        PROVE  Server!Next
    BY Zenon, <2>2, AdvanceRefines
  <2>3. CASE UNCHANGED vars
    BY Zenon, <2>3 DEF vars, Server!pipeVars
  <2>4. QED
    BY Zenon, <2>1, <2>2, <2>3 DEF Next, Stall
<1>3. QED
  BY <1>1, <1>2, Invariance, PTL DEF Spec, ImplementsPipeline, Server!Spec
=============================================================================
