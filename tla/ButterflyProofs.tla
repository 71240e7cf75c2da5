-------------------------- MODULE ButterflyProofs ---------------------------
(***************************************************************************)
(* Proofs about the serial multiplier and the butterfly that drives it,    *)
(* for every word width and every pair of moduli.  Of the multiplier, in   *)
(* any surroundings: the registers keep their widths, a response is the    *)
(* residue of the requested product, and it implements the abstract server *)
(* MulServer.  Of the butterfly: it answers every request as modarith.py.  *)
(***************************************************************************)
EXTENDS Butterfly, TLAPS, WellFoundedInduction

(* A dividend smaller than the divisor is its own remainder.               *)
LEMMA SmallMod ==
    ASSUME NEW x \in Nat, NEW m \in Nat, x < m
    PROVE  x % m = x
  OBVIOUS

(* The quotient and remainder of a division are unique.                    *)
LEMMA ResidueUnique ==
    ASSUME NEW q \in Nat, NEW r \in Nat, r < q, NEW k \in Nat
    PROVE  (r + k * q) % q = r
  OBVIOUS

(* A word splits into its lowest bit and the rest (multiplier >> 1).       *)
LEMMA LowBit ==
    ASSUME NEW n \in Nat
    PROVE  /\ n \div 2 \in Nat
           /\ n % 2 \in {0, 1}
           /\ n = 2 * (n \div 2) + (n % 2)
  OBVIOUS

(* The size of a word is a positive number.                                *)
LEMMA MulWordSize ==
    /\ 2^WORD_BITS \in Nat \ {0}
    /\ \A w : w \in Mul!Word <=> (w \in Nat /\ w < 2^WORD_BITS)
<1>1. 2^WORD_BITS \in Nat \ {0}
  BY WordBitsAssumption, PowerAssumption
<1>2. QED
  BY <1>1 DEF Mul!Word

(* add_mod fits in a word.                                                 *)
LEMMA AddModWord ==
    ASSUME NEW x \in Mul!Word, NEW y \in Mul!Word, NEW q \in Mul!Word
    PROVE  Mul!add_mod(x, y, q) \in Mul!Word
<1>1. \A z \in Nat : z % 2^WORD_BITS \in Mul!Word
  BY MulWordSize
<1>2. x \in Nat /\ y \in Nat /\ q \in Nat
  BY MulWordSize
<1>3. QED
  BY <1>1, <1>2 DEF Mul!add_mod

(* On reduced words add_mod is addition modulo q: truncation loses nothing *)
(* and at most one subtraction is needed.                                  *)
LEMMA MulAddModReduced ==
    ASSUME NEW q \in Mul!Word, NEW x \in Nat, NEW y \in Nat, x < q, y < q
    PROVE  /\ Mul!add_mod(x, y, q) \in Nat
           /\ Mul!add_mod(x, y, q) < q
           /\ \E e \in {0, 1} : Mul!add_mod(x, y, q) + e * q = x + y
<1>1. q \in Nat /\ q < 2^WORD_BITS /\ 2^WORD_BITS \in Nat
  BY MulWordSize
<1>2. CASE x + y >= q
  <2>1. x + y - q \in Nat /\ x + y - q < q
    BY <1>1, <1>2
  <2>2. Mul!add_mod(x, y, q) = x + y - q
    BY <1>1, <1>2, <2>1, SmallMod DEF Mul!add_mod
  <2>3. QED
    BY <1>1, <2>1, <2>2
<1>3. CASE ~(x + y >= q)
  <2>1. Mul!add_mod(x, y, q) = x + y
    BY <1>1, <1>3, SmallMod DEF Mul!add_mod
  <2>2. QED
    BY <1>1, <1>3, <2>1
<1>4. QED
  BY <1>2, <1>3
-----------------------------------------------------------------------------
(* The identity behind one iteration: subtracting the modulus e1 times     *)
(* from the sum and e2 times from the doubled multiplicand only moves      *)
(* multiples of the modulus.                                               *)
LEMMA IterationIdentity ==
    ASSUME NEW p \in Int, NEW c \in Int, NEW h \in Int, NEW bit \in {0, 1},
           NEW k \in Int, NEW q \in Int, NEW t \in Int,
           NEW p2 \in Int, NEW c2 \in Int, NEW e1 \in Int, NEW e2 \in Int,
           p + c * (2 * h + bit) + k * q = t,
           p2 + e1 * q = p + bit * c,
           c2 + e2 * q = c + c
    PROVE  p2 + c2 * h + (k + e1 + e2 * h) * q = t
  OBVIOUS

(* The multiple of the modulus that has been dropped is bounded.           *)
LEMMA MultipleBound ==
    ASSUME NEW x \in Nat, NEW k \in Nat, NEW q \in Nat, q > 0,
           NEW t \in Nat, x + k * q = t
    PROVE  k \in 0 .. t
<1>1. k * q >= k
  OBVIOUS
<1>2. k * q \in Nat
  OBVIOUS
<1>3. QED
  BY <1>1, <1>2

MulInv ==
    /\ Mul!TypeOK /\ Mul!WorkInvariant
    /\ Mul!ResponseCorrect /\ Mul!OneAtATime

(* What an edge samples has its type.                                      *)
LEMMA SampleTyped ==
    ASSUME Mul!TypeOK, NEW reset \in BOOLEAN, NEW req_valid \in BOOLEAN,
           NEW rsp_ready \in BOOLEAN, Mul!Sample(reset, req_valid, rsp_ready)
    PROVE  /\ mul_pins' \in Mul!Server!Pins
           /\ mul_pins'.clk = 1 - mul_pins.clk
           /\ mul_pins'.reset = reset /\ mul_pins'.req_valid = req_valid
           /\ mul_pins'.rsp_ready = rsp_ready
<1>1. mul_pins.clk \in {0, 1}
  BY DEF Mul!TypeOK
<1>2. 1 - mul_pins.clk \in {0, 1}
  BY <1>1
<1>3. QED
  BY <1>2 DEF Mul!Sample, Mul!Server!Pins

(* The registers keep their widths on every edge.                          *)
LEMMA MulTypePreserved == Mul!TypeOK /\ [Mul!Next]_(Mul!vars) => Mul!TypeOK'
<1> SUFFICES ASSUME Mul!TypeOK, [Mul!Next]_(Mul!vars) PROVE Mul!TypeOK'
  OBVIOUS
<1>w. /\ 0 \in Mul!Word
      /\ 0 \in 0 .. (WORD_BITS - 1)
      /\ \A w \in Mul!Word : w \in Nat /\ w \div 2 \in Mul!Word
  BY MulWordSize, WordBitsAssumption
<1> DEFINE PinsOK == mul_pins' \in [clk : {0, 1}, reset : BOOLEAN,
                                    req_valid : BOOLEAN, rsp_ready : BOOLEAN]
<1>1. CASE Mul!Reset
  <2>1. PinsOK
    BY <1>1, SampleTyped DEF Mul!Reset, Mul!Server!Pins
  <2>2. QED
    BY <1>1, <1>w, <2>1 DEF Mul!TypeOK, Mul!Reset
<1>2. ASSUME NEW rsp_ready \in BOOLEAN, NEW a \in Mul!Word, NEW b \in Mul!Word,
             NEW q \in Mul!Word, Mul!Accept(a, b, q, rsp_ready)
      PROVE  Mul!TypeOK'
  <2>1. PinsOK
    BY <1>2, SampleTyped DEF Mul!Accept, Mul!Server!Pins
  <2>2. QED
    BY <1>2, <1>w, <2>1 DEF Mul!TypeOK, Mul!Accept, Mul!RspHeld, Mul!Request
<1>3. ASSUME NEW req_valid \in BOOLEAN, NEW rsp_ready \in BOOLEAN,
             Mul!Iterate(req_valid, rsp_ready)
      PROVE  Mul!TypeOK'
  <2>1. Mul!product_next \in Mul!Word /\ Mul!multiplicand_next \in Mul!Word
    BY AddModWord DEF Mul!TypeOK, Mul!product_next, Mul!multiplicand_next
  <2>2. count' \in 0 .. (WORD_BITS - 1)
    <3>1. count' = count \/ (count # WORD_BITS - 1 /\ count' = count + 1)
      BY <1>3 DEF Mul!Iterate
    <3>2. QED
      BY <3>1, WordBitsAssumption DEF Mul!TypeOK
  <2>3. PinsOK
    BY <1>3, SampleTyped DEF Mul!Iterate, Mul!Server!Pins
  <2>4. QED
    BY <1>3, <1>w, <2>1, <2>2, <2>3 DEF Mul!TypeOK, Mul!Iterate, Mul!RspHeld
<1>4. ASSUME NEW req_valid \in BOOLEAN, NEW rsp_ready \in BOOLEAN,
             Mul!Rest(req_valid, rsp_ready)
      PROVE  Mul!TypeOK'
  <2>1. PinsOK
    BY <1>4, SampleTyped DEF Mul!Rest, Mul!Server!Pins
  <2>2. QED
    BY <1>4, <2>1 DEF Mul!TypeOK, Mul!Rest, Mul!RspHeld
<1>5. CASE UNCHANGED Mul!vars
  BY <1>5 DEF Mul!TypeOK, Mul!vars, Mul!regs
<1>6. QED
  BY <1>1, <1>2, <1>3, <1>4, <1>5 DEF Mul!Next, Mul!Edge

(* One iteration preserves the arithmetic part of the work invariant, and  *)
(* leaves a multiplier that fits in the bits that remain.                  *)
LEMMA IterateArithmetic ==
    ASSUME Mul!TypeOK, Mul!WorkInvariant, busy
    PROVE  /\ multiplier \div 2 < 2^(WORD_BITS - count - 1)
           /\ Mul!Reduced =>
                /\ Mul!product_next \in Nat
                /\ Mul!product_next < modulus
                /\ Mul!multiplicand_next < modulus
                /\ \E k \in 0 .. (mul_request.a * mul_request.b) :
                     Mul!product_next
                         + Mul!multiplicand_next * (multiplier \div 2)
                         + k * modulus = mul_request.a * mul_request.b
<1> DEFINE h == multiplier \div 2
           bit == multiplier % 2
           n == WORD_BITS - count - 1
           t == mul_request.a * mul_request.b
<1>1. /\ product \in Nat /\ multiplicand \in Nat /\ multiplier \in Nat
      /\ modulus \in Nat /\ modulus \in Mul!Word
      /\ mul_request.a \in Nat /\ mul_request.b \in Nat /\ mul_request.q \in Nat
      /\ count \in 0 .. (WORD_BITS - 1)
      /\ mul_request.q = modulus
  BY MulWordSize DEF Mul!TypeOK, Mul!Request, Mul!WorkInvariant
<1>2. h \in Nat /\ bit \in {0, 1} /\ multiplier = 2 * h + bit
  BY <1>1, LowBit
<1>3. h < 2^n
  <2>1. n \in 0 .. (WORD_BITS - 1) /\ WORD_BITS - count = n + 1
    BY <1>1, WordBitsAssumption
  <2>2. multiplier < 2 * 2^n /\ 2^n \in Nat
    BY <2>1, PowerAssumption, WordBitsAssumption DEF Mul!WorkInvariant
  <2>3. QED
    BY <1>2, <2>2
<1>4. ASSUME Mul!Reduced
      PROVE  /\ Mul!product_next \in Nat
             /\ Mul!product_next < modulus
             /\ Mul!multiplicand_next < modulus
             /\ \E k \in 0 .. t :
                  Mul!product_next + Mul!multiplicand_next * h + k * modulus = t
  <2>1. /\ product < modulus
        /\ multiplicand < modulus
        /\ \E k \in 0 .. t :
             product + multiplicand * multiplier + k * modulus = t
    BY <1>4 DEF Mul!WorkInvariant
  <2>2. PICK k \in 0 .. t :
            product + multiplicand * multiplier + k * modulus = t
    BY <2>1
  <2>t. t \in Nat /\ k \in Nat
    BY <1>1
  <2>3. /\ Mul!product_next \in Nat
        /\ Mul!product_next < modulus
        /\ \E e \in {0, 1} :
             Mul!product_next + e * modulus = product + bit * multiplicand
    <3>1. CASE bit = 1
      BY <3>1, <1>1, <2>1, MulAddModReduced DEF Mul!product_next
    <3>2. CASE bit = 0
      BY <3>2, <1>1, <2>1 DEF Mul!product_next
    <3>3. QED
      BY <3>1, <3>2, <1>2
  <2>4. /\ Mul!multiplicand_next \in Nat
        /\ Mul!multiplicand_next < modulus
        /\ \E e \in {0, 1} : Mul!multiplicand_next + e * modulus
                                 = multiplicand + multiplicand
    BY <1>1, <2>1, MulAddModReduced DEF Mul!multiplicand_next
  <2>5. PICK e1 \in {0, 1} :
            Mul!product_next + e1 * modulus = product + bit * multiplicand
    BY <2>3
  <2>6. PICK e2 \in {0, 1} :
            Mul!multiplicand_next + e2 * modulus = multiplicand + multiplicand
    BY <2>4
  <2>7. product + multiplicand * (2 * h + bit) + k * modulus = t
    BY <2>2, <1>2
  <2> DEFINE k2 == k + e1 + e2 * h
             x2 == Mul!product_next + Mul!multiplicand_next * h
  <2>8. x2 + k2 * modulus = t
    <3> HIDE DEF h, bit, t
    <3>1. /\ e1 \in Int /\ e2 \in Int /\ h \in Int /\ k \in Int /\ t \in Int
          /\ product \in Int /\ multiplicand \in Int /\ modulus \in Int
          /\ Mul!product_next \in Int /\ Mul!multiplicand_next \in Int
      BY <1>1, <1>2, <2>t, <2>3, <2>4
    <3>2. QED
      BY <3>1, <1>2, <2>5, <2>6, <2>7, IterationIdentity
  <2>9. k2 \in Nat /\ x2 \in Nat
    <3> HIDE DEF h, t
    <3>1. e2 * h \in Nat
      BY <1>2
    <3>2. Mul!multiplicand_next * h \in Nat
      BY <1>2, <2>4
    <3>3. QED
      BY <3>1, <3>2, <2>t, <2>3
  <2>10. k2 \in 0 .. t
    <3> HIDE DEF k2, x2, t
    <3>1. QED
      BY <2>8, <2>9, <2>t, <1>1, <2>1, MultipleBound
  <2>11. QED
    BY <2>3, <2>4, <2>8, <2>10
<1>5. QED
  BY <1>3, <1>4

(* The conjuncts of the inductive invariant survive one iteration.         *)
LEMMA MulIteratePreserves ==
    ASSUME MulInv, NEW req_valid \in BOOLEAN, NEW rsp_ready \in BOOLEAN,
             Mul!Iterate(req_valid, rsp_ready)
    PROVE  Mul!WorkInvariant' /\ Mul!ResponseCorrect' /\ Mul!OneAtATime'
<1>1. Mul!TypeOK /\ Mul!WorkInvariant /\ busy
  BY DEF MulInv, Mul!Iterate
<1>2. /\ multiplier \div 2 < 2^(WORD_BITS - count - 1)
      /\ Mul!Reduced =>
           /\ Mul!product_next \in Nat
           /\ Mul!product_next < modulus
           /\ Mul!multiplicand_next < modulus
           /\ \E k \in 0 .. (mul_request.a * mul_request.b) :
                Mul!product_next + Mul!multiplicand_next * (multiplier \div 2)
                    + k * modulus = mul_request.a * mul_request.b
  BY <1>1, IterateArithmetic
<1>3. /\ product' = Mul!product_next
      /\ multiplicand' = Mul!multiplicand_next
      /\ multiplier' = multiplier \div 2
      /\ modulus' = modulus /\ mul_request' = mul_request
      /\ modulus = mul_request.q
      /\ ~mul_rsp_valid
      /\ count \in Nat /\ WORD_BITS \in Nat
  BY <1>1, WordBitsAssumption
     DEF Mul!Iterate, Mul!WorkInvariant, MulInv, Mul!OneAtATime, Mul!TypeOK
<1>4. CASE count = WORD_BITS - 1
  <2>1. /\ busy' = FALSE /\ mul_rsp_valid' = TRUE
        /\ mul_product' = Mul!product_next
    BY <1>4 DEF Mul!Iterate
  <2>2. ASSUME Mul!Reduced
        PROVE  Mul!product_next
                   = (mul_request.a * mul_request.b) % mul_request.q
    <3>1. WORD_BITS - count - 1 = 0
      BY <1>3, <1>4
    <3>2. multiplier \div 2 = 0
      <4>1. multiplier \div 2 \in Nat
        BY <1>1, LowBit, MulWordSize DEF Mul!TypeOK
      <4>2. multiplier \div 2 < 1
        BY <1>2, <3>1, PowerAssumption
      <4>3. QED
        BY <4>1, <4>2
    <3>3. /\ Mul!multiplicand_next \in Nat /\ modulus \in Nat
          /\ mul_request.a * mul_request.b \in Nat
      <4>1. Mul!multiplicand_next \in Mul!Word
        BY <1>1, AddModWord DEF Mul!multiplicand_next, Mul!TypeOK
      <4>2. QED
        BY <1>1, <4>1, MulWordSize DEF Mul!TypeOK, Mul!Request
    <3>4. PICK k \in 0 .. (mul_request.a * mul_request.b) :
              Mul!product_next + Mul!multiplicand_next * (multiplier \div 2)
                  + k * modulus = mul_request.a * mul_request.b
      BY <1>2, <2>2
    <3>5. /\ k \in Nat
          /\ Mul!product_next + k * modulus = mul_request.a * mul_request.b
      <4>1. Mul!product_next + Mul!multiplicand_next * 0 + k * modulus
                = mul_request.a * mul_request.b
        BY <3>2, <3>4
      <4>2. k \in Nat /\ Mul!product_next \in Nat
        BY <3>3, <1>2, <2>2
      <4>3. QED
        BY <4>1, <4>2, <3>3
    <3>6. QED
      BY <3>3, <3>5, <1>2, <1>3, <2>2, ResidueUnique
  <2>3. QED
    BY <1>3, <2>1, <2>2
       DEF Mul!WorkInvariant, Mul!ResponseCorrect, Mul!OneAtATime, Mul!Reduced
<1>5. CASE count # WORD_BITS - 1
  <2>1. count' = count + 1 /\ ~mul_rsp_valid' /\ busy' = busy
    BY <1>3, <1>5 DEF Mul!Iterate, Mul!RspHeld
  <2>2. WORD_BITS - count' = WORD_BITS - count - 1
    BY <2>1, <1>3
  <2>3. Mul!WorkInvariant'
    BY <1>2, <1>3, <2>1, <2>2 DEF Mul!WorkInvariant, Mul!Reduced
  <2>4. QED
    BY <2>1, <2>3 DEF Mul!ResponseCorrect, Mul!OneAtATime
<1>6. QED
  BY <1>4, <1>5

(* A freshly loaded request satisfies the work invariant.                  *)
LEMMA MulAcceptPreserves ==
    ASSUME MulInv, NEW rsp_ready \in BOOLEAN,
           NEW a \in Mul!Word, NEW b \in Mul!Word,
           NEW q \in Mul!Word, Mul!Accept(a, b, q, rsp_ready)
    PROVE  Mul!WorkInvariant' /\ Mul!ResponseCorrect' /\ Mul!OneAtATime'
<1>1. /\ busy' /\ ~mul_rsp_valid'
      /\ count' = 0 /\ product' = 0
      /\ multiplicand' = a /\ multiplier' = b /\ modulus' = q
      /\ mul_request' = [a |-> a, b |-> b, q |-> q]
  BY DEF Mul!Accept, Mul!RspHeld, Mul!req_ready
<1>2. a \in Nat /\ b \in Nat /\ q \in Nat /\ b < 2^WORD_BITS
  BY MulWordSize
<1>3. multiplier' < 2^(WORD_BITS - count')
  <2>1. WORD_BITS - count' = WORD_BITS
    BY <1>1, WordBitsAssumption
  <2>2. QED
    BY <1>1, <1>2, <2>1
<1>4. ASSUME a < q
      PROVE  /\ 0 < q
             /\ \E k \in 0 .. (a * b) : 0 + a * b + k * q = a * b
  <2>1. 0 + a * b + 0 * q = a * b /\ 0 \in 0 .. (a * b)
    BY <1>2
  <2>2. QED
    BY <1>2, <1>4, <2>1
<1>5. Mul!WorkInvariant'
  <2>1. Mul!Reduced' <=> a < q
    BY <1>1 DEF Mul!Reduced
  <2>2. QED
    BY <1>1, <1>3, <1>4, <2>1 DEF Mul!WorkInvariant
<1>6. QED
  BY <1>1, <1>5 DEF Mul!ResponseCorrect, Mul!OneAtATime

(* The invariant is inductive.                                             *)
LEMMA MulInductive == MulInv /\ [Mul!Next]_(Mul!vars) => MulInv'
<1> SUFFICES ASSUME MulInv, [Mul!Next]_(Mul!vars) PROVE MulInv'
  OBVIOUS
<1>0. Mul!TypeOK'
  BY MulTypePreserved DEF MulInv
<1>1. CASE Mul!Reset
  BY <1>0, <1>1
     DEF MulInv, Mul!Reset, Mul!WorkInvariant, Mul!ResponseCorrect,
         Mul!OneAtATime
<1>2. ASSUME NEW rsp_ready \in BOOLEAN, NEW a \in Mul!Word, NEW b \in Mul!Word,
             NEW q \in Mul!Word, Mul!Accept(a, b, q, rsp_ready)
      PROVE  MulInv'
  BY <1>0, <1>2, MulAcceptPreserves DEF MulInv
<1>3. ASSUME NEW req_valid \in BOOLEAN, NEW rsp_ready \in BOOLEAN,
             Mul!Iterate(req_valid, rsp_ready)
      PROVE  MulInv'
  BY <1>0, <1>3, MulIteratePreserves DEF MulInv
<1>4. ASSUME NEW req_valid \in BOOLEAN, NEW rsp_ready \in BOOLEAN,
             Mul!Rest(req_valid, rsp_ready)
      PROVE  MulInv'
  BY <1>0, <1>4
     DEF MulInv, Mul!Rest, Mul!RspHeld, Mul!WorkInvariant,
         Mul!ResponseCorrect,
                    Mul!OneAtATime, Mul!Reduced
<1>5. CASE UNCHANGED Mul!vars
  BY <1>0, <1>5
     DEF MulInv, Mul!vars, Mul!regs, Mul!WorkInvariant, Mul!ResponseCorrect,
                    Mul!OneAtATime, Mul!Reduced
<1>6. QED
  BY <1>1, <1>2, <1>3, <1>4, <1>5 DEF Mul!Next, Mul!Edge

(* It holds initially.                                                     *)
LEMMA MulInitInv == Mul!Init => MulInv
<1> SUFFICES ASSUME Mul!Init PROVE MulInv
  OBVIOUS
<1>1. 0 \in Mul!Word /\ 0 \in 0 .. (WORD_BITS - 1)
  BY MulWordSize, WordBitsAssumption
<1>2. Mul!TypeOK
  BY <1>1 DEF Mul!Init, Mul!TypeOK, Mul!Request
<1>3. QED
  BY <1>2
     DEF Mul!Init, MulInv, Mul!WorkInvariant, Mul!ResponseCorrect,
         Mul!OneAtATime

(* The invariant holds throughout every behaviour.                         *)
THEOREM MulInvAlways == Mul!Spec => []MulInv
  BY MulInitInv, MulInductive, PTL DEF Mul!Spec

(* Every register of lca_modmul keeps its declared width, at every width.  *)
THEOREM MulTypeCorrect == Mul!Spec => []Mul!TypeOK
<1>1. MulInv => Mul!TypeOK
  BY DEF MulInv
<1>2. QED
  BY MulInvAlways, <1>1, PTL

(* For every word width and every reduced request, the response that       *)
(* lca_modmul presents is the residue of the product.                      *)
THEOREM ResponseIsResidue == Mul!Spec => []Mul!ResponseCorrect
<1>1. MulInv => Mul!ResponseCorrect
  BY DEF MulInv
<1>2. QED
  BY MulInvAlways, <1>1, PTL

(* Each edge of the multiplier is a step of the abstract server, or none.  *)
LEMMA MulStepRefines ==
    ASSUME MulInv, MulInv', [Mul!Next]_(Mul!vars)
    PROVE  [Mul!Server!Next]_(Mul!Server!serverVars)
<1> USE DEF Mul!Server!serverVars
<1>t. /\ busy \in BOOLEAN /\ mul_rsp_valid \in BOOLEAN
      /\ busy' \in BOOLEAN /\ mul_rsp_valid' \in BOOLEAN
      /\ ~(busy /\ mul_rsp_valid) /\ ~(busy' /\ mul_rsp_valid')
      /\ count \in Nat /\ WORD_BITS \in Nat /\ count < WORD_BITS
      /\ mul_product' \in Mul!Word
      /\ mul_request' \in [a : Mul!Word, b : Mul!Word, q : Mul!Word]
  BY WordBitsAssumption DEF MulInv, Mul!TypeOK, Mul!OneAtATime, Mul!Request
<1> DEFINE Edge_(reset) ==
               /\ mul_pins' \in Mul!Server!Pins
               /\ mul_pins'.clk = 1 - mul_pins.clk
               /\ mul_pins'.reset = reset
<1>1. CASE Mul!Reset
  <2>1. Edge_(TRUE)
    BY <1>1, SampleTyped DEF Mul!Reset, MulInv
  <2>2. Mul!Server!Cancel
    BY <1>1, <1>t DEF Mul!Reset, Mul!Server!Cancel
  <2>3. QED
    BY <2>1, <2>2 DEF Mul!Server!Next
<1>2. ASSUME NEW rsp_ready \in BOOLEAN, NEW a \in Mul!Word, NEW b \in Mul!Word,
             NEW q \in Mul!Word, Mul!Accept(a, b, q, rsp_ready)
      PROVE  Mul!Server!Next
  <2>1. Edge_(FALSE) /\ mul_pins'.req_valid
    BY <1>2, SampleTyped DEF Mul!Accept, MulInv
  <2>2. /\ ~busy /\ ~mul_rsp_valid /\ busy' /\ count' = 0
        /\ mul_product' = mul_product
    BY <1>2 DEF Mul!Accept, Mul!req_ready
  <2>3. Mul!Server!Take
    BY <2>1, <2>2, <1>t DEF Mul!Server!Take
  <2>4. QED
    BY <2>1, <2>3 DEF Mul!Server!Next
<1>3. ASSUME NEW req_valid \in BOOLEAN, NEW rsp_ready \in BOOLEAN,
             Mul!Iterate(req_valid, rsp_ready)
      PROVE  Mul!Server!Next
  <2>0. Edge_(FALSE)
    BY <1>3, SampleTyped DEF Mul!Iterate, MulInv
  <2>1. busy /\ ~mul_rsp_valid /\ mul_request' = mul_request
    BY <1>3, <1>t DEF Mul!Iterate
  <2>2. CASE count = WORD_BITS - 1
    <3>1. ~busy' /\ mul_rsp_valid'
      BY <1>3, <2>2 DEF Mul!Iterate
    <3>2. Mul!Server!Admissible(mul_request, mul_product')
      BY <3>1, <2>1
         DEF MulInv, Mul!ResponseCorrect, Mul!Reduced, Mul!Server!Admissible
    <3>3. WORD_BITS - count = 1
      BY <2>2, <1>t
    <3>4. Mul!Server!Answer
      BY <3>1, <3>2, <3>3, <2>1, <1>t DEF Mul!Server!Answer
    <3>5. QED
      BY <2>0, <3>4 DEF Mul!Server!Next
  <2>3. CASE count # WORD_BITS - 1
    <3>1. busy' /\ ~mul_rsp_valid' /\ count' = count + 1
          /\ mul_product' = mul_product
      BY <1>3, <2>1, <2>3, <1>t DEF Mul!Iterate, Mul!RspHeld
    <3>2. /\ WORD_BITS - count > 1
          /\ WORD_BITS - count' = (WORD_BITS - count) - 1
      BY <3>1, <2>3, <1>t
    <3>3. Mul!Server!Work
      BY <3>1, <3>2, <2>1 DEF Mul!Server!Work
    <3>4. QED
      BY <2>0, <3>3 DEF Mul!Server!Next
  <2>4. QED
    BY <2>2, <2>3
<1>4. ASSUME NEW req_valid \in BOOLEAN, NEW rsp_ready \in BOOLEAN,
             Mul!Rest(req_valid, rsp_ready)
      PROVE  Mul!Server!Next
  <2>1. /\ Edge_(FALSE)
        /\ mul_pins'.req_valid = req_valid /\ mul_pins'.rsp_ready = rsp_ready
    BY <1>4, SampleTyped DEF Mul!Rest, MulInv
  <2>2. /\ ~busy /\ ~busy' /\ mul_rsp_valid' = (mul_rsp_valid /\ ~rsp_ready)
        /\ ~(req_valid /\ ~mul_rsp_valid)
        /\ mul_request' = mul_request /\ mul_product' = mul_product
    BY <1>4 DEF Mul!Rest, Mul!RspHeld, Mul!req_ready
  <2>3. CASE ~mul_rsp_valid
    <3>1. Mul!Server!Rest
      BY <2>1, <2>2, <2>3, <1>t DEF Mul!Server!Rest
    <3>2. QED
      BY <2>1, <3>1 DEF Mul!Server!Next
  <2>4. CASE mul_rsp_valid /\ rsp_ready
    <3>1. Mul!Server!Consume
      BY <2>1, <2>2, <2>4, <1>t DEF Mul!Server!Consume
    <3>2. QED
      BY <2>1, <3>1 DEF Mul!Server!Next
  <2>5. CASE mul_rsp_valid /\ ~rsp_ready
    <3>1. Mul!Server!Hold
      BY <2>1, <2>2, <2>5, <1>t DEF Mul!Server!Hold
    <3>2. QED
      BY <2>1, <3>1 DEF Mul!Server!Next
  <2>6. QED
    BY <1>t, <2>3, <2>4, <2>5
<1>5. CASE UNCHANGED Mul!vars
  BY <1>5 DEF Mul!vars, Mul!regs
<1>6. QED
  BY <1>1, <1>2, <1>3, <1>4, <1>5 DEF Mul!Next, Mul!Edge

(* lca_modmul implements the abstract server for every word width: every   *)
(* request made to an idle unit is taken, answered rightly after exactly   *)
(* WORD_BITS edges that no operand changes, and the answer is held on      *)
(* every edge without reset that does not find the consumer ready.         *)
THEOREM MulRefinement == Mul!Spec => Mul!ImplementsServer
<1>1. Mul!Init => Mul!Server!Init
  <2> SUFFICES ASSUME Mul!Init PROVE Mul!Server!Init
    OBVIOUS
  <2>1. 0 \in Mul!Word
    BY MulWordSize
  <2>2. mul_pins \in Mul!Server!Pins
    BY DEF Mul!Init, Mul!Server!Pins
  <2>3. QED
    BY <2>1, <2>2 DEF Mul!Init, Mul!Server!Init
<1>2. MulInv /\ MulInv' /\ [Mul!Next]_(Mul!vars)
          => [Mul!Server!Next]_(Mul!Server!serverVars)
  BY MulStepRefines
<1>3. QED
  BY MulInvAlways, <1>1, <1>2, PTL
     DEF Mul!Spec, Mul!ImplementsServer, Mul!Server!Spec
-----------------------------------------------------------------------------
(* The words of the instance are those of the butterfly, so its facts      *)
(* about words and modular addition hold here.                             *)
LEMMA SameWord ==
    /\ Mul!Word = Word
    /\ \A x, y, q : Mul!add_mod(x, y, q) = add_mod(x, y, q)
  BY DEF Mul!Word, Word, Mul!add_mod, add_mod

(* The size of a word is a positive number.                                *)
LEMMA WordSize ==
    /\ 2^WORD_BITS \in Nat \ {0}
    /\ \A w : w \in Word <=> (w \in Nat /\ w < 2^WORD_BITS)
  BY MulWordSize, SameWord

(* On reduced words add_mod is the sum, less the modulus at most once.     *)
LEMMA AddModReduced ==
    ASSUME NEW q \in Word, NEW x \in Nat, NEW y \in Nat, x < q, y < q
    PROVE  /\ add_mod(x, y, q) \in Nat
           /\ add_mod(x, y, q) < q
           /\ \E e \in {0, 1} : add_mod(x, y, q) + e * q = x + y
  BY MulAddModReduced, SameWord

(* The multiplier is working on, or shows the product for, the outstanding *)
(* request, whose operands and modulus the butterfly has saved.            *)
Working ==
    busy \/ mul_rsp_valid =>
        /\ op \in Operation
        /\ request_valid(op)
        /\ a_saved = op.a
        /\ modulus_saved = selected_modulus(op.id)
        /\ mul_request = [a |-> op.b, b |-> op.t, q |-> selected_modulus(op.id)]

(* A pending fault is about the outstanding request.                       *)
Refusing == fault_pending => op \in Operation /\ ~request_valid(op)

OwnType ==
    /\ a_saved \in Word
    /\ modulus_saved \in Word
    /\ fault_pending \in BOOLEAN
    /\ op \in Operation \cup {NoOp}

Inv == MulInv /\ OwnType /\ Working /\ Refusing /\ FaultExcludesMultiply

(* The invariant of the multiplier, in the words of the instance Mul.      *)
LEMMA MulFacts ==
    ASSUME MulInv
    PROVE  /\ busy \in BOOLEAN /\ mul_rsp_valid \in BOOLEAN
           /\ mul_product \in Word
           /\ Mul!TypeOK
           /\ ~(busy /\ mul_rsp_valid)
           /\ mul_rsp_valid /\ mul_request.a < mul_request.q =>
                mul_product = (mul_request.a * mul_request.b) % mul_request.q
  BY DEF MulInv, Mul!TypeOK, Mul!OneAtATime, Mul!ResponseCorrect, Mul!Reduced,
         Mul!Request, Mul!Word, Word

(* A selected modulus is a word, and positive when the request is valid.   *)
LEMMA ModulusWord ==
    ASSUME NEW r \in Operation
    PROVE  /\ selected_modulus(r.id) \in Word
           /\ r.a \in Word /\ r.b \in Word /\ r.t \in Word
<1>1. 0 \in Word
  BY WordSize
<1>2. QED
  BY <1>1, ModuliAssumption DEF Operation, selected_modulus

(* Each edge is an edge of the multiplier, or leaves it alone.             *)
LEMMA MulSteps ==
    ASSUME [Next]_vars
    PROVE  [Mul!Next]_(Mul!vars)
<1>w. Mul!Word = Word
  BY DEF Mul!Word, Word
<1>2. CASE Reset
  <2>1. Mul!Reset
    BY <1>2 DEF Reset
  <2>2. QED
    BY <2>1 DEF Mul!Next
<1>3. ASSUME NEW rr \in BOOLEAN, NEW r \in Operation, AcceptValid(r, rr)
      PROVE  Mul!Next
  <2>1. /\ mul_rsp_ready(rr) \in BOOLEAN
        /\ Mul!Accept(r.b, r.t, selected_modulus(r.id), mul_rsp_ready(rr))
    BY <1>3 DEF AcceptValid, mul_rsp_ready
  <2>2. QED
    BY <2>1, <1>w, ModulusWord DEF Mul!Next, Mul!Edge
<1>4. ASSUME NEW rr \in BOOLEAN, Mul!Rest(FALSE, mul_rsp_ready(rr))
      PROVE  Mul!Next
  <2>1. mul_rsp_ready(rr) \in BOOLEAN /\ Mul!Rest(FALSE, mul_rsp_ready(rr))
    BY <1>4 DEF mul_rsp_ready
  <2>2. QED
    BY <2>1 DEF Mul!Next, Mul!Edge
<1>5. ASSUME NEW rr \in BOOLEAN, Mul!Iterate(FALSE, mul_rsp_ready(rr))
      PROVE  Mul!Next
  <2>1. mul_rsp_ready(rr) \in BOOLEAN /\ Mul!Iterate(FALSE, mul_rsp_ready(rr))
    BY <1>5 DEF mul_rsp_ready
  <2>2. QED
    BY <2>1 DEF Mul!Next, Mul!Edge
<1>6. CASE UNCHANGED vars
  BY <1>6 DEF vars, mulVars, Mul!vars, Mul!regs
<1>7. QED
  BY <1>2, <1>3, <1>4, <1>5, <1>6 DEF Next, Edge, AcceptFault, Run

(* So its invariant is preserved.                                          *)
LEMMA MulPreserved ==
    ASSUME MulInv, [Next]_vars
    PROVE  MulInv'
<1>1. [Mul!Next]_(Mul!vars)
  BY MulSteps
<1>2. [Mul!Next]_(Mul!vars) => MulInv'
  BY MulInductive
<1>3. QED
  BY <1>1, <1>2

(* The invariant is inductive.                                             *)
LEMMA Inductive == Inv /\ [Next]_vars => Inv'
<1> SUFFICES ASSUME Inv, [Next]_vars PROVE Inv'
  OBVIOUS
<1>0. /\ MulInv'
      /\ busy \in BOOLEAN /\ mul_rsp_valid \in BOOLEAN
      /\ busy' \in BOOLEAN /\ mul_rsp_valid' \in BOOLEAN
  BY MulPreserved, MulFacts DEF Inv, MulInv, Mul!TypeOK
<1>1. CASE Reset
  <2>1. 0 \in Word
    BY WordSize
  <2>2. QED
    BY <1>0, <1>1, <2>1 DEF Inv, Reset, Mul!Reset, OwnType, Working, Refusing,
                            FaultExcludesMultiply
<1>2. ASSUME NEW rr \in BOOLEAN, NEW r \in Operation, AcceptValid(r, rr)
      PROVE  Inv'
  <2>1. /\ ~fault_pending'
        /\ op' = r /\ a_saved' = r.a
        /\ modulus_saved' = selected_modulus(r.id)
        /\ mul_request' = [a |-> r.b, b |-> r.t, q |-> selected_modulus(r.id)]
        /\ request_valid(r)
        /\ fault_pending' \in BOOLEAN
    BY <1>2 DEF AcceptValid, Mul!Accept, req_ready
  <2>2. OwnType'
    BY <2>1, ModulusWord DEF OwnType
  <2>3. Working' /\ Refusing' /\ FaultExcludesMultiply'
    BY <2>1 DEF Working, Refusing, FaultExcludesMultiply
  <2>4. QED
    BY <1>0, <2>2, <2>3 DEF Inv
<1>3. ASSUME NEW rr \in BOOLEAN, NEW r \in Operation, AcceptFault(r, rr)
      PROVE  Inv'
  <2>1. /\ ~busy' /\ ~mul_rsp_valid'
        /\ fault_pending' = TRUE /\ op' = r /\ ~request_valid(r)
        /\ a_saved' = a_saved /\ modulus_saved' = modulus_saved
    BY <1>3 DEF AcceptFault, Mul!Rest, Mul!RspHeld, req_ready, Mul!req_ready
  <2>2. QED
    BY <1>0, <2>1 DEF Inv, OwnType, Working, Refusing, FaultExcludesMultiply
<1>4. ASSUME NEW rr \in BOOLEAN, Run(rr)
      PROVE  Inv'
  <2>1. /\ fault_pending' = (fault_pending /\ ~rr)
        /\ op' = (IF rsp_valid /\ rr THEN NoOp ELSE op)
        /\ a_saved' = a_saved /\ modulus_saved' = modulus_saved
        /\ mul_request' = mul_request
    BY <1>4 DEF Run, Mul!Iterate, Mul!Rest
  <2>2. busy' \/ mul_rsp_valid' =>
            (busy \/ mul_rsp_valid) /\ ~(rsp_valid /\ rr) /\ ~fault_pending
    BY <1>4, <1>0, MulFacts DEF Run, Mul!Iterate, Mul!Rest, Mul!RspHeld,
       mul_rsp_ready, rsp_valid, Inv, FaultExcludesMultiply
  <2>3. OwnType'
    BY <2>1 DEF OwnType, Inv
  <2>4. Working' /\ Refusing'
    BY <2>1, <2>2 DEF Inv, Working, Refusing, rsp_valid, OwnType
  <2>5. FaultExcludesMultiply'
    BY <2>1, <2>2 DEF FaultExcludesMultiply, Inv, OwnType
  <2>6. QED
    BY <1>0, <2>3, <2>4, <2>5 DEF Inv
<1>5. CASE UNCHANGED vars
  BY <1>0, <1>5 DEF vars, mulVars, Inv, OwnType, Working, Refusing,
                    FaultExcludesMultiply
<1>6. QED
  BY <1>1, <1>2, <1>3, <1>4, <1>5 DEF Next, Edge

(* The invariant holds initially.                                          *)
LEMMA InitInv == Init => Inv
<1> SUFFICES ASSUME Init PROVE Inv
  OBVIOUS
<1>1. MulInv
  <2>1. Mul!Init
    BY DEF Init
  <2>2. QED
    BY <2>1, MulInitInv
<1>2. 0 \in Word
  BY WordSize
<1>3. QED
  BY <1>1, <1>2 DEF Init, Mul!Init, Inv, OwnType, Working, Refusing,
                    FaultExcludesMultiply

(* On reduced words sub_mod is subtraction modulo q.                       *)
LEMMA SubModReduced ==
    ASSUME NEW q \in Word, NEW x \in Nat, NEW y \in Nat, x < q, y < q
    PROVE  sub_mod(x, y, q) = (x + q - y) % q
<1>1. q \in Nat /\ q < 2^WORD_BITS /\ 2^WORD_BITS \in Nat
  BY WordSize
<1>2. CASE x >= y
  <2>1. x - y \in Nat /\ x - y < q /\ x + q - y = (x - y) + 1 * q
    BY <1>1, <1>2
  <2>2. ((x - y) + 1 * q) % q = x - y
    BY <1>1, <2>1, ResidueUnique
  <2>3. QED
    BY <1>2, <2>1, <2>2 DEF sub_mod
<1>3. CASE ~(x >= y)
  <2>1. x + q - y \in Nat /\ x + q - y < q
    BY <1>1, <1>3
  <2>2. QED
    BY <1>1, <1>3, <2>1, SmallMod DEF sub_mod
<1>4. QED
  BY <1>2, <1>3

(* On reduced words add_mod is addition modulo q.                          *)
LEMMA AddModResidue ==
    ASSUME NEW q \in Word, NEW x \in Nat, NEW y \in Nat, x < q, y < q
    PROVE  add_mod(x, y, q) = (x + y) % q
<1>1. q \in Nat
  BY WordSize
<1>2. /\ add_mod(x, y, q) \in Nat
      /\ add_mod(x, y, q) < q
      /\ \E e \in {0, 1} : add_mod(x, y, q) + e * q = x + y
  BY AddModReduced
<1>3. PICK e \in {0, 1} : add_mod(x, y, q) + e * q = x + y
  BY <1>2
<1>4. (add_mod(x, y, q) + e * q) % q = add_mod(x, y, q)
  BY <1>1, <1>2, ResidueUnique
<1>5. QED
  BY <1>3, <1>4

(* The invariant implies that the response answers the request.            *)
LEMMA InvAnswers == Inv => ResponseAnswersRequest
<1> SUFFICES ASSUME Inv, rsp_valid
             PROVE  /\ op # NoOp
                    /\ rsp_fault <=> ~request_valid(op)
                    /\ IF request_valid(op)
                       THEN LET q == selected_modulus(op.id) IN
                            /\ rsp_a = (op.a + Product(op)) % q
                            /\ rsp_b = (op.a + q - Product(op)) % q
                       ELSE rsp_a = 0 /\ rsp_b = 0
  BY DEF ResponseAnswersRequest
<1>n. NoOp \notin Operation
  BY DEF NoOp, Operation, ModulusId
<1>1. CASE fault_pending
  BY <1>1, <1>n DEF Inv, Refusing, rsp_fault, rsp_a, rsp_b
<1>2. CASE ~fault_pending
  <2> DEFINE q == selected_modulus(op.id)
  <2>1. mul_rsp_valid
    BY <1>2 DEF rsp_valid
  <2>2. /\ op \in Operation /\ request_valid(op)
        /\ a_saved = op.a /\ modulus_saved = q
        /\ mul_request = [a |-> op.b, b |-> op.t, q |-> q]
    BY <2>1 DEF Inv, Working
  <2>3. /\ q \in Word /\ q \in Nat /\ op.a \in Nat /\ op.b \in Nat /\ op.t \in Nat
        /\ op.a < q /\ op.b < q
    BY <2>2, ModulusWord, WordSize DEF request_valid
  <2> HIDE DEF q
  <2>4. mul_product = (op.b * op.t) % q
    BY <2>1, <2>2, <2>3, MulFacts DEF Inv
  <2>5. mul_product \in Nat /\ mul_product < q
    BY <2>3, <2>4
  <2>6. rsp_a = (op.a + mul_product) % q
    BY <1>2, <2>2, <2>3, <2>5, AddModResidue DEF rsp_a
  <2>7. rsp_b = (op.a + q - mul_product) % q
    BY <1>2, <2>2, <2>3, <2>5, SubModReduced DEF rsp_b
  <2>8. QED
    BY <1>2, <1>n, <2>2, <2>4, <2>6, <2>7 DEF q, Product, rsp_fault
<1>3. QED
  BY <1>1, <1>2 DEF Inv, OwnType

(* For every width and both moduli, a response of lca_butterfly is the     *)
(* butterfly of the request it answers, or the refusal of that request.    *)
THEOREM Answers == Spec => []ResponseAnswersRequest
  BY InitInv, Inductive, InvAnswers, PTL DEF Spec

(* Every register of the butterfly and of its multiplier keeps its width.  *)
THEOREM TypeCorrect == Spec => []TypeOK
<1>1. Inv => TypeOK
  BY MulFacts DEF Inv, OwnType, TypeOK
<1>2. QED
  BY InitInv, Inductive, <1>1, PTL DEF Spec

(* The multiplier inside the butterfly implements its abstract server, at  *)
(* every width and for every pair of moduli: no request handed to it is    *)
(* lost, and no answer ends before it is taken but by a reset.             *)
THEOREM MultiplierImplemented == Spec => MultiplierServes
<1>1. Init => Mul!Init
  BY DEF Init
<1>2. [Next]_vars => [Mul!Next]_(Mul!vars)
  BY MulSteps
<1>3. Spec => Mul!Spec
  BY <1>1, <1>2, PTL DEF Spec, Mul!Spec
<1>4. QED
  BY <1>3, MulRefinement DEF MultiplierServes

(* A refusal never coexists with a multiplication (B1), at every width.    *)
THEOREM FaultExclusive == Spec => []FaultExcludesMultiply
<1>1. Inv => FaultExcludesMultiply
  BY DEF Inv
<1>2. QED
  BY InitInv, Inductive, <1>1, PTL DEF Spec

(* A response that stays on show never changes (B4), at every width.       *)
THEOREM Stable == Spec => ResponseStable
<1> DEFINE Shown == <<rsp_fault, rsp_a, rsp_b>>
           Held == rsp_valid /\ rsp_valid' => Shown' = Shown
<1>1. ASSUME Inv, [Next]_vars PROVE [Held]_vars
  <2> SUFFICES ASSUME Next, rsp_valid, rsp_valid'
               PROVE  /\ fault_pending' = fault_pending
                      /\ a_saved' = a_saved
                      /\ modulus_saved' = modulus_saved
                      /\ fault_pending \/ mul_product' = mul_product
    BY <1>1 DEF rsp_fault, rsp_a, rsp_b
  <2>1. CASE Reset
    BY <2>1 DEF Reset, Mul!Reset, rsp_valid
  <2>2. ASSUME NEW rr \in BOOLEAN, NEW r \in Operation,
               AcceptValid(r, rr) \/ AcceptFault(r, rr)
        PROVE  FALSE
    BY <2>2 DEF AcceptValid, AcceptFault, req_ready, Mul!req_ready, rsp_valid
  <2>3. ASSUME NEW rr \in BOOLEAN, Run(rr)
        PROVE  /\ fault_pending' = fault_pending
               /\ a_saved' = a_saved
               /\ modulus_saved' = modulus_saved
               /\ mul_product' = mul_product
    <3>1. ~busy
      BY <1>1, MulFacts DEF Inv, FaultExcludesMultiply, rsp_valid
    <3>2. Mul!Rest(FALSE, mul_rsp_ready(rr))
      BY <2>3, <3>1 DEF Run, Mul!Iterate
    <3>3. fault_pending \in BOOLEAN /\ (fault_pending => ~mul_rsp_valid)
      BY <1>1 DEF Inv, OwnType, FaultExcludesMultiply
    <3>4. QED
      BY <2>3, <3>2, <3>3 DEF Run, Mul!Rest, Mul!RspHeld, rsp_valid
  <2>4. QED
    BY <2>1, <2>2, <2>3 DEF Next, Edge
<1>2. QED
  BY InitInv, Inductive, <1>1, PTL DEF Spec, ResponseStable
-----------------------------------------------------------------------------
(* Induction up to a bound, over a set: the library's rules are about an   *)
(* operator.                                                               *)
LEMMA UpTo ==
    ASSUME NEW N \in Nat, NEW G, 0 \in G,
           \A n \in 0 .. (N - 1) : n \in G => n + 1 \in G
    PROVE  \A n \in 0 .. N : n \in G
<1> DEFINE R == {p \in Nat \X Nat : p[1] < p[2]}
           Bad == {n \in 0 .. N : n \notin G}
<1>1. IsWellFoundedOn(R, Nat)
  BY Zenon, NatLessThanWellFounded DEF OpToRel
<1>2. SUFFICES ASSUME Bad # {} PROVE FALSE
  OBVIOUS
<1>3. Bad \subseteq Nat
  OBVIOUS
<1>4. PICK x \in Bad : \A y \in Bad : ~(<<y, x>> \in R)
  <2> HIDE DEF R, Bad
  <2>1. QED
    BY Zenon, <1>1, <1>2, <1>3, WFMin
<1>5. x \in 0 .. N /\ x # 0
  OBVIOUS
<1>6. x - 1 \in 0 .. (N - 1) /\ (x - 1) + 1 = x /\ x - 1 < x
  BY <1>5
<1>7. x - 1 \notin G
  BY <1>5, <1>6
<1>8. x - 1 \in Bad
  BY <1>6, <1>7
<1>9. <<x - 1, x>> \in R
  <2>1. <<x - 1, x>> \in Nat \X Nat /\ <<x - 1, x>>[1] = x - 1
        /\ <<x - 1, x>>[2] = x
    BY <1>5, <1>6
  <2>2. QED
    BY <1>6, <2>1
<1>10. QED
  BY <1>4, <1>8, <1>9

(* The runs of N steps of f from s0: what a recursive definition describes *)
(* if there is one.                                                        *)
Runs(S, s0, f, N) ==
    {h \in [0 .. N -> S] :
        h[0] = s0 /\ \A n \in 1 .. N : h[n] = f[h[n - 1]]}

(* There is one, of any length.                                            *)
LEMMA Iterated ==
    ASSUME NEW S, NEW s0 \in S, NEW f \in [S -> S], NEW N \in Nat
    PROVE  Runs(S, s0, f, N) # {}
<1> DEFINE G == {m \in Nat : Runs(S, s0, f, m) # {}}
<1>1. 0 \in G
  <2>1. [n \in 0 .. 0 |-> s0] \in Runs(S, s0, f, 0)
    BY DEF Runs
  <2>2. QED
    BY <2>1
<1>2. ASSUME NEW m \in 0 .. (N - 1), m \in G
      PROVE  m + 1 \in G
  <2>1. PICK h \in [0 .. m -> S] :
            h[0] = s0 /\ \A n \in 1 .. m : h[n] = f[h[n - 1]]
    BY <1>2 DEF Runs
  <2> DEFINE g == [n \in 0 .. (m + 1) |-> IF n = m + 1 THEN f[h[m]] ELSE h[n]]
  <2>2. m \in 0 .. m /\ h[m] \in S /\ f[h[m]] \in S
    BY <1>2
  <2>3. g \in [0 .. (m + 1) -> S]
    BY <1>2, <2>2
  <2>4. g[0] = s0
    BY <1>2, <2>1
  <2>5. ASSUME NEW n \in 1 .. (m + 1)
        PROVE  g[n] = f[g[n - 1]]
    <3>1. n - 1 \in 0 .. m /\ g[n - 1] = h[n - 1]
      BY <1>2, <2>5
    <3>2. CASE n = m + 1
      BY <1>2, <3>1, <3>2
    <3>3. CASE n # m + 1
      <4>1. n \in 1 .. m /\ g[n] = h[n]
        BY <1>2, <2>5, <3>3
      <4>2. QED
        BY <2>1, <3>1, <4>1
    <3>4. QED
      BY <3>2, <3>3
  <2>6. g \in Runs(S, s0, f, m + 1)
    BY <2>3, <2>4, <2>5 DEF Runs
  <2>7. QED
    BY <1>2, <2>6
<1> HIDE DEF G
<1>3. N \in G
  BY <1>1, <1>2, UpTo
<1>4. QED
  BY <1>3 DEF G

(* The residues of a modulus, and a state of the Python loop on them.      *)
Residues(q) == 0 .. (q - 1)
LoopStates(q) ==
    [product : Residues(q), multiplicand : Residues(q), multiplier : Nat]
LoopStep(s, q) ==
    [product |-> IF s.multiplier % 2 = 1
                 THEN Model!add_mod(s.product, s.multiplicand, q)
                 ELSE s.product,
     multiplicand |-> Model!add_mod(s.multiplicand, s.multiplicand, q),
     multiplier |-> s.multiplier \div 2]

(* Python's addition of residues is a residue, at most one modulus less.   *)
LEMMA ModelAdds ==
    ASSUME NEW q \in Nat \ {0}, NEW x \in Residues(q), NEW y \in Residues(q)
    PROVE  /\ Model!add_mod(x, y, q) \in Residues(q)
           /\ \E e \in {0, 1} : Model!add_mod(x, y, q) + e * q = x + y
  BY DEF Residues, Model!add_mod

(* So an iteration stays within the states of the loop.                    *)
LEMMA LoopStepsStay ==
    ASSUME NEW q \in Nat \ {0}, NEW s \in LoopStates(q)
    PROVE  LoopStep(s, q) \in LoopStates(q)
<1>1. /\ s.product \in Residues(q) /\ s.multiplicand \in Residues(q)
      /\ s.multiplier \in Nat
  BY DEF LoopStates
<1>2. s.multiplier \div 2 \in Nat
  BY <1>1, LowBit
<1>3. QED
  BY <1>1, <1>2, ModelAdds DEF LoopStep, LoopStates

(* The loop starts from the operands, and each iteration is a step.        *)
LEMMA LoopUnfolds ==
    ASSUME NEW q \in Nat \ {0}, NEW a \in Residues(q), NEW b \in Nat
    PROVE  LET loop == Model!Iterations(a, b, q)
           IN  /\ loop[0] = [product |-> 0, multiplicand |-> a, multiplier |-> b]
               /\ \A n \in 1 .. WORD_BITS : loop[n] = LoopStep(loop[n - 1], q)
<1> DEFINE start == [product |-> 0, multiplicand |-> a, multiplier |-> b]
           Next_(h) == [n \in 0 .. WORD_BITS |->
                           IF n = 0 THEN start ELSE LoopStep(h[n - 1], q)]
           f == [s \in LoopStates(q) |-> LoopStep(s, q)]
<1>1. start \in LoopStates(q)
  BY DEF LoopStates, Residues
<1>2. f \in [LoopStates(q) -> LoopStates(q)]
  BY LoopStepsStay
<1> HIDE DEF start
<1>3. PICK h \in [0 .. WORD_BITS -> LoopStates(q)] :
          h[0] = start /\ \A n \in 1 .. WORD_BITS : h[n] = f[h[n - 1]]
  <2>1. WORD_BITS \in Nat
    BY WordBitsAssumption
  <2> HIDE DEF f
  <2>2. Runs(LoopStates(q), start, f, WORD_BITS) # {}
    BY Zenon, <1>1, <1>2, <2>1, Iterated
  <2>3. QED
    BY <2>2 DEF Runs
<1>4. h = Next_(h)
  <2>1. ASSUME NEW n \in 0 .. WORD_BITS
        PROVE  h[n] = Next_(h)[n]
    <3>1. CASE n = 0
      BY <1>3, <3>1
    <3>2. CASE n # 0
      <4>1. n \in 1 .. WORD_BITS /\ n - 1 \in 0 .. WORD_BITS
        BY <3>2, WordBitsAssumption
      <4>2. h[n - 1] \in LoopStates(q)
        BY <4>1
      <4>3. QED
        BY <1>3, <3>2, <4>1, <4>2
    <3>3. QED
      BY <3>1, <3>2
  <2>2. QED
    BY <2>1
<1>5. Model!Iterations(a, b, q) = CHOOSE g : g = Next_(g)
  BY Zenon DEF Model!Iterations, LoopStep, start
<1> DEFINE loop == Model!Iterations(a, b, q)
<1>6. loop = Next_(loop)
  <2> HIDE DEF Next_
  <2>1. QED
    BY Zenon, <1>4, <1>5
<1> HIDE DEF loop
<1>7. \A n \in 0 .. WORD_BITS :
          loop[n] = IF n = 0 THEN start ELSE LoopStep(loop[n - 1], q)
  BY Zenon, <1>6
<1>8. /\ 0 \in 0 .. WORD_BITS
      /\ \A n \in 1 .. WORD_BITS : n \in 0 .. WORD_BITS /\ n # 0
  BY WordBitsAssumption
<1>9. /\ loop[0] = start
      /\ \A n \in 1 .. WORD_BITS : loop[n] = LoopStep(loop[n - 1], q)
  BY Zenon, <1>7, <1>8
<1>10. QED
  BY Zenon, <1>9 DEF loop, start

(* Its invariant, that of the multiplier: the product so far and what the  *)
(* rest of the multiplier adds are the product asked for.                  *)
Owed(s, q, t) ==
    \E k \in Int : s.product + s.multiplicand * s.multiplier + k * q = t

(* An iteration keeps it.                                                  *)
LEMMA LoopKeeps ==
    ASSUME NEW q \in Nat \ {0}, NEW s \in LoopStates(q), NEW t \in Int,
           Owed(s, q, t)
    PROVE  Owed(LoopStep(s, q), q, t)
<1> DEFINE p == s.product
           c == s.multiplicand
           h == s.multiplier \div 2
           bit == s.multiplier % 2
           p2 == LoopStep(s, q).product
           c2 == LoopStep(s, q).multiplicand
<1>1. /\ p \in Residues(q) /\ c \in Residues(q) /\ s.multiplier \in Nat
      /\ p \in Int /\ c \in Int
  BY DEF LoopStates, Residues
<1>2. h \in Nat /\ bit \in {0, 1} /\ s.multiplier = 2 * h + bit
  BY <1>1, LowBit
<1>3. PICK k \in Int : p + c * s.multiplier + k * q = t
  BY DEF Owed
<1>4. PICK e2 \in {0, 1} : c2 + e2 * q = c + c
  BY <1>1, ModelAdds DEF LoopStep
<1>5. PICK e1 \in {0, 1} : p2 + e1 * q = p + bit * c
  <2>1. CASE bit = 1
    <3>1. p2 = Model!add_mod(p, c, q)
      BY <2>1 DEF LoopStep
    <3>2. \E e \in {0, 1} : p2 + e * q = p + c
      BY <1>1, <3>1, ModelAdds
    <3>3. p + bit * c = p + c
      BY <1>1, <2>1
    <3>4. QED
      BY <3>2, <3>3
  <2>2. CASE bit # 1
    <3>1. p2 = p
      BY <2>2 DEF LoopStep
    <3>2. bit = 0
      BY <1>2, <2>2
    <3>3. p2 + 0 * q = p + bit * c
      BY <1>1, <3>1, <3>2
    <3>4. QED
      BY <3>3
  <2>3. QED
    BY <2>1, <2>2
<1>6. p2 \in Int /\ c2 \in Int /\ LoopStep(s, q).multiplier = h
  BY LoopStepsStay DEF LoopStates, Residues, LoopStep
<1> HIDE DEF p, c, h, bit, p2, c2
<1>7. p2 + c2 * h + (k + e1 + e2 * h) * q = t
  <2>1. p + c * (2 * h + bit) + k * q = t
    BY <1>2, <1>3
  <2>2. QED
    BY <1>1, <1>2, <1>4, <1>5, <1>6, <2>1, IterationIdentity
<1>8. k + e1 + e2 * h \in Int
  BY <1>2
<1>9. QED
  BY <1>6, <1>7, <1>8 DEF Owed, p2, c2

(* So the loop of mul_mod_shift_add computes the product modulo q, for     *)
(* every width the second operand fits in.                                 *)
LEMMA ModelMultiplies ==
    ASSUME NEW q \in Nat \ {0}, NEW a \in Residues(q), NEW b \in Word
    PROVE  Model!mul_mod_shift_add(a, b, q).value = (a * b) % q
<1> DEFINE loop == Model!Iterations(a, b, q)
           G == {n \in 0 .. WORD_BITS :
                   /\ loop[n] \in LoopStates(q)
                   /\ loop[n].multiplier < 2^(WORD_BITS - n)
                   /\ Owed(loop[n], q, a * b)}
<1>1. /\ b \in Nat /\ b < 2^WORD_BITS /\ a \in Nat /\ a * b \in Int
      /\ WORD_BITS \in Nat
  BY WordSize, WordBitsAssumption DEF Residues
<1>2. /\ loop[0] = [product |-> 0, multiplicand |-> a, multiplier |-> b]
      /\ \A n \in 1 .. WORD_BITS : loop[n] = LoopStep(loop[n - 1], q)
  BY <1>1, LoopUnfolds
<1> HIDE DEF loop
<1>3. 0 \in G
  <2>1. loop[0] \in LoopStates(q)
    BY <1>1, <1>2 DEF LoopStates, Residues
  <2>2. Owed(loop[0], q, a * b)
    <3>1. 0 + a * b + 0 * q = a * b
      BY <1>1
    <3>2. QED
      BY <1>2, <3>1 DEF Owed
  <2>3. loop[0].multiplier < 2^(WORD_BITS - 0)
    <3>1. WORD_BITS - 0 = WORD_BITS
      BY <1>1
    <3>2. QED
      BY <1>1, <1>2, <3>1
  <2>4. QED
    BY <1>1, <2>1, <2>2, <2>3
<1>4. ASSUME NEW n \in 0 .. (WORD_BITS - 1), n \in G
      PROVE  n + 1 \in G
  <2>1. n + 1 \in 1 .. WORD_BITS /\ (n + 1) - 1 = n
    BY <1>1
  <2>2. loop[n + 1] = LoopStep(loop[n], q)
    BY <1>2, <2>1
  <2>3. loop[n + 1] \in LoopStates(q) /\ Owed(loop[n + 1], q, a * b)
    BY <1>1, <1>4, <2>2, LoopStepsStay, LoopKeeps
  <2>4. loop[n + 1].multiplier < 2^(WORD_BITS - (n + 1))
    <3> DEFINE m == WORD_BITS - (n + 1)
    <3>1. /\ m \in 0 .. (WORD_BITS - 1) /\ m \in 0 .. WORD_BITS
          /\ WORD_BITS - n = m + 1
      BY <1>1
    <3> HIDE DEF m
    <3>2. 2^m \in Nat /\ 2^(m + 1) = 2 * 2^m
      BY <3>1, PowerAssumption
    <3>3. loop[n].multiplier \in Nat /\ loop[n].multiplier < 2 * 2^m
      BY <1>4, <3>1, <3>2 DEF LoopStates
    <3>4. loop[n].multiplier \div 2 < 2^m
      BY <3>2, <3>3, LowBit
    <3>5. QED
      BY <2>2, <3>4 DEF LoopStep, m
  <2>5. QED
    BY <2>1, <2>3, <2>4
<1>5. WORD_BITS \in G
  <2>1. WORD_BITS \in 0 .. WORD_BITS
    BY <1>1
  <2> HIDE DEF G
  <2>2. QED
    BY <1>1, <1>3, <1>4, <2>1, UpTo
<1>6. /\ loop[WORD_BITS] \in LoopStates(q)
      /\ loop[WORD_BITS].multiplier < 2^0
      /\ Owed(loop[WORD_BITS], q, a * b)
  <2>1. WORD_BITS - WORD_BITS = 0
    BY <1>1
  <2>2. QED
    BY <1>5, <2>1
<1> DEFINE p == loop[WORD_BITS].product
<1>7. p \in Residues(q) /\ loop[WORD_BITS].multiplier = 0
      /\ loop[WORD_BITS].multiplicand \in Int
  BY <1>6, PowerAssumption DEF LoopStates, Residues
<1>8. PICK k \in Int : p + loop[WORD_BITS].multiplicand * 0 + k * q = a * b
  BY <1>6, <1>7 DEF Owed
<1>9. p \in Nat /\ p < q /\ p + k * q = a * b
  BY <1>7, <1>8 DEF Residues
<1> HIDE DEF p
<1>10. k \in Nat
  <2>1. a * b \in Nat
    BY <1>1
  <2>2. SUFFICES ASSUME k < 0 PROVE FALSE
    OBVIOUS
  <2>3. k * q <= -q
    BY <2>2
  <2>4. QED
    BY <1>9, <2>1, <2>3
<1>11. (p + k * q) % q = p
  BY <1>9, <1>10, ResidueUnique
<1>12. QED
  BY <1>9, <1>11 DEF p, loop, Model!mul_mod_shift_add

(* The moduli the model supports are those the unit selects, provided they *)
(* are below half of a word.                                               *)
LEMMA SameRefusal ==
    ASSUME NEW r \in Operation,
           KEM_Q < 2^(WORD_BITS - 1), DSA_Q < 2^(WORD_BITS - 1)
    PROVE  request_valid(r) <=>
               LET q == selected_modulus(r.id)
               IN  /\ Model!_validate_modulus(q)
                   /\ \A value \in {r.a, r.b, r.t} :
                          Model!_validate_residue(value, q)
<1>1. /\ r.a \in Nat /\ r.b \in Nat /\ r.t \in Nat
      /\ KEM_Q # 0 /\ DSA_Q # 0 /\ r.id \in 0 .. 3
  BY WordSize, ModuliAssumption DEF Operation, ModulusId
<1>2. CASE r.id = 0
  BY <1>1, <1>2 DEF request_valid, selected_modulus, Model!_validate_modulus,
                    Model!_validate_residue
<1>3. CASE r.id = 1
  BY <1>1, <1>3 DEF request_valid, selected_modulus, Model!_validate_modulus,
                    Model!_validate_residue
<1>4. CASE r.id > 1
  <2>1. ~(r.id <= 1) /\ r.id # 0 /\ r.id # 1
    BY <1>1, <1>4
  <2>2. selected_modulus(r.id) = 0
    BY <2>1 DEF selected_modulus
  <2>3. QED
    BY <1>1, <2>1, <2>2 DEF request_valid, Model!_validate_modulus
<1>5. QED
  BY <1>1, <1>2, <1>3, <1>4

(* On residues the model's sums and differences are those of the words.    *)
LEMMA SameSums ==
    ASSUME NEW q \in Word \ {0}, NEW x \in Residues(q), NEW y \in Residues(q)
    PROVE  /\ Model!add_mod(x, y, q) = add_mod(x, y, q)
           /\ Model!sub_mod(x, y, q) = sub_mod(x, y, q)
           /\ Model!add_mod(x, y, q) >= 0
<1>1. /\ q \in Nat /\ q < 2^WORD_BITS /\ 2^WORD_BITS \in Nat
      /\ x \in Nat /\ x < q /\ y \in Nat /\ y < q
  BY WordSize DEF Residues
<1>2. \A z \in Nat : z < q => z % 2^WORD_BITS = z
  BY <1>1, SmallMod
<1>3. /\ x + y >= q => x + y - q \in Nat /\ x + y - q < q
      /\ ~(x + y >= q) => x + y \in Nat /\ x + y < q
      /\ ~(x >= y) => x + q - y \in Nat /\ x + q - y < q
  BY <1>1
<1>4. QED
  BY <1>1, <1>2, <1>3 DEF add_mod, sub_mod, Model!add_mod, Model!sub_mod

(* A response is what the model answers to the request.                    *)
LEMMA InvAgrees ==
    ASSUME Inv, KEM_Q < 2^(WORD_BITS - 1), DSA_Q < 2^(WORD_BITS - 1)
    PROVE  ModelAgrees
<1> SUFFICES ASSUME rsp_valid
             PROVE  LET answer == Model!butterfly(op.a, op.b, op.t,
                                                  selected_modulus(op.id))
                    IN  /\ rsp_fault <=> answer = Model!Rejected
                        /\ ~rsp_fault => /\ answer.out_a = rsp_a
                                         /\ answer.out_b = rsp_b
                                         /\ answer.product = mul_product
  BY DEF ModelAgrees
<1> DEFINE q == selected_modulus(op.id)
           answer == Model!butterfly(op.a, op.b, op.t, q)
<1>1. CASE fault_pending
  <2>1. op \in Operation /\ ~request_valid(op)
    BY <1>1 DEF Inv, Refusing
  <2>2. answer = Model!Rejected
    BY <2>1, SameRefusal DEF Model!butterfly
  <2>3. QED
    BY <1>1, <2>2 DEF rsp_fault
<1>2. CASE ~fault_pending
  <2>1. mul_rsp_valid
    BY <1>2 DEF rsp_valid
  <2>2. /\ op \in Operation /\ request_valid(op)
        /\ a_saved = op.a /\ modulus_saved = q
        /\ mul_request = [a |-> op.b, b |-> op.t, q |-> q]
    BY <2>1 DEF Inv, Working
  <2>3. /\ q \in Word /\ q \in Nat /\ op.t \in Word
        /\ op.a \in Nat /\ op.b \in Nat /\ op.a < q /\ op.b < q
    BY <2>2, ModulusWord, WordSize DEF request_valid
  <2>4. /\ Model!_validate_modulus(q)
        /\ \A value \in {op.a, op.b, op.t} : Model!_validate_residue(value, q)
    BY <2>2, SameRefusal
  <2> HIDE DEF q
  <2> DEFINE m == Model!mul_mod_shift_add(op.b, op.t, q)
  <2>5. q \in Nat \ {0} /\ op.a \in Residues(q) /\ op.b \in Residues(q)
    BY <2>3 DEF Residues
  <2>6. m.value = (op.b * op.t) % q
    BY <2>3, <2>5, ModelMultiplies
  <2>7. mul_product = (op.b * op.t) % q
    BY <2>1, <2>2, <2>3, MulFacts DEF Inv
  <2>8. answer = [out_a   |-> Model!add_mod(op.a, m.value, q),
                  out_b   |-> Model!sub_mod(op.a, m.value, q),
                  product |-> m.value,
                  cycles  |-> m.cycles]
    BY Zenon, <2>4 DEF Model!butterfly
  <2> HIDE DEF m
  <2>9. m.value = mul_product /\ m.value \in Residues(q)
    <3>1. op.t \in Nat /\ op.b * op.t \in Nat
      BY <2>3, WordSize
    <3>2. QED
      BY <2>3, <2>5, <2>6, <2>7, <3>1 DEF Residues
  <2>10. /\ Model!add_mod(op.a, m.value, q) = add_mod(op.a, mul_product, q)
         /\ Model!sub_mod(op.a, m.value, q) = sub_mod(op.a, mul_product, q)
         /\ Model!add_mod(op.a, m.value, q) >= 0
    BY <2>3, <2>5, <2>9, SameSums
  <2>11. /\ answer.out_a = rsp_a /\ answer.out_b = rsp_b
         /\ answer.product = mul_product /\ answer.out_a >= 0
    BY <1>2, <2>2, <2>8, <2>9, <2>10 DEF rsp_a, rsp_b
  <2>12. answer # Model!Rejected
    BY <2>11 DEF Model!Rejected
  <2>13. QED
    BY Zenon, <1>2, <2>11, <2>12 DEF rsp_fault, q
<1>3. QED
  BY <1>1, <1>2 DEF Inv, OwnType

(* model/modarith.py is a model of the unit, at every width and for every  *)
(* pair of moduli below half of a word: each response of lca_butterfly is  *)
(* the answer of butterfly(), whose loop (lines 68-84) multiplies exactly, *)
(* and it refuses what butterfly() raises a ValueError for.                *)
THEOREM ModelIsExact ==
    ASSUME KEM_Q < 2^(WORD_BITS - 1), DSA_Q < 2^(WORD_BITS - 1)
    PROVE  Spec => []ModelAgrees
<1>1. Inv => ModelAgrees
  BY InvAgrees
<1>2. QED
  BY InitInv, Inductive, <1>1, PTL DEF Spec
=============================================================================
