-------------------------- MODULE HandlerCountFacts --------------------------
(***************************************************************************)
(* Facts about the arithmetic of HandlerCount, for every width of the      *)
(* counter.  They are what the proofs of KeepAlive and of ObjectLifetime   *)
(* need of it: neither expands Balanced or the modulo again.               *)
(***************************************************************************)
EXTENDS HandlerCount, TLAPS

(***************************************************************************)
(* handler_count_inc adds one, or wraps from the last value to 0.          *)
(***************************************************************************)
LEMMA CountIncValue ==
    ASSUME NEW c \in CountType
    PROVE  /\ CountInc(c) = IF c = Modulus - 1 THEN 0 ELSE c + 1
           /\ CountInc(c) \in CountType
<1>1. CASE c = Modulus - 1
  <2>1. Modulus % Modulus = 0
    BY ModulusAssumption
  <2>2. QED
    BY <1>1, <2>1, ModulusAssumption DEF CountType, CountInc
<1>2. CASE c # Modulus - 1
  <2>1. (c + 1) % Modulus = c + 1
    BY <1>2, ModulusAssumption DEF CountType
  <2>2. QED
    BY <1>2, <2>1, ModulusAssumption DEF CountType, CountInc
<1>3. QED
  BY <1>1, <1>2

(***************************************************************************)
(* handler_count_dec subtracts one, or wraps from 0 to the last value.     *)
(***************************************************************************)
LEMMA CountDecValue ==
    ASSUME NEW c \in CountType
    PROVE  /\ CountDec(c) = IF c = 0 THEN Modulus - 1 ELSE c - 1
           /\ CountDec(c) \in CountType
<1>1. CASE c = 0
  <2>1. (0 - 1) % Modulus = Modulus - 1
    BY ModulusAssumption
  <2>2. QED
    BY <1>1, <2>1, ModulusAssumption DEF CountType, CountDec
<1>2. CASE c # 0
  <2>1. (c - 1) % Modulus = c - 1
    BY <1>2, ModulusAssumption DEF CountType
  <2>2. QED
    BY <1>2, <2>1, ModulusAssumption DEF CountType, CountDec
<1>3. QED
  BY <1>1, <1>2

(***************************************************************************)
(* PHP_ASIO_INC_HANDLER_COUNT keeps count, operations and self references  *)
(* in balance, even where more was given back than counted.                *)
(***************************************************************************)
LEMMA BalancedInc ==
    ASSUME NEW c \in CountType, NEW n \in Int, NEW s \in Int,
           Balanced(c, n, s)
    PROVE  Balanced(CountInc(c), n + 1, s + RefGained(c))
<1> USE ModulusAssumption DEF CountType
<1>1. CASE c = 0
  <2>1. CountInc(c) = 1 /\ RefGained(c) = 1
    BY <1>1, CountIncValue DEF RefGained
  <2>2. n = Modulus * s
    BY <1>1 DEF Balanced
  <2>3. (s + 1) - 1 = s
    OBVIOUS
  <2>4. QED
    BY <2>1, <2>2, <2>3 DEF Balanced
<1>2. CASE c = Modulus - 1
  <2>1. CountInc(c) = 0 /\ RefGained(c) = 0
    BY <1>2, CountIncValue DEF RefGained
  <2>2. n = Modulus * (s - 1) + (Modulus - 1)
    BY <1>2 DEF Balanced
  <2>3. Modulus * (s - 1) = Modulus * s - Modulus
    OBVIOUS
  <2>4. QED
    BY <2>1, <2>2, <2>3 DEF Balanced
<1>3. CASE c # 0 /\ c # Modulus - 1
  <2>1. CountInc(c) = c + 1 /\ RefGained(c) = 0
    BY <1>3, CountIncValue DEF RefGained
  <2>2. QED
    BY <1>3, <2>1 DEF Balanced
<1>4. QED
  BY <1>1, <1>2, <1>3

(***************************************************************************)
(* So does PHP_ASIO_DEC_HANDLER_COUNT.                                     *)
(***************************************************************************)
LEMMA BalancedDec ==
    ASSUME NEW c \in CountType, NEW n \in Int, NEW s \in Int,
           Balanced(c, n, s)
    PROVE  Balanced(CountDec(c), n - 1, s - RefLost(c))
<1> USE ModulusAssumption DEF CountType
<1>1. CASE c = 0
  <2>1. CountDec(c) = Modulus - 1 /\ RefLost(c) = 0
    BY <1>1, CountDecValue DEF RefLost
  <2>2. n = Modulus * s
    BY <1>1 DEF Balanced
  <2>3. Modulus * (s - 1) = Modulus * s - Modulus
    OBVIOUS
  <2>4. QED
    BY <2>1, <2>2, <2>3 DEF Balanced
<1>2. CASE c = 1
  <2>1. CountDec(c) = 0 /\ RefLost(c) = 1
    BY <1>2, CountDecValue DEF RefLost
  <2>2. n = Modulus * (s - 1) + 1
    BY <1>2 DEF Balanced
  <2>3. QED
    BY <2>1, <2>2 DEF Balanced
<1>3. CASE c # 0 /\ c # 1
  <2>1. CountDec(c) = c - 1 /\ RefLost(c) = 0
    BY <1>3, CountDecValue DEF RefLost
  <2>2. QED
    BY <1>3, <2>1 DEF Balanced
<1>4. QED
  BY <1>1, <1>2, <1>3

(***************************************************************************)
(* The number of self references is positive exactly while some operation  *)
(* is in flight.                                                           *)
(***************************************************************************)
LEMMA BalancedKeepsAlive ==
    ASSUME NEW c \in CountType, NEW n \in Int, NEW s \in Int,
           Balanced(c, n, s)
    PROVE  (s > 0) <=> (n > 0)
<1> USE ModulusAssumption DEF CountType
<1>1. CASE s > 0
  <2>1. PICK k \in Nat : s = k + 1
    BY <1>1
  <2>2. Modulus * s = Modulus * k + Modulus /\ Modulus * (s - 1) = Modulus * k
        /\ Modulus * k >= 0
    BY <2>1
  <2>3. QED
    BY <1>1, <2>2 DEF Balanced
<1>2. CASE ~(s > 0)
  <2>1. PICK k \in Nat : s = 0 - k
    BY <1>2
  <2>2. Modulus * s = 0 - Modulus * k /\ Modulus * (s - 1) = 0 - Modulus * k - Modulus
        /\ Modulus * k >= 0
    BY <2>1
  <2>3. QED
    BY <1>2, <2>2 DEF Balanced
<1>3. QED
  BY <1>1, <1>2

(***************************************************************************)
(* Starting an operation adds a self reference or none.                    *)
(***************************************************************************)
LEMMA BalancedBegin ==
    ASSUME NEW c \in CountType, NEW n \in Nat, NEW s \in Nat,
           Balanced(c, n, s)
    PROVE  /\ Balanced(CountInc(c), n + 1, s + RefGained(c))
           /\ s + RefGained(c) \in Nat
  BY BalancedInc DEF RefGained

(***************************************************************************)
(* Ending one (the decrement in future::resolve) never drops a self        *)
(* reference that is not there.                                            *)
(***************************************************************************)
LEMMA BalancedEnd ==
    ASSUME NEW c \in CountType, NEW n \in Nat, NEW s \in Nat,
           Balanced(c, n, s), n > 0
    PROVE  /\ Balanced(CountDec(c), n - 1, s - RefLost(c))
           /\ s - RefLost(c) \in Nat
<1>1. s > 0
  BY BalancedKeepsAlive
<1>2. QED
  BY <1>1, BalancedDec DEF RefLost
=============================================================================
