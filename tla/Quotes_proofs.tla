---------------------------- MODULE Quotes_proofs ----------------------------
(***************************************************************************)
(* The types, the floor of the price and the covering of the total, proved *)
(* for all prices, lifetimes, requests and bounds.                         *)
(***************************************************************************)
EXTENDS Quotes, TLAPS

(* Division rounds down. *)
LEMMA DivLaw ==
  ASSUME NEW a \in Nat, NEW b \in Prices
  PROVE  /\ a \div b \in Nat
         /\ (a \div b) * b <= a
         /\ a < (a \div b) * b + b
BY SMT DEF Prices

(* It is the largest number that times b does not exceed a. *)
LEMMA Largest ==
  ASSUME NEW a \in Nat, NEW b \in Prices, NEW c \in Nat, c * b <= a
  PROVE  c <= a \div b
<1> DEFINE q == a \div b
<1>1. q \in Nat /\ a < q * b + b  BY DivLaw
<1>2. b \in Nat /\ b > 0  BY DEF Prices
<1> HIDE DEF q
<1>3. SUFFICES ASSUME c >= q + 1 PROVE FALSE  BY <1>1 DEF q
<1>4. c * b >= (q + 1) * b  BY <1>1, <1>2, <1>3
<1>5. QED  BY <1>1, <1>2, <1>4

LEMMA Smallest ==
  ASSUME NEW a \in Nat, NEW b \in Prices, NEW c \in Nat, a <= c * b
  PROVE  a \div b <= c
<1> DEFINE q == a \div b
<1>1. q \in Nat /\ q * b <= a  BY DivLaw
<1>2. b \in Nat /\ b > 0  BY DEF Prices
<1> HIDE DEF q
<1>3. SUFFICES ASSUME q >= c + 1 PROVE FALSE  BY <1>1 DEF q
<1>4. q * b >= (c + 1) * b  BY <1>1, <1>2, <1>3
<1>5. QED  BY <1>1, <1>2, <1>4

LEMMA ScaleType == Scale \in Nat /\ Scale > 0 /\ Scale \in Prices
BY QuotesAssumption DEF Prices

LEMMA DivideLaw ==
  ASSUME NEW a \in Nat, NEW p \in Prices
  PROVE  /\ Divide(a, p) \in Nat
         /\ Divide(a, p) * p <= a * Scale
         /\ a * Scale < Divide(a, p) * p + p
<1>1. a * Scale \in Nat  BY ScaleType
<1>2. QED  BY <1>1, DivLaw DEF Divide

LEMMA MultiplyLaw ==
  ASSUME NEW a \in Nat, NEW p \in Nat
  PROVE  /\ Multiply(a, p) \in Nat
         /\ Multiply(a, p) * Scale <= a * p
         /\ a * p < (Multiply(a, p) + 1) * Scale
<1>1. a * p \in Nat  OBVIOUS
<1>2. /\ Multiply(a, p) \in Nat
      /\ Multiply(a, p) * Scale <= a * p
      /\ a * p < Multiply(a, p) * Scale + Scale
  BY <1>1, ScaleType, DivLaw DEF Multiply
<1>3. QED  BY <1>2, ScaleType

LEMMA MultiplyMonotone ==
  ASSUME NEW a \in Nat, NEW b \in Nat, NEW p \in Nat, a <= b
  PROVE  Multiply(a, p) <= Multiply(b, p)
<1>1. Multiply(a, p) \in Nat /\ Multiply(a, p) * Scale <= a * p  BY MultiplyLaw
<1>2. a * p <= b * p  OBVIOUS
<1>3. b * p \in Nat /\ a * p \in Nat  OBVIOUS
<1>4. Multiply(a, p) * Scale <= b * p  BY <1>1, <1>2, <1>3, ScaleType
<1>5. QED  BY <1>1, <1>3, <1>4, ScaleType, Largest DEF Multiply

LEMMA DivideMonotone ==
  ASSUME NEW a \in Nat, NEW b \in Nat, NEW p \in Prices, a <= b
  PROVE  Divide(a, p) <= Divide(b, p)
<1>1. Divide(a, p) \in Nat /\ Divide(a, p) * p <= a * Scale  BY DivideLaw
<1>2. a * Scale <= b * Scale /\ a * Scale \in Nat /\ b * Scale \in Nat  BY ScaleType
<1>3. Divide(a, p) * p <= b * Scale  BY <1>1, <1>2 DEF Prices
<1>4. QED  BY <1>1, <1>2, <1>3, Largest DEF Divide

(* There and back again at the same price never gains. *)
LEMMA MultiplyDivide ==
  ASSUME NEW a \in Nat, NEW p \in Prices
  PROVE  Multiply(Divide(a, p), p) <= a
<1>1. p \in Nat /\ Divide(a, p) \in Nat /\ Divide(a, p) * p <= a * Scale  BY DivideLaw DEF Prices
<1>2. Divide(a, p) * p \in Nat  BY <1>1
<1>3. QED  BY <1>1, <1>2, ScaleType, Smallest DEF Multiply

LEMMA DivideMultiply ==
  ASSUME NEW a \in Nat, NEW p \in Prices
  PROVE  Divide(Multiply(a, p), p) <= a
<1>1. p \in Nat  BY DEF Prices
<1>2. Multiply(a, p) \in Nat /\ Multiply(a, p) * Scale <= a * p  BY <1>1, MultiplyLaw
<1>3. Multiply(a, p) * Scale \in Nat  BY <1>2, ScaleType
<1>4. QED  BY <1>2, <1>3, Smallest DEF Divide
-----------------------------------------------------------------------------
LEMMA BasesType == ASSUME NEW b \in AllBases
  PROVE /\ b.usd \in Prices /\ b.matic \in Prices /\ b.knnUsd \in Prices /\ b.knnEth \in Prices
        /\ b.dollar \in Prices
        /\ b.usd \in Nat /\ b.matic \in Nat /\ b.knnUsd \in Nat /\ b.knnEth \in Nat
        /\ b.dollar \in Nat /\ b.knnUsd > 0 /\ b.usd > 0 /\ b.dollar > 0
BY DEF AllBases, Prices

LEMMA AmountsType ==
  ASSUME NEW k \in Nat, NEW u \in Nat, NEW l \in Nat, NEW e \in Nat, NEW m \in Nat
  PROVE  [KNN |-> k, USD |-> u, BRL |-> l, ETH |-> e, MATIC |-> m] \in Amounts
BY DEF Amounts, Currencies

(* What each of the five strategies returns *)
LEMMA KNNLaw ==
  ASSUME NEW x \in Nat, NEW b \in AllBases
  PROVE  /\ CalculateKNN(x, b) \in Amounts
         /\ CalculateKNN(x, b).KNN = x
         /\ CalculateKNN(x, b).USD = Multiply(x, b.knnUsd)
         /\ CalculateKNN(x, b).BRL = Multiply(Multiply(x, b.knnUsd), b.usd)
         /\ CalculateKNN(x, b).ETH = Multiply(x, b.knnEth)
         /\ CalculateKNN(x, b).MATIC = Divide(Multiply(x, b.knnEth), b.matic)
<1>1. Multiply(x, b.knnUsd) \in Nat /\ Multiply(x, b.knnEth) \in Nat  BY MultiplyLaw, BasesType
<1>2. Multiply(Multiply(x, b.knnUsd), b.usd) \in Nat  BY <1>1, MultiplyLaw, BasesType
<1>3. Divide(Multiply(x, b.knnEth), b.matic) \in Nat  BY <1>1, DivideLaw, BasesType
<1>4. QED  BY <1>1, <1>2, <1>3, AmountsType DEF CalculateKNN

LEMMA USDLaw ==
  ASSUME NEW x \in Nat, NEW b \in AllBases
  PROVE  /\ CalculateUSD(x, b) \in Amounts
         /\ CalculateUSD(x, b).USD = x
         /\ CalculateUSD(x, b).KNN = Divide(x, b.knnUsd)
         /\ CalculateUSD(x, b).BRL = Multiply(x, b.usd)
<1>1. Divide(x, b.knnUsd) \in Nat /\ Multiply(x, b.usd) \in Nat
  BY MultiplyLaw, DivideLaw, BasesType
<1>2. Multiply(Divide(x, b.knnUsd), b.knnEth) \in Nat  BY <1>1, MultiplyLaw, BasesType
<1>3. Divide(Multiply(Divide(x, b.knnUsd), b.knnEth), b.matic) \in Nat
  BY <1>2, DivideLaw, BasesType
<1>4. QED  BY <1>1, <1>2, <1>3, AmountsType DEF CalculateUSD

LEMMA BRLLaw ==
  ASSUME NEW x \in Nat, NEW b \in AllBases
  PROVE  /\ CalculateBRL(x, b) \in Amounts
         /\ CalculateBRL(x, b).BRL = x
         /\ CalculateBRL(x, b).KNN = Divide(Divide(x, b.usd), b.knnUsd)
         /\ CalculateBRL(x, b).USD = Divide(x, b.usd)
<1>1. Divide(x, b.usd) \in Nat  BY DivideLaw, BasesType
<1>2. /\ CalculateUSD(Divide(x, b.usd), b) \in Amounts
      /\ CalculateUSD(Divide(x, b.usd), b).USD = Divide(x, b.usd)
      /\ CalculateUSD(Divide(x, b.usd), b).KNN = Divide(Divide(x, b.usd), b.knnUsd)
  BY <1>1, USDLaw
<1>3. QED  BY <1>2 DEF CalculateBRL, Amounts, Currencies

LEMMA ETHLaw ==
  ASSUME NEW x \in Nat, NEW b \in AllBases
  PROVE  /\ CalculateETH(x, b) \in Amounts
         /\ CalculateETH(x, b).ETH = x
         /\ CalculateETH(x, b).KNN = Divide(x, b.knnEth)
         /\ CalculateETH(x, b).BRL = Multiply(Multiply(Divide(x, b.knnEth), b.knnUsd), b.usd)
<1>1. Divide(x, b.knnEth) \in Nat /\ Divide(x, b.matic) \in Nat  BY DivideLaw, BasesType
<1>2. Multiply(Divide(x, b.knnEth), b.knnUsd) \in Nat  BY <1>1, MultiplyLaw, BasesType
<1>3. Multiply(Multiply(Divide(x, b.knnEth), b.knnUsd), b.usd) \in Nat
  BY <1>2, MultiplyLaw, BasesType
<1>4. QED  BY <1>1, <1>2, <1>3, AmountsType DEF CalculateETH

LEMMA MATICLaw ==
  ASSUME NEW x \in Nat, NEW b \in AllBases
  PROVE  LET e == Multiply(x, b.matic)
         IN  /\ CalculateMATIC(x, b) \in Amounts
             /\ CalculateMATIC(x, b).MATIC = x
             /\ CalculateMATIC(x, b).KNN = Divide(e, b.knnEth)
             /\ CalculateMATIC(x, b).BRL = Multiply(Multiply(Divide(e, b.knnEth), b.knnUsd), b.usd)
<1> DEFINE e == Multiply(x, b.matic)
<1>1. e \in Nat  BY MultiplyLaw, BasesType
<1>2. /\ CalculateETH(e, b) \in Amounts
      /\ CalculateETH(e, b).KNN = Divide(e, b.knnEth)
      /\ CalculateETH(e, b).BRL = Multiply(Multiply(Divide(e, b.knnEth), b.knnUsd), b.usd)
  BY <1>1, ETHLaw
<1>3. QED  BY <1>2 DEF CalculateMATIC, Amounts, Currencies

(* A quotation is made of natural numbers and leaves the asked amount as it
   is. *)
LEMMA QuotationType ==
  ASSUME NEW c \in Currencies, NEW x \in Nat, NEW b \in AllBases
  PROVE  Quotation(c, x, b) \in Amounts /\ Quotation(c, x, b)[c] = x
<1>1. CASE c = "BRL"    BY <1>1, BRLLaw DEF Quotation
<1>2. CASE c = "USD"    BY <1>2, USDLaw DEF Quotation
<1>3. CASE c = "KNN"    BY <1>3, KNNLaw DEF Quotation
<1>4. CASE c = "ETH"    BY <1>4, ETHLaw DEF Quotation
<1>5. CASE c = "MATIC"  BY <1>5, MATICLaw DEF Quotation
<1>6. QED  BY <1>1, <1>2, <1>3, <1>4, <1>5 DEF Currencies

(* The worth of a quotation's tokens never exceeds the asked amount. *)
LEMMA WorthCovered ==
  ASSUME NEW c \in Currencies, NEW x \in Nat, NEW b \in AllBases
  PROVE  CalculateKNN(Quotation(c, x, b).KNN, b)[c] <= x
<1> DEFINE k == Quotation(c, x, b).KNN
<1>1. k \in Nat
  <2>1. Quotation(c, x, b) \in Amounts  BY QuotationType
  <2>2. "KNN" \in Currencies  BY DEF Currencies
  <2>3. QED  BY <2>1, <2>2 DEF Amounts
<1>2. CASE c = "BRL"
  <2> DEFINE u == Divide(x, b.usd)
  <2>1. u \in Nat /\ k = Divide(u, b.knnUsd)  BY <1>2, BRLLaw, DivideLaw, BasesType DEF Quotation
  <2>2. Multiply(k, b.knnUsd) \in Nat /\ Multiply(k, b.knnUsd) <= u
    BY <1>1, <2>1, MultiplyLaw, MultiplyDivide, BasesType
  <2>3. Multiply(Multiply(k, b.knnUsd), b.usd) <= Multiply(u, b.usd)
    BY <2>1, <2>2, MultiplyMonotone, BasesType
  <2>4. Multiply(u, b.usd) <= x  BY MultiplyDivide, BasesType
  <2>5. Multiply(u, b.usd) \in Nat /\ Multiply(Multiply(k, b.knnUsd), b.usd) \in Nat
    BY <2>1, <2>2, MultiplyLaw, BasesType
  <2>6. CalculateKNN(k, b)[c] = Multiply(Multiply(k, b.knnUsd), b.usd)  BY <1>1, <1>2, KNNLaw
  <2> HIDE DEF u, k
  <2>7. CalculateKNN(k, b)[c] <= x  BY <2>3, <2>4, <2>5, <2>6
  <2>8. QED  BY <2>7 DEF k
<1>3. CASE c = "USD"
  <2>1. k = Divide(x, b.knnUsd)  BY <1>3, USDLaw DEF Quotation
  <2>2. CalculateKNN(k, b)[c] = Multiply(k, b.knnUsd)  BY <1>1, <1>3, KNNLaw
  <2>3. QED  BY <2>1, <2>2, MultiplyDivide, BasesType
<1>4. CASE c = "KNN"
  <2>1. k = x  BY <1>4, KNNLaw DEF Quotation
  <2>2. QED  BY <1>4, <2>1, KNNLaw
<1>5. CASE c = "ETH"
  <2>1. k = Divide(x, b.knnEth)  BY <1>5, ETHLaw DEF Quotation
  <2>2. CalculateKNN(k, b)[c] = Multiply(k, b.knnEth)  BY <1>1, <1>5, KNNLaw
  <2>3. QED  BY <2>1, <2>2, MultiplyDivide, BasesType
<1>6. CASE c = "MATIC"
  <2> DEFINE e == Multiply(x, b.matic)
  <2>1. e \in Nat /\ k = Divide(e, b.knnEth)
    BY <1>6, MATICLaw, MultiplyLaw, BasesType DEF Quotation
  <2>2. Multiply(k, b.knnEth) \in Nat /\ Multiply(k, b.knnEth) <= e
    BY <1>1, <2>1, MultiplyLaw, MultiplyDivide, BasesType
  <2>3. Divide(Multiply(k, b.knnEth), b.matic) <= Divide(e, b.matic)
    BY <2>1, <2>2, DivideMonotone, BasesType
  <2>4. Divide(e, b.matic) <= x  BY DivideMultiply, BasesType
  <2>5. Divide(e, b.matic) \in Nat /\ Divide(Multiply(k, b.knnEth), b.matic) \in Nat
    BY <2>1, <2>2, DivideLaw, BasesType
  <2>6. CalculateKNN(k, b)[c] = Divide(Multiply(k, b.knnEth), b.matic)  BY <1>1, <1>6, KNNLaw
  <2> HIDE DEF e, k
  <2>7. CalculateKNN(k, b)[c] <= x  BY <2>3, <2>4, <2>5, <2>6
  <2>8. QED  BY <2>7 DEF k
<1>7. QED  BY <1>2, <1>3, <1>4, <1>5, <1>6 DEF Currencies

(* The tokens k, at the price of KNN in b, are worth no more than brl, up to
   rounding. *)
Worth(k, brl, b) == k * b.knnUsd * b.usd <= ((brl + 1) * Scale + b.usd) * Scale

LEMMA WorthGrows ==
  ASSUME NEW k \in Nat, NEW l \in Nat, NEW m \in Nat, l <= m, NEW b \in AllBases, Worth(k, l, b)
  PROVE  Worth(k, m, b)
<1>1. b.usd \in Nat /\ b.knnUsd \in Nat  BY BasesType
<1>2. (l + 1) * Scale <= (m + 1) * Scale /\ (l + 1) * Scale \in Nat /\ (m + 1) * Scale \in Nat
  BY ScaleType
<1>3. ((l + 1) * Scale + b.usd) * Scale <= ((m + 1) * Scale + b.usd) * Scale
  BY <1>1, <1>2, ScaleType
<1>4. /\ ((l + 1) * Scale + b.usd) * Scale \in Nat /\ ((m + 1) * Scale + b.usd) * Scale \in Nat
      /\ k * b.knnUsd * b.usd \in Nat
  BY <1>1, <1>2, ScaleType
<1>5. QED  BY <1>3, <1>4 DEF Worth

(* Tokens priced in BRL by way of USD *)
LEMMA TokensWorth ==
  ASSUME NEW k \in Nat, NEW b \in AllBases
  PROVE  Worth(k, Multiply(Multiply(k, b.knnUsd), b.usd), b)
<1> DEFINE u == Multiply(k, b.knnUsd)
           l == Multiply(u, b.usd)
           p == b.knnUsd
           d == b.usd
<1>1. p \in Nat /\ d \in Nat  BY BasesType
<1>2. u \in Nat /\ k * p < (u + 1) * Scale  BY <1>1, MultiplyLaw
<1>3. l \in Nat /\ u * d < (l + 1) * Scale  BY <1>1, <1>2, MultiplyLaw
<1>4. Worth(k, l, b) <=> k * p * d <= ((l + 1) * Scale + d) * Scale  BY DEF Worth
<1> HIDE DEF u, l, p, d
<1>5. k * p * d <= ((u + 1) * Scale) * d
  <2>1. k * p \in Nat /\ (u + 1) * Scale \in Nat  BY <1>1, <1>2, ScaleType
  <2>2. QED  BY <1>1, <1>2, <2>1
<1>6. ((u + 1) * Scale) * d = (u * d + d) * Scale  BY <1>1, <1>2, ScaleType
<1>7. (u * d + d) * Scale <= ((l + 1) * Scale + d) * Scale
  <2>1. u * d + d \in Nat /\ (l + 1) * Scale + d \in Nat  BY <1>1, <1>2, <1>3, ScaleType
  <2>2. u * d + d <= (l + 1) * Scale + d  BY <1>1, <1>2, <1>3, ScaleType
  <2>3. QED  BY <2>1, <2>2, ScaleType
<1>8. /\ k * p * d \in Nat /\ (u * d + d) * Scale \in Nat
      /\ ((l + 1) * Scale + d) * Scale \in Nat
  BY <1>1, <1>2, <1>3, ScaleType
<1>9. Worth(k, l, b)  BY <1>4, <1>5, <1>6, <1>7, <1>8
<1>10. QED  BY <1>9 DEF l, u

(* A quotation's tokens are worth no more than its BRL. *)
LEMMA QuotationWorth ==
  ASSUME NEW c \in Currencies, NEW x \in Nat, NEW b \in AllBases
  PROVE  Worth(Quotation(c, x, b).KNN, Quotation(c, x, b).BRL, b)
<1> DEFINE p == b.knnUsd
           d == b.usd
<1>1. p \in Prices /\ d \in Prices /\ p \in Nat /\ d \in Nat  BY BasesType
<1>2. CASE c = "BRL"
  <2> DEFINE u == Divide(x, d)
             k == Divide(u, p)
  <2>1. u \in Nat /\ u * d <= x * Scale  BY <1>1, DivideLaw
  <2>2. k \in Nat /\ k * p <= u * Scale  BY <1>1, <2>1, DivideLaw
  <2>3. Worth(k, x, b) <=> k * p * d <= ((x + 1) * Scale + d) * Scale  BY DEF Worth
  <2>4. Quotation(c, x, b).KNN = k /\ Quotation(c, x, b).BRL = x  BY <1>2, BRLLaw DEF Quotation
  <2> HIDE DEF u, k, p, d
  <2>5. k * p * d <= (u * Scale) * d
    <3>1. k * p \in Nat /\ u * Scale \in Nat  BY <1>1, <2>1, <2>2, ScaleType
    <3>2. QED  BY <1>1, <2>2, <3>1
  <2>6. (u * Scale) * d = (u * d) * Scale  BY <1>1, <2>1, ScaleType
  <2>7. (u * d) * Scale <= ((x + 1) * Scale + d) * Scale
    <3>1. u * d \in Nat /\ (x + 1) * Scale + d \in Nat  BY <1>1, <2>1, ScaleType
    <3>2. u * d <= (x + 1) * Scale + d  BY <1>1, <2>1, ScaleType
    <3>3. QED  BY <3>1, <3>2, ScaleType
  <2>8. k * p * d \in Nat /\ (u * d) * Scale \in Nat /\ ((x + 1) * Scale + d) * Scale \in Nat
    BY <1>1, <2>1, <2>2, ScaleType
  <2>9. Worth(k, x, b)  BY <2>3, <2>5, <2>6, <2>7, <2>8
  <2>10. QED  BY <2>4, <2>9
<1>3. CASE c = "USD"
  <2> DEFINE k == Divide(x, p)
             l == Multiply(x, d)
  <2>1. k \in Nat /\ k * p <= x * Scale  BY <1>1, DivideLaw
  <2>2. l \in Nat /\ x * d < (l + 1) * Scale  BY <1>1, MultiplyLaw
  <2>3. Worth(k, l, b) <=> k * p * d <= ((l + 1) * Scale + d) * Scale  BY DEF Worth
  <2>4. Quotation(c, x, b).KNN = k /\ Quotation(c, x, b).BRL = l  BY <1>3, USDLaw DEF Quotation
  <2> HIDE DEF k, l, p, d
  <2>5. k * p * d <= (x * Scale) * d
    <3>1. k * p \in Nat /\ x * Scale \in Nat  BY <1>1, <2>1, ScaleType
    <3>2. QED  BY <1>1, <2>1, <3>1
  <2>6. (x * Scale) * d = (x * d) * Scale  BY <1>1, ScaleType
  <2>7. (x * d) * Scale <= ((l + 1) * Scale + d) * Scale
    <3>1. x * d \in Nat /\ (l + 1) * Scale + d \in Nat  BY <1>1, <2>2, ScaleType
    <3>2. x * d <= (l + 1) * Scale + d  BY <1>1, <2>2, ScaleType
    <3>3. QED  BY <3>1, <3>2, ScaleType
  <2>8. k * p * d \in Nat /\ (x * d) * Scale \in Nat /\ ((l + 1) * Scale + d) * Scale \in Nat
    BY <1>1, <2>1, <2>2, ScaleType
  <2>9. Worth(k, l, b)  BY <2>3, <2>5, <2>6, <2>7, <2>8
  <2>10. QED  BY <2>4, <2>9
<1>4. CASE c = "KNN"  BY <1>4, KNNLaw, TokensWorth DEF Quotation
<1>5. CASE c = "ETH"
  <2>1. Divide(x, b.knnEth) \in Nat  BY DivideLaw, BasesType
  <2>2. QED  BY <1>5, <2>1, ETHLaw, TokensWorth DEF Quotation
<1>6. CASE c = "MATIC"
  <2>1. Multiply(x, b.matic) \in Nat  BY MultiplyLaw, BasesType
  <2>2. Divide(Multiply(x, b.matic), b.knnEth) \in Nat  BY <2>1, DivideLaw, BasesType
  <2>3. QED  BY <1>6, <2>2, MATICLaw, TokensWorth DEF Quotation
<1>7. QED  BY <1>2, <1>3, <1>4, <1>5, <1>6 DEF Currencies

LEMMA FloorFromWorth ==
  ASSUME NEW k \in Nat, NEW l \in Nat, NEW b \in AllBases, Worth(k, l, b),
         Fallback * Scale < b.knnUsd * b.dollar + b.dollar
  PROVE  k * (Fallback * Scale - b.dollar) * b.usd <= ((l + 1) * Scale + b.usd) * Scale * b.dollar
<1> DEFINE p == b.knnUsd
           d == b.usd
           e == b.dollar
           f == Fallback * Scale - e
           w == ((l + 1) * Scale + d) * Scale
<1>1. p \in Nat /\ d \in Nat /\ e \in Nat  BY BasesType
<1>2. f \in Int /\ w \in Nat /\ k * p * d <= w
  <2>1. Fallback \in Nat  BY QuotesAssumption DEF Prices
  <2>2. QED  BY <1>1, <2>1, ScaleType DEF Worth
<1>3. f <= p * e
  <2>1. Fallback * Scale \in Nat /\ p * e \in Nat  BY <1>1, QuotesAssumption, ScaleType DEF Prices
  <2>2. QED  BY <1>1, <2>1
<1> HIDE DEF p, d, e, f, w
<1>4. k * f <= k * (p * e)  BY <1>1, <1>2, <1>3
<1>5. k * f * d <= (k * (p * e)) * d
  <2>1. k * f \in Int /\ k * (p * e) \in Int  BY <1>1, <1>2
  <2>2. QED  BY <1>1, <1>4, <2>1
<1>6. (k * (p * e)) * d = (k * p * d) * e  BY <1>1
<1>7. (k * p * d) * e <= w * e
  <2>1. k * p * d \in Nat  BY <1>1
  <2>2. QED  BY <1>1, <1>2, <2>1
<1>8. k * f * d \in Int /\ (k * p * d) * e \in Int /\ w * e \in Int  BY <1>1, <1>2
<1>9. k * f * d <= w * e  BY <1>5, <1>6, <1>7, <1>8
<1>10. QED  BY <1>9 DEF d, e, f, w

LEMMA BRLGrows ==
  ASSUME NEW c \in {"BRL", "USD", "KNN"}, NEW x \in Nat, NEW y \in Nat, x <= y, NEW b \in AllBases
  PROVE  Quotation(c, x, b).BRL <= Quotation(c, y, b).BRL
<1>1. CASE c = "BRL"  BY <1>1, BRLLaw DEF Quotation
<1>2. CASE c = "USD"  BY <1>2, USDLaw, MultiplyMonotone, BasesType DEF Quotation
<1>3. CASE c = "KNN"
  <2>1. /\ Multiply(x, b.knnUsd) \in Nat /\ Multiply(y, b.knnUsd) \in Nat
        /\ Multiply(x, b.knnUsd) <= Multiply(y, b.knnUsd)
    BY MultiplyLaw, MultiplyMonotone, BasesType
  <2>2. Multiply(Multiply(x, b.knnUsd), b.usd) <= Multiply(Multiply(y, b.knnUsd), b.usd)
    BY <2>1, MultiplyMonotone, BasesType
  <2>3. QED  BY <1>3, <2>2, KNNLaw DEF Quotation
<1>4. QED  BY <1>1, <1>2, <1>3

LEMMA GasType ==
  ASSUME NEW a \in Ask, NEW gas \in Prices, NEW b \in AllBases
  PROVE  GasAmount(a, gas, b) \in Amounts
<1>1. a.type \in Types  BY DEF Ask
<1>2. EstimatedGas[a.type] * Scale \in Nat /\ gas \in Nat
  BY <1>1, ScaleType, QuotesAssumption DEF Prices
<1>3. Multiply(EstimatedGas[a.type] * Scale, gas) \in Nat  BY <1>2, MultiplyLaw
<1>4. QED  BY <1>3, ETHLaw, MATICLaw DEF GasAmount

(* What calculateGas takes off the amount *)
GasPaid(c, gas) == IF c \in {"BRL", "USD"} THEN gas[c] ELSE 0

Covered(a, q) ==
  CalculateKNN(q.tokens, q.bases)[a.currency] + GasPaid(a.currency, q.gas) <= q.total[a.currency]

LEMMA QuoteLaw ==
  ASSUME NEW a \in Ask, NEW g \in Amounts, NEW b \in AllBases, NetAmount(a, g) >= 0
  PROVE  LET q == QuoteOf(a, g, b)
         IN  /\ q \in Priced /\ q.bases = b
             /\ Worth(q.tokens, q.total.BRL, b) /\ Worth(q.tokens, q.net.BRL, b)
             /\ Covered(a, q)
<1> DEFINE q == QuoteOf(a, g, b)
           c == a.currency
           x == NetAmount(a, g)
           total == Quotation(c, a.amount, b)
           net == Quotation(c, x, b)
<1>1. c \in Currencies /\ a.amount \in Nat  BY DEF Ask
<1>2. \A d \in Currencies : g[d] \in Nat  BY DEF Amounts
<1>3. x \in Nat
  <2>1. x \in Int  BY <1>1, <1>2 DEF NetAmount, Currencies
  <2>2. QED  BY <2>1
<1>4. total \in Amounts /\ net \in Amounts /\ total[c] = a.amount /\ net[c] = x
  BY <1>1, <1>3, QuotationType
<1>5. /\ total.BRL \in Nat /\ net.BRL \in Nat /\ net.KNN \in Nat /\ total.KNN \in Nat
  <2>1. "BRL" \in Currencies /\ "KNN" \in Currencies  BY DEF Currencies
  <2>2. QED  BY <1>4, <2>1 DEF Amounts
<1>6. Worth(net.KNN, net.BRL, b) /\ Worth(total.KNN, total.BRL, b)
  BY <1>1, <1>3, QuotationWorth
<1>7. CalculateKNN(net.KNN, b)[c] <= x /\ CalculateKNN(net.KNN, b)[c] \in Nat
  <2>1. CalculateKNN(net.KNN, b)[c] <= x  BY <1>1, <1>3, WorthCovered
  <2>2. CalculateKNN(net.KNN, b) \in Amounts  BY <1>5, KNNLaw
  <2>3. QED  BY <1>1, <2>1, <2>2 DEF Amounts
<1>8. /\ q.tokens = IF c = "KNN" THEN a.amount ELSE net.KNN
      /\ q.total = total /\ q.net = net /\ q.gas = g /\ q.bases = b
  BY DEF QuoteOf
<1>9. q \in Priced
  <2>1. q.tokens \in Nat  BY <1>1, <1>5, <1>8
  <2>2. QED  BY <2>1, <1>4, <1>8 DEF Priced, QuoteOf
<1> HIDE DEF q, x, total, net
<1>10. Covered(a, q) <=> CalculateKNN(q.tokens, b)[c] + GasPaid(c, g) <= total[c]
  BY <1>8 DEF Covered
<1>11. CASE c \in {"BRL", "USD"}
  <2>1. x = a.amount - g[c] /\ g[c] \in Nat  BY <1>1, <1>2, <1>11 DEF NetAmount, x
  <2>2. x <= a.amount /\ x + g[c] = a.amount  BY <1>1, <1>3, <2>1
  <2>3. net.BRL <= total.BRL  BY <1>1, <1>3, <1>11, <2>2, BRLGrows DEF net, total
  <2>4. q.tokens = net.KNN  BY <1>8, <1>11
  <2>5. Worth(net.KNN, total.BRL, b)  BY <1>5, <1>6, <2>3, WorthGrows
  <2>6. GasPaid(c, g) = g[c]  BY <1>11 DEF GasPaid
  <2>7. CalculateKNN(q.tokens, b)[c] + GasPaid(c, g) <= total[c]
    BY <1>3, <1>4, <1>7, <2>1, <2>2, <2>4, <2>6
  <2>8. Covered(a, q)  BY <1>10, <2>7
  <2>9. QED  BY <1>6, <1>8, <1>9, <2>4, <2>5, <2>8 DEF q
<1>12. CASE c = "KNN"
  <2>1. x = a.amount + g.KNN /\ g.KNN \in Nat  BY <1>1, <1>2, <1>12 DEF NetAmount, x, Currencies
  <2>2. total.BRL <= net.BRL  BY <1>1, <1>3, <1>12, <2>1, BRLGrows DEF net, total
  <2>3. q.tokens = total.KNN /\ total.KNN = a.amount  BY <1>4, <1>8, <1>12
  <2>4. Worth(total.KNN, net.BRL, b)  BY <1>5, <1>6, <2>2, WorthGrows
  <2>5. GasPaid(c, g) = 0  BY <1>12 DEF GasPaid
  <2>6. CalculateKNN(q.tokens, b)[c] = a.amount  BY <1>1, <1>12, <2>3, KNNLaw
  <2>7. CalculateKNN(q.tokens, b)[c] + GasPaid(c, g) <= total[c]  BY <1>1, <1>4, <2>5, <2>6
  <2>8. Covered(a, q)  BY <1>10, <2>7
  <2>9. QED  BY <1>6, <1>8, <1>9, <2>3, <2>4, <2>8 DEF q
<1>13. CASE c \in {"ETH", "MATIC"}
  <2>1. x = a.amount  BY <1>13 DEF NetAmount, x
  <2>2. net = total  BY <2>1 DEF net, total
  <2>3. q.tokens = net.KNN  BY <1>8, <1>13
  <2>4. GasPaid(c, g) = 0  BY <1>13 DEF GasPaid
  <2>5. CalculateKNN(q.tokens, b)[c] + GasPaid(c, g) <= total[c]
    BY <1>1, <1>4, <1>7, <2>1, <2>3, <2>4
  <2>6. Covered(a, q)  BY <1>10, <2>5
  <2>7. QED  BY <1>6, <1>8, <1>9, <2>2, <2>3, <2>6 DEF q
<1>14. QED  BY <1>1, <1>11, <1>12, <1>13 DEF Currencies
-----------------------------------------------------------------------------
(* The prices in the process are prices the feeds have had. *)
Known ==
  /\ \A f \in Feeds : feed[f] \in Market[f]
  /\ \A o \in Oracles : cache[o].expires > 0 => cache[o].price \in Market[o]
  /\ \A r \in Requests : \A s \in Slots :
       slot[r][s].at = "done" => slot[r][s].price \in Market[Oracle[s]]
  /\ \A r \in Requests : ticker[r] \in Market["knn"] \cup {Fallback} /\ ticker[r] >= Fallback

Asked == \A r \in Requests : ask[r] \in Asks[r]

(* A price of KNN in USD is that of the fallback or more. *)
Floored(x) == Fallback * Scale < x.usd * x.dollar + x.dollar

Derived ==
  /\ knnCache.expires > 0 => Floored(knnCache.basis)
  /\ \A r \in Requests : knnAt[r] = "done" => Floored(knn[r])

(* Gas is asked for when all prices are known. *)
Priceable == \A r \in Requests : pc[r] = "gas" => knnAt[r] = "done"

(* What the answered quotes promise *)
Answered ==
  \A r \in Requests :
    /\ Fallback * Scale < quote[r].bases.knnUsd * quote[r].bases.dollar + quote[r].bases.dollar
       \/ quote[r].tokens = 0
    /\ Worth(quote[r].tokens, quote[r].total.BRL, quote[r].bases)
    /\ Worth(quote[r].tokens, quote[r].net.BRL, quote[r].bases)
    /\ Covered(ask[r], quote[r])

IInv == TypeOK /\ Known /\ Asked /\ Derived /\ Priceable /\ Answered

LEMMA FeedsType ==
  /\ \A f \in Feeds : Market[f] \subseteq Prices
  /\ Oracles \subseteq Feeds /\ \A o \in Oracles : o \in Feeds \ {"knn"}
  /\ \A s \in Slots : Oracle[s] \in Oracles
  /\ "knn" \in Feeds
  /\ \A f \in Feeds : Ttl[f] \in Nat
BY QuotesAssumption DEF Feeds, Oracles, Gases, Slots, Oracle

LEMMA NothingType ==
  /\ Free \in Amounts
  /\ 1 \in Prices
  /\ NoBasis \in Basis
BY DEF Free, Amounts, Prices, NoBasis, Basis

(* The price of KNN is above nothing and no less than the fallback's. *)
LEMMA BasisLaw ==
  ASSUME NEW brl \in Market["knn"] \cup {Fallback}, brl >= Fallback,
         NEW usd \in Market["usd"], NEW eth \in Market["eth"]
  PROVE  KnnBasis(brl, usd, eth) \in Basis /\ Floored(KnnBasis(brl, usd, eth))
<1> DEFINE p == Divide(brl, usd)
<1>1. usd \in Prices /\ eth \in Prices /\ brl \in Prices
  BY FeedsType, QuotesAssumption DEF Feeds, Oracles
<1>2. brl \in Nat /\ usd \in Nat /\ Fallback \in Nat  BY <1>1, QuotesAssumption DEF Prices
<1>3. p > 0 /\ Divide(p, eth) > 0  BY PriceAssumption DEF Divide
<1>4. p \in Nat /\ brl * Scale < p * usd + usd  BY <1>1, <1>2, DivideLaw
<1>5. Divide(p, eth) \in Nat  BY <1>1, <1>4, DivideLaw
<1>6. KnnBasis(brl, usd, eth) = [usd |-> p, eth |-> Divide(p, eth), dollar |-> usd]
  BY DEF KnnBasis
<1> HIDE DEF p
<1>7. KnnBasis(brl, usd, eth) \in Basis  BY <1>1, <1>3, <1>4, <1>5, <1>6 DEF Basis, Prices
<1>8. Fallback * Scale < p * usd + usd
  <2>1. Fallback * Scale <= brl * Scale  BY <1>2, ScaleType
  <2>2. Fallback * Scale \in Nat /\ brl * Scale \in Nat /\ p * usd + usd \in Nat
    BY <1>2, <1>4, ScaleType
  <2>3. QED  BY <1>4, <2>1, <2>2
<1>9. QED  BY <1>6, <1>7, <1>8 DEF Floored

LEMMA KnnPriceLaw ==
  ASSUME NEW brl \in Market["knn"]
  PROVE  KnnPrice(brl) \in Market["knn"] \cup {Fallback} /\ KnnPrice(brl) >= Fallback
<1>1. brl \in Nat /\ Fallback \in Nat  BY FeedsType, QuotesAssumption DEF Prices
<1>2. QED  BY <1>1 DEF KnnPrice

LEMMA InitIInv == Init => IInv
<1> SUFFICES ASSUME Init PROVE IInv  OBVIOUS
<1> DEFINE b == [usd |-> 1, matic |-> 1, knnUsd |-> 1, knnEth |-> 1, dollar |-> 1]
           q == [tokens |-> 0, total |-> Free, net |-> Free, gas |-> Free, bases |-> b]
<1>1. b \in AllBases /\ q \in Priced  BY NothingType DEF AllBases, Priced
<1>2. \A r \in Requests : quote[r] = q  BY DEF Init
<1>3. ask \in [Requests -> Ask] /\ Asked  BY QuotesAssumption DEF Init, Asked
<1>4. TypeOK
  <2>1. feed \in [Feeds -> Prices]  BY QuotesAssumption DEF Init
  <2>2. ticker \in [Requests -> Prices]  BY QuotesAssumption DEF Init
  <2>3. quote \in [Requests -> Priced]  BY <1>1 DEF Init
  <2>4. now \in Nat /\ events \in Nat  BY QuotesAssumption DEF Init
  <2>5. knnCache \in [basis : Basis, expires : Nat] /\ knn \in [Requests -> Basis]
    BY NothingType DEF Init
  <2>6. cache \in [Feeds \ {"knn"} -> [price : Prices, expires : Nat]]  BY NothingType DEF Init
  <2>7. slot \in [Requests -> [Slots -> [at : {"idle", "asked", "done", "failed"},
                                      price : Prices]]]
    BY NothingType DEF Init
  <2>8. QED  BY <1>3, <2>1, <2>2, <2>3, <2>4, <2>5, <2>6, <2>7 DEF Init, TypeOK
<1>5. Known
  <2>1. \A o \in Oracles : cache[o].expires = 0  BY FeedsType DEF Init
  <2>2. Fallback >= Fallback  BY QuotesAssumption DEF Prices
  <2>3. feed = Opening /\ \A f \in Feeds : Opening[f] \in Market[f]  BY QuotesAssumption DEF Init
  <2>4. \A r \in Requests : ticker[r] = Fallback  BY DEF Init
  <2>5. \A r \in Requests : \A s \in Slots : slot[r][s].at # "done"  BY DEF Init
  <2>6. \A o \in Oracles : ~(cache[o].expires > 0)  BY <2>1
  <2>7. QED  BY <2>2, <2>3, <2>4, <2>5, <2>6 DEF Known
<1>6. Derived /\ Priceable  BY DEF Init, Derived, Priceable
<1>7. Answered
  <2>1. Worth(0, 0, b)
    <3>1. 0 * b.knnUsd * b.usd = 0 /\ b.usd = 1  OBVIOUS
    <3>2. ((0 + 1) * Scale + 1) * Scale >= 0  BY ScaleType
    <3>3. QED  BY <3>1, <3>2 DEF Worth
  <2>2. Free.BRL = 0  BY DEF Free, Currencies
  <2>3. ASSUME NEW r \in Requests PROVE Covered(ask[r], q)
    <3>1. ask[r].currency \in Currencies  BY <1>3 DEF Ask
    <3>2. Quotation(ask[r].currency, 0, b) \in Amounts  BY <1>1, <3>1, QuotationType
    <3>3. CalculateKNN(0, b) \in Amounts  BY <1>1, KNNLaw
    <3>4. /\ Multiply(0, 1) = 0 /\ Divide(0, 1) = 0
      <4>1. Multiply(0, 1) \in Nat /\ Multiply(0, 1) * Scale <= 0 * 1  BY MultiplyLaw
      <4>2. Divide(0, 1) \in Nat /\ Divide(0, 1) * 1 <= 0 * Scale  BY DivideLaw, NothingType
      <4>3. QED  BY <4>1, <4>2, ScaleType
    <3>5. CalculateKNN(0, b) = [KNN |-> 0, USD |-> 0, BRL |-> 0, ETH |-> 0, MATIC |-> 0]
      BY <3>4 DEF CalculateKNN
    <3>6. CalculateKNN(0, b)[ask[r].currency] = 0  BY <3>1, <3>5 DEF Currencies
    <3>7. Free[ask[r].currency] = 0  BY <3>1 DEF Free
    <3>8. QED  BY <3>6, <3>7 DEF Covered, GasPaid
  <2>4. q.tokens = 0 /\ q.total.BRL = 0 /\ q.net.BRL = 0 /\ q.bases = b  BY <2>2
  <2>5. Worth(q.tokens, q.total.BRL, q.bases) /\ Worth(q.tokens, q.net.BRL, q.bases)
    BY <2>1, <2>4
  <2> HIDE DEF q, b
  <2>6. QED  BY <1>2, <2>3, <2>4, <2>5 DEF Answered
<1>8. QED  BY <1>3, <1>4, <1>5, <1>6, <1>7 DEF IInv

(* Those are the properties. *)
LEMMA IInvFloor == IInv => FloorKept
<1> SUFFICES ASSUME IInv PROVE FloorKept  OBVIOUS
<1>1. SUFFICES ASSUME NEW r \in Requests,
                      NEW paid \in {quote[r].total.BRL, quote[r].net.BRL}
               PROVE  quote[r].tokens * (Fallback * Scale - quote[r].bases.dollar)
                        * quote[r].bases.usd
                        <= ((paid + 1) * Scale + quote[r].bases.usd) * Scale
                             * quote[r].bases.dollar
  BY DEF FloorKept
<1> DEFINE q == quote[r]
           b == q.bases
<1>2. q \in Priced /\ b \in AllBases /\ q.tokens \in Nat  BY DEF IInv, TypeOK, Priced
<1>3. paid \in Nat
  <2>1. q.total \in Amounts /\ q.net \in Amounts  BY <1>2 DEF Priced
  <2>2. "BRL" \in Currencies  BY DEF Currencies
  <2>3. QED  BY <2>1, <2>2 DEF Amounts
<1>4. Worth(q.tokens, paid, b)  BY DEF IInv, Answered
<1>5. CASE Fallback * Scale < b.knnUsd * b.dollar + b.dollar
  BY <1>2, <1>3, <1>4, <1>5, FloorFromWorth
<1>6. CASE q.tokens = 0
  <2> DEFINE f == Fallback * Scale - b.dollar
             w == ((paid + 1) * Scale + b.usd) * Scale * b.dollar
  <2>1. f \in Int /\ b.usd \in Nat /\ b.dollar \in Nat
    BY <1>2, BasesType, QuotesAssumption DEF Prices
  <2>2. w \in Nat  BY <1>3, <2>1, ScaleType
  <2> HIDE DEF f, w
  <2>3. 0 * f * b.usd <= w  BY <2>1, <2>2
  <2>4. QED  BY <1>6, <2>3 DEF f, w
<1>7. QED  BY <1>5, <1>6 DEF IInv, Answered

LEMMA IInvCovers == IInv => TotalCovers
BY DEF IInv, Answered, Covered, GasPaid, TotalCovers
-----------------------------------------------------------------------------
SlotType == [at : {"idle", "asked", "done", "failed"}, price : Prices]

LEMMA FetchLaw ==
  ASSUME IInv, NEW o \in Oracles, NEW reload \in BOOLEAN
  PROVE  /\ Fetch(o, reload) \in SlotType
         /\ Fetch(o, reload).at = "done" => Fetch(o, reload).price \in Market[o]
<1>1. cache[o].price \in Prices /\ cache[o].expires \in Nat /\ now \in Nat
  BY FeedsType DEF IInv, TypeOK
<1>2. Live(cache[o]) => cache[o].price \in Market[o]  BY <1>1 DEF Live, IInv, Known
<1>3. QED  BY <1>1, <1>2, NothingType DEF Fetch, SlotType

LEMMA CachedLaw ==
  ASSUME IInv, NEW f \in Feeds \ {"knn"}
  PROVE  /\ Cached(f, feed[f]) \in [Feeds \ {"knn"} -> [price : Prices, expires : Nat]]
         /\ \A g \in Oracles : Cached(f, feed[f])[g].expires > 0
                               => Cached(f, feed[f])[g].price \in Market[g]
<1> DEFINE e == [price |-> feed[f], expires |-> now + Ttl[f]]
<1>1. feed[f] \in Prices /\ feed[f] \in Market[f] /\ now \in Nat  BY DEF IInv, TypeOK, Known
<1>2. e \in [price : Prices, expires : Nat] /\ e.price = feed[f]  BY <1>1, FeedsType
<1>3. Cached(f, feed[f]) = [cache EXCEPT ![f] = e]  BY DEF Cached
<1>4. cache \in [Feeds \ {"knn"} -> [price : Prices, expires : Nat]]  BY DEF IInv, TypeOK
<1> HIDE DEF e
<1>5. QED  BY <1>1, <1>2, <1>3, <1>4, FeedsType DEF IInv, Known

(* A request whose price of KNN is there quotes on bases that keep the floor. *)
LEMMA BasesLaw ==
  ASSUME IInv, NEW r \in Requests, knnAt[r] = "done"
  PROVE  /\ Bases(r) \in AllBases
         /\ Fallback * Scale < Bases(r).knnUsd * Bases(r).dollar + Bases(r).dollar
<1>1. slot[r].usd.price \in Prices /\ slot[r].matic.price \in Prices  BY DEF IInv, TypeOK, Slots
<1>2. knn[r] \in Basis /\ Floored(knn[r])  BY DEF IInv, TypeOK, Derived
<1>3. QED  BY <1>1, <1>2 DEF Bases, AllBases, Basis, Floored

LEMMA QuoteStep ==
  ASSUME IInv, NEW r \in Requests, knnAt[r] = "done", NEW gas \in Prices, Quote(r, gas),
         ask' = ask
  PROVE  quote' \in [Requests -> Priced] /\ Answered'
<1> DEFINE a == ask[r]
           b == Bases(r)
           g == GasAmount(a, gas, b)
           q == QuoteOf(a, g, b)
<1>1. a \in Ask /\ quote \in [Requests -> Priced]  BY DEF IInv, TypeOK
<1>2. b \in AllBases /\ Fallback * Scale < b.knnUsd * b.dollar + b.dollar  BY BasesLaw
<1>3. g \in Amounts  BY <1>1, <1>2, GasType
<1>4. CASE UNCHANGED quote
  BY <1>1, <1>4 DEF IInv, Answered
<1>5. CASE NetAmount(a, g) >= 0 /\ quote' = [quote EXCEPT ![r] = q]
  <2> HIDE DEF a, b, g
  <2>1. /\ q \in Priced /\ q.bases = b
        /\ Worth(q.tokens, q.total.BRL, b) /\ Worth(q.tokens, q.net.BRL, b) /\ Covered(a, q)
    BY <1>1, <1>2, <1>3, <1>5, QuoteLaw
  <2> HIDE DEF q
  <2>2. quote' \in [Requests -> Priced]  BY <1>1, <1>5, <2>1
  <2>3. quote'[r] = q /\ \A s \in Requests \ {r} : quote'[s] = quote[s]  BY <1>1, <1>5
  <2>4. ask'[r] = a  BY DEF a
  <2>5. Answered'
    <3>1. SUFFICES ASSUME NEW s \in Requests
          PROVE /\ \/ Fallback * Scale < quote'[s].bases.knnUsd * quote'[s].bases.dollar
                                            + quote'[s].bases.dollar
                   \/ quote'[s].tokens = 0
                /\ Worth(quote'[s].tokens, quote'[s].total.BRL, quote'[s].bases)
                /\ Worth(quote'[s].tokens, quote'[s].net.BRL, quote'[s].bases)
                /\ Covered(ask'[s], quote'[s])
      BY DEF Answered, Worth, Covered
    <3>2. CASE s = r  BY <1>2, <2>1, <2>3, <2>4, <3>2
    <3>3. CASE s # r  BY <2>3, <3>3 DEF IInv, Answered
    <3>4. QED  BY <3>2, <3>3
  <2>6. QED  BY <2>2, <2>5
<1>6. QED  BY <1>4, <1>5 DEF Quote

LEMMA ConvertStep ==
  ASSUME IInv, NEW r \in Requests, Convert(r)
  PROVE  quote' \in [Requests -> Priced] /\ Answered'
<1> DEFINE b == Bases(r)
           w == CalculateKNN(ask[r].amount, b)
           q == [tokens |-> w.KNN, total |-> w, net |-> w, gas |-> Free, bases |-> b]
<1>1. ask[r] \in Ask /\ quote \in [Requests -> Priced] /\ ask' = ask  BY DEF IInv, TypeOK, Convert
<1>2. b \in AllBases /\ Fallback * Scale < b.knnUsd * b.dollar + b.dollar
  BY BasesLaw DEF Convert, Fetched
<1>3. ask[r].amount \in Nat /\ ask[r].currency = "KNN"
  BY <1>1, ConvertAssumption DEF Ask, IInv, Asked, Convert
<1>4. /\ w \in Amounts /\ w.KNN = ask[r].amount
      /\ w.BRL = Multiply(Multiply(ask[r].amount, b.knnUsd), b.usd)
  BY <1>2, <1>3, KNNLaw
<1>5. Worth(w.KNN, w.BRL, b)  BY <1>2, <1>3, <1>4, TokensWorth
<1>6. quote' = [quote EXCEPT ![r] = q]  BY DEF Convert
<1>7. q \in Priced  BY <1>2, <1>3, <1>4, NothingType DEF Priced
<1>8. q.tokens = w.KNN /\ q.total = w /\ q.net = w /\ q.bases = b /\ q.gas = Free  OBVIOUS
<1>9. Covered(ask[r], q)
  <2>1. CalculateKNN(w.KNN, b).KNN = w.KNN  BY <1>2, <1>3, <1>4, KNNLaw
  <2>2. GasPaid(ask[r].currency, q.gas) = 0  BY <1>3 DEF GasPaid
  <2> HIDE DEF q, b, w
  <2>3. QED  BY <1>3, <1>4, <1>8, <2>1, <2>2 DEF Covered
<1> HIDE DEF q, b, w
<1>10. quote'[r] = q /\ \A s \in Requests \ {r} : quote'[s] = quote[s]  BY <1>1, <1>6
<1>11. Worth(q.tokens, q.total.BRL, q.bases) /\ Worth(q.tokens, q.net.BRL, q.bases)
  BY <1>5, <1>8
<1>12. Answered'
  <2>1. SUFFICES ASSUME NEW s \in Requests
        PROVE /\ \/ Fallback * Scale < quote'[s].bases.knnUsd * quote'[s].bases.dollar
                                          + quote'[s].bases.dollar
                 \/ quote'[s].tokens = 0
              /\ Worth(quote'[s].tokens, quote'[s].total.BRL, quote'[s].bases)
              /\ Worth(quote'[s].tokens, quote'[s].net.BRL, quote'[s].bases)
              /\ Covered(ask'[s], quote'[s])
    BY DEF Answered, Worth, Covered
  <2>2. CASE s = r  BY <1>1, <1>2, <1>8, <1>9, <1>10, <1>11, <2>2
  <2>3. CASE s # r  BY <1>1, <1>10, <2>3 DEF IInv, Answered
  <2>4. QED  BY <2>2, <2>3
<1>13. QED  BY <1>1, <1>6, <1>7, <1>12

LEMMA GasFeedLaw ==
  ASSUME IInv, NEW r \in Requests
  PROVE  /\ GasFeed(ask[r]) \in Feeds \ {"knn"}
         /\ cache[GasFeed(ask[r])].price \in Prices /\ feed[GasFeed(ask[r])] \in Prices
<1>1. GasFeed(ask[r]) \in Feeds \ {"knn"}  BY DEF GasFeed, Feeds, Gases, Oracles
<1>2. QED  BY <1>1 DEF IInv, TypeOK

(* Every step of the requests keeps the invariant. *)
LEMMA IInvStep == IInv /\ [Next]_vars => IInv'
<1> SUFFICES ASSUME IInv, [Next]_vars PROVE IInv'  OBVIOUS
<1> USE FeedsType
<1>t. TypeOK /\ Known /\ Asked /\ Derived /\ Priceable /\ Answered  BY DEF IInv
<1>q. UNCHANGED <<ask, quote>> => Answered'
  BY <1>t DEF Answered, Worth, Covered
<1>1. CASE UNCHANGED vars
  BY <1>1, <1>t DEF vars, outside, fetches, IInv, TypeOK, Known, Asked, Derived, Priceable,
                    Answered, Worth, Covered
<1>2. CASE Tick
  <2>1. TypeOK'  BY <1>2, <1>t DEF Tick, fetches, TypeOK
  <2>2. Known' /\ Asked' /\ Derived' /\ Priceable'
    BY <1>2, <1>t DEF Tick, fetches, Known, Asked, Derived, Priceable
  <2>3. QED  BY <1>2, <1>q, <2>1, <2>2 DEF Tick, IInv
<1>3. ASSUME NEW f \in Feeds, Move(f) PROVE IInv'
  <2>1. PICK price \in Market[f] : feed' = [feed EXCEPT ![f] = price]  BY <1>3 DEF Move
  <2>2. TypeOK'
    <3>1. price \in Prices  BY <2>1
    <3>2. events' \in Nat  BY <1>3, <1>t DEF Move, TypeOK
    <3>3. QED  BY <1>3, <1>t, <2>1, <3>1, <3>2 DEF Move, fetches, TypeOK
  <2>3. Known'  BY <1>3, <1>t, <2>1 DEF Move, fetches, TypeOK, Known
  <2>4. Asked' /\ Derived' /\ Priceable'
    BY <1>3, <1>t DEF Move, fetches, Asked, Derived, Priceable
  <2>5. QED  BY <1>3, <1>q, <2>2, <2>3, <2>4 DEF Move, IInv
<1>4. ASSUME NEW r \in Requests, Receive(r) PROVE IInv'
  <2> DEFINE u == Fetch("usd", FALSE)
             e == Fetch("eth", FALSE)
             m == Fetch("matic", ask[r].reload)
  <2>1. /\ u \in SlotType /\ e \in SlotType /\ m \in SlotType
        /\ u.at = "done" => u.price \in Market["usd"]
        /\ e.at = "done" => e.price \in Market["eth"]
        /\ m.at = "done" => m.price \in Market["matic"]
    <3>1. ask[r].reload \in BOOLEAN  BY <1>t DEF TypeOK, Ask
    <3>2. QED  BY <3>1, FetchLaw DEF Oracles
  <2>2. slot' = [slot EXCEPT ![r].usd = u, ![r].eth = e, ![r].matic = m]  BY <1>4 DEF Receive
  <2> HIDE DEF u, e, m
  <2>3. slot \in [Requests -> [Slots -> SlotType]]  BY <1>t DEF TypeOK, SlotType
  <2>4. slot' \in [Requests -> [Slots -> SlotType]]  BY <2>1, <2>2, <2>3 DEF Slots
  <2>5. /\ slot'[r].usd = u /\ slot'[r].eth = e /\ slot'[r].matic = m
        /\ slot'[r].knnUsd = slot[r].knnUsd /\ slot'[r].knnEth = slot[r].knnEth
        /\ \A x \in Requests \ {r} : slot'[x] = slot[x]
    BY <2>2, <2>3 DEF Slots
  <2>6. /\ knn' \in [Requests -> Basis]
        /\ knnAt' \in [Requests -> {"idle", "ticker", "bases", "done"}]
    BY <1>4, <1>t DEF Receive, TypeOK
  <2>7. TypeOK'
    <3>1. pc' \in [Requests -> {"new", "bases", "gas", "quoted", "refused"}]
      BY <1>4, <1>t DEF Receive, TypeOK
    <3>2. QED  BY <1>4, <1>t, <2>4, <2>6, <3>1 DEF Receive, outside, TypeOK, SlotType
  <2>8. Known'
    <3>1. \A x \in Requests : \A s \in Slots :
            slot'[x][s].at = "done" => slot'[x][s].price \in Market[Oracle[s]]
      <4>1. SUFFICES ASSUME NEW x \in Requests, NEW s \in Slots, slot'[x][s].at = "done"
                     PROVE  slot'[x][s].price \in Market[Oracle[s]]
        OBVIOUS
      <4>2. CASE x = r  BY <1>t, <2>1, <2>5, <4>1, <4>2 DEF Slots, Oracle, Known
      <4>3. CASE x # r  BY <1>t, <2>5, <4>1, <4>3 DEF Known
      <4>4. QED  BY <4>2, <4>3
    <3>2. QED  BY <1>4, <1>t, <3>1 DEF Receive, outside, Known
  <2>9. Derived'
    <3>1. CASE Live(knnCache) /\ ~ask[r].reload
      <4>1. Floored(knnCache.basis)  BY <1>t, <3>1 DEF Live, Derived, TypeOK
      <4>2. QED  BY <1>4, <1>t, <3>1, <4>1 DEF Receive, Derived, TypeOK
    <3>2. CASE ~(Live(knnCache) /\ ~ask[r].reload)
      BY <1>4, <1>t, <3>2 DEF Receive, Derived, TypeOK
    <3>3. QED  BY <3>1, <3>2
  <2>10. Priceable'  BY <1>4, <1>t DEF Receive, Priceable, TypeOK
  <2>11. QED  BY <1>4, <1>t, <1>q, <2>7, <2>8, <2>9, <2>10 DEF Receive, IInv, Asked
<1>5. ASSUME NEW r \in Requests, Refuse(r) PROVE IInv'
  <2>1. TypeOK'  BY <1>5, <1>t DEF Refuse, outside, fetches, TypeOK
  <2>2. Known' /\ Asked' /\ Derived' /\ Priceable'
    BY <1>5, <1>t DEF Refuse, outside, fetches, TypeOK, Known, Asked, Derived, Priceable
  <2>3. QED  BY <1>5, <1>q, <2>1, <2>2 DEF Refuse, IInv
<1>6. ASSUME NEW r \in Requests, NEW s \in Slots, Answer(r, s) PROVE IInv'
  <2> DEFINE o == Oracle[s]
             a == [at |-> "done", price |-> feed[o]]
  <2>1. o \in Oracles /\ o \in Feeds \ {"knn"}  OBVIOUS
  <2>2. feed[o] \in Market[o] /\ feed[o] \in Prices  BY <1>t, <2>1 DEF Known
  <2>3. slot' = [slot EXCEPT ![r][s] = a] /\ cache' = Cached(o, feed[o])  BY <1>6 DEF Answer
  <2>4. a \in SlotType /\ a.price = feed[o]  BY <2>2 DEF SlotType
  <2>5. slot \in [Requests -> [Slots -> SlotType]]  BY <1>t DEF TypeOK, SlotType
  <2> HIDE DEF a
  <2>6. slot' \in [Requests -> [Slots -> SlotType]]  BY <2>3, <2>4, <2>5
  <2> HIDE DEF o
  <2>7. TypeOK'
    <3>1. cache' \in [Feeds \ {"knn"} -> [price : Prices, expires : Nat]]
      BY <2>1, <2>3, CachedLaw
    <3>2. QED  BY <1>6, <1>t, <2>6, <3>1 DEF Answer, outside, TypeOK, SlotType
  <2>8. Known'
    <3>1. \A x \in Requests : \A t \in Slots :
            slot'[x][t].at = "done" => slot'[x][t].price \in Market[Oracle[t]]
      BY <1>t, <2>2, <2>3, <2>4, <2>5 DEF Known, o
    <3>2. QED  BY <1>6, <1>t, <2>1, <2>3, <3>1, CachedLaw DEF Answer, outside, Known
  <2>9. Asked' /\ Derived' /\ Priceable'  BY <1>6, <1>t DEF Answer, Asked, Derived, Priceable
  <2>10. QED  BY <1>6, <1>q, <2>7, <2>8, <2>9 DEF Answer, IInv
<1>7. ASSUME NEW r \in Requests, NEW brl \in Market["knn"] \cup {Fallback}, brl >= Fallback,
             Ticker(r, brl), events' \in Nat
      PROVE IInv'
  <2> DEFINE u == Fetch("usd", FALSE)
             e == Fetch("eth", FALSE)
  <2>1. /\ u \in SlotType /\ e \in SlotType
        /\ u.at = "done" => u.price \in Market["usd"]
        /\ e.at = "done" => e.price \in Market["eth"]
    BY FetchLaw DEF Oracles
  <2>2. slot' = [slot EXCEPT ![r].knnUsd = u, ![r].knnEth = e]  BY <1>7 DEF Ticker
  <2> HIDE DEF u, e
  <2>3. slot \in [Requests -> [Slots -> SlotType]]  BY <1>t DEF TypeOK, SlotType
  <2>4. slot' \in [Requests -> [Slots -> SlotType]]  BY <2>1, <2>2, <2>3 DEF Slots
  <2>5. /\ slot'[r].knnUsd = u /\ slot'[r].knnEth = e
        /\ \A s \in {"usd", "eth", "matic"} : slot'[r][s] = slot[r][s]
        /\ \A x \in Requests \ {r} : slot'[x] = slot[x]
    BY <2>2, <2>3 DEF Slots
  <2>6. brl \in Prices  BY QuotesAssumption DEF Feeds
  <2>7. /\ ticker' \in [Requests -> Prices]
        /\ knnAt' \in [Requests -> {"idle", "ticker", "bases", "done"}]
    BY <1>7, <1>t, <2>6 DEF Ticker, TypeOK
  <2>8. TypeOK'  BY <1>7, <1>t, <2>4, <2>7 DEF Ticker, outside, TypeOK, SlotType
  <2>9. Known'
    <3>1. \A x \in Requests : \A s \in Slots :
            slot'[x][s].at = "done" => slot'[x][s].price \in Market[Oracle[s]]
      <4>1. SUFFICES ASSUME NEW x \in Requests, NEW s \in Slots, slot'[x][s].at = "done"
                     PROVE  slot'[x][s].price \in Market[Oracle[s]]
        OBVIOUS
      <4>2. CASE x = r  BY <1>t, <2>1, <2>5, <4>1, <4>2 DEF Slots, Oracle, Known
      <4>3. CASE x # r  BY <1>t, <2>5, <4>1, <4>3 DEF Known
      <4>4. QED  BY <4>2, <4>3
    <3>2. \A x \in Requests : ticker'[x] \in Market["knn"] \cup {Fallback} /\ ticker'[x] >= Fallback
      BY <1>7, <1>t DEF Ticker, TypeOK, Known
    <3>3. QED  BY <1>7, <1>t, <3>1, <3>2 DEF Ticker, outside, Known
  <2>10. Asked' /\ Derived'  BY <1>7, <1>t DEF Ticker, TypeOK, Asked, Derived
  <2>11. Priceable'  BY <1>7, <1>t DEF Ticker, TypeOK, Priceable
  <2>12. QED  BY <1>7, <1>q, <2>8, <2>9, <2>10, <2>11 DEF Ticker, IInv
<1>8. ASSUME NEW r \in Requests, TickerAnswers(r) PROVE IInv'
  <2>1. feed["knn"] \in Market["knn"]  BY <1>t DEF Known
  <2>2. events' \in Nat  BY <1>8, <1>t DEF TickerAnswers, TypeOK
  <2>3. QED  BY <1>7, <1>8, <2>1, <2>2, KnnPriceLaw DEF TickerAnswers
<1>9. ASSUME NEW r \in Requests, TickerFails(r) PROVE IInv'
  <2>1. events' \in Nat  BY <1>9, <1>t DEF TickerFails, Fails, TypeOK
  <2>2. Fallback >= Fallback  BY QuotesAssumption DEF Prices
  <2>3. QED  BY <1>7, <1>9, <2>1, <2>2 DEF TickerFails
<1>10. ASSUME NEW r \in Requests, Derive(r) PROVE IInv'
  <2> DEFINE k == KnnBasis(ticker[r], slot[r].knnUsd.price, slot[r].knnEth.price)
  <2>1. k \in Basis /\ Floored(k)
    <3>1. /\ ticker[r] \in Market["knn"] \cup {Fallback} /\ ticker[r] >= Fallback
          /\ slot[r].knnUsd.price \in Market["usd"] /\ slot[r].knnEth.price \in Market["eth"]
      BY <1>10, <1>t DEF Derive, Known, Slots, Oracle
    <3>2. QED  BY <3>1, BasisLaw
  <2> HIDE DEF k
  <2>2. /\ knn' = [knn EXCEPT ![r] = k]
        /\ knnCache' = [basis |-> knn'[r], expires |-> now + Ttl["knn"]]
        /\ knnAt' = [knnAt EXCEPT ![r] = "done"]
    BY <1>10 DEF Derive, k
  <2>3. knn' \in [Requests -> Basis] /\ knn'[r] = k /\ \A x \in Requests \ {r} : knn'[x] = knn[x]
    BY <1>t, <2>1, <2>2 DEF TypeOK
  <2>4. knnCache' \in [basis : Basis, expires : Nat] /\ knnCache'.basis = k
    BY <1>t, <2>1, <2>2, <2>3 DEF TypeOK
  <2>5. knnAt' \in [Requests -> {"idle", "ticker", "bases", "done"}]  BY <1>t, <2>2 DEF TypeOK
  <2>6. TypeOK'  BY <1>10, <1>t, <2>3, <2>4, <2>5 DEF Derive, outside, TypeOK
  <2>7. Known' /\ Asked'  BY <1>10, <1>t DEF Derive, outside, Known, Asked
  <2>8. Derived'
    <3>1. \A x \in Requests \ {r} : knnAt'[x] = knnAt[x]  BY <1>t, <2>2 DEF TypeOK
    <3>2. QED  BY <1>t, <2>1, <2>3, <2>4, <3>1 DEF Derived
  <2>9. Priceable'  BY <1>10, <1>t, <2>2 DEF Derive, Priceable, TypeOK
  <2>10. QED  BY <1>10, <1>q, <2>6, <2>7, <2>8, <2>9 DEF Derive, IInv
<1>11. ASSUME NEW r \in Requests, NEW s \in Slots, FetchFails(r, s) PROVE IInv'
  <2>1. slot \in [Requests -> [Slots -> SlotType]]  BY <1>t DEF TypeOK, SlotType
  <2>2. slot' = [slot EXCEPT ![r][s].at = "failed"]  BY <1>11 DEF FetchFails
  <2>3. slot' \in [Requests -> [Slots -> SlotType]]  BY <2>1, <2>2 DEF SlotType
  <2>4. events' \in Nat  BY <1>11, <1>t DEF FetchFails, Fails, TypeOK
  <2>5. pc' \in [Requests -> {"new", "bases", "gas", "quoted", "refused"}]
    BY <1>11, <1>t DEF FetchFails, TypeOK
  <2>6. TypeOK'  BY <1>11, <1>t, <2>3, <2>4, <2>5 DEF FetchFails, outside, TypeOK, SlotType
  <2>7. Known'
    <3>1. \A x \in Requests : \A t \in Slots :
            slot'[x][t].at = "done" => slot'[x][t] = slot[x][t]
      BY <2>1, <2>2
    <3>2. QED  BY <1>11, <1>t, <3>1 DEF FetchFails, outside, Known
  <2>8. Asked' /\ Derived' /\ Priceable'
    BY <1>11, <1>t DEF FetchFails, TypeOK, Asked, Derived, Priceable
  <2>9. QED  BY <1>11, <1>q, <2>6, <2>7, <2>8 DEF FetchFails, IInv
<1>12. ASSUME NEW r \in Requests, QuoteWithCachedGas(r) PROVE IInv'
  <2>1. /\ knnAt[r] = "done" /\ Quote(r, cache[GasFeed(ask[r])].price) /\ ask' = ask
        /\ UNCHANGED <<outside, cache, knnCache, ask, fetches, events>>
    BY <1>12 DEF QuoteWithCachedGas, Fetched
  <2>2. quote' \in [Requests -> Priced] /\ Answered'  BY <2>1, GasFeedLaw, QuoteStep
  <2>3. pc' \in [Requests -> {"new", "bases", "gas", "quoted", "refused"}]
    BY <1>t, <2>1 DEF Quote, TypeOK
  <2>4. TypeOK'  BY <1>t, <2>1, <2>2, <2>3 DEF outside, fetches, TypeOK
  <2>5. Known' /\ Asked' /\ Derived'  BY <1>t, <2>1 DEF outside, fetches, Known, Asked, Derived
  <2>6. Priceable'  BY <1>t, <2>1 DEF Quote, fetches, Priceable, TypeOK
  <2>7. QED  BY <2>2, <2>4, <2>5, <2>6 DEF IInv
<1>13. ASSUME NEW r \in Requests, AskGas(r) PROVE IInv'
  <2>1. TypeOK'  BY <1>13, <1>t DEF AskGas, outside, fetches, TypeOK
  <2>2. Known' /\ Asked' /\ Derived'
    BY <1>13, <1>t DEF AskGas, outside, fetches, Known, Asked, Derived
  <2>3. Priceable'  BY <1>13, <1>t DEF AskGas, Fetched, fetches, Priceable, TypeOK
  <2>4. QED  BY <1>13, <1>q, <2>1, <2>2, <2>3 DEF AskGas, IInv
<1>14. ASSUME NEW r \in Requests, QuoteWithGas(r) PROVE IInv'
  <2> DEFINE f == GasFeed(ask[r])
  <2>1. /\ knnAt[r] = "done" /\ Quote(r, feed[f]) /\ ask' = ask /\ cache' = Cached(f, feed[f])
        /\ UNCHANGED <<outside, knnCache, ask, fetches, events>>
    BY <1>14, <1>t DEF QuoteWithGas, Priceable
  <2>2. f \in Feeds \ {"knn"} /\ feed[f] \in Prices  BY GasFeedLaw
  <2> HIDE DEF f
  <2>3. quote' \in [Requests -> Priced] /\ Answered'  BY <2>1, <2>2, QuoteStep
  <2>4. pc' \in [Requests -> {"new", "bases", "gas", "quoted", "refused"}]
    BY <1>t, <2>1 DEF Quote, TypeOK
  <2>5. TypeOK'  BY <1>t, <2>1, <2>2, <2>3, <2>4, CachedLaw DEF outside, fetches, TypeOK
  <2>6. Known'  BY <1>t, <2>1, <2>2, CachedLaw DEF outside, fetches, Known
  <2>7. Asked' /\ Derived'  BY <1>t, <2>1 DEF fetches, Asked, Derived
  <2>8. Priceable'  BY <1>t, <2>1 DEF Quote, fetches, Priceable, TypeOK
  <2>9. QED  BY <2>3, <2>5, <2>6, <2>7, <2>8 DEF IInv
<1>15. ASSUME NEW r \in Requests, GasFails(r) PROVE IInv'
  <2>1. events' \in Nat  BY <1>15, <1>t DEF GasFails, Fails, TypeOK
  <2>2. TypeOK'  BY <1>15, <1>t, <2>1 DEF GasFails, outside, fetches, TypeOK
  <2>3. Known' /\ Asked' /\ Derived' /\ Priceable'
    BY <1>15, <1>t DEF GasFails, outside, fetches, TypeOK, Known, Asked, Derived, Priceable
  <2>4. QED  BY <1>15, <1>q, <2>2, <2>3 DEF GasFails, IInv
<1>16. ASSUME NEW r \in Requests, Convert(r) PROVE IInv'
  <2>1. quote' \in [Requests -> Priced] /\ Answered'  BY <1>16, ConvertStep
  <2>2. TypeOK'  BY <1>16, <1>t, <2>1 DEF Convert, outside, fetches, TypeOK
  <2>3. Known' /\ Asked' /\ Derived' /\ Priceable'
    BY <1>16, <1>t DEF Convert, outside, fetches, TypeOK, Known, Asked, Derived, Priceable
  <2>4. QED  BY <2>1, <2>2, <2>3 DEF IInv
<1>17. QED
  BY <1>1, <1>2, <1>3, <1>4, <1>5, <1>6, <1>8, <1>9, <1>10, <1>11, <1>12, <1>13, <1>14, <1>15,
     <1>16
  DEF Next

(* The variables keep their types; in particular no amount of a quote is ever
   negative, whatever the gas costs. *)
THEOREM TypeCorrect == Spec => []TypeOK
<1>1. IInv => TypeOK  BY DEF IInv
<1>2. QED  BY <1>1, InitIInv, IInvStep, PTL DEF Spec

(* No quote sells tokens below the fallback price of KNN, at the dollar it
   was converted with, however the prices and the caches move. *)
THEOREM FloorIsKept == Spec => []FloorKept
BY IInvFloor, InitIInv, IInvStep, PTL DEF Spec

(* The total of every quote covers its tokens and the gas taken off it, at
   the quote's own prices. *)
THEOREM TotalIsCovering == Spec => []TotalCovers
BY IInvCovers, InitIInv, IInvStep, PTL DEF Spec
==============================================================================
