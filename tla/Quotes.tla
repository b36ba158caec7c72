------------------------------- MODULE Quotes -------------------------------
(***************************************************************************)
(* The price of an order (create-quote.usecase.ts,                         *)
(* fixed-point-calculus.adapter.ts, knn-to-currencies.usecase.ts and the   *)
(* adapters of the prices).                                                *)
(*                                                                         *)
(* A quote is computed in fixed-point numbers, each operation of which     *)
(* rounds down, from the dollar in BRL, the prices of KNN in USD and in    *)
(* ETH, of MATIC in ETH, and of gas.  Each is kept in a cache with a       *)
(* lifetime of its own and renewed by whichever request finds it expired;  *)
(* the price of KNN is the exchange's in BRL, divided by the dollar of     *)
(* that moment.  The requests of one process; processes share nothing.     *)
(***************************************************************************)
EXTENDS Integers

CONSTANTS
  Requests,
  Asks,          (* what each request may ask                               *)
  Scale,         (* one, as a fixed-point number: 10^18 in the code         *)
  EstimatedGas,  (* gas of a type of transaction                            *)
  KnnFloor, KnnCeiling, Fallback,   (* of KNN in BRL                        *)
  MinimumTotal, Exempt,             (* totals in BRL that may be ordered    *)
  Market,        (* the prices outside, by feed                             *)
  Opening,       (* those at the start                                      *)
  Ttl,           (* lifetimes, in ticks of the clock                        *)
  MaxTime,       (* bound: the clock                                        *)
  FaultKinds,    (* calls that may fail                                     *)
  MaxEvents      (* bound: price changes outside and failed calls           *)

Oracles == {"usd", "eth", "matic"}

Gases == {"gasL1", "gasL2"}

Feeds == Oracles \cup Gases \cup {"knn"}

Currencies == {"BRL", "USD", "KNN", "ETH", "MATIC"}

Types == {"Transfer", "LockSupply", "Claim"}

Ask == [kind : {"quote", "convert"}, currency : Currencies, amount : Nat,
        layer : {"L1", "L2"}, type : Types, reload : BOOLEAN]

AllFaultKinds == {"oracle", "ticker", "gas"}

Prices == Nat \ {0}

ASSUME QuotesAssumption ==
  /\ Asks \in [Requests -> SUBSET Ask]
  /\ Scale \in Prices /\ Fallback \in Prices /\ KnnFloor \in Prices /\ KnnCeiling \in Nat
  /\ EstimatedGas \in [Types -> Nat]
  /\ MinimumTotal \in Nat /\ Exempt \subseteq Nat
  /\ Market \in [Feeds -> SUBSET Prices]
  /\ Ttl \in [Feeds -> Nat]
  /\ Opening \in [Feeds -> Prices] /\ \A f \in Feeds : Opening[f] \in Market[f]
  /\ MaxTime \in Nat /\ MaxEvents \in Nat
  /\ FaultKinds \subseteq AllFaultKinds

(* The statistics ask for the worth of an amount of tokens, never anew. *)
ASSUME ConvertAssumption ==
  \A r \in Requests : \A a \in Asks[r] : a.kind = "convert" => a.currency = "KNN" /\ ~a.reload

(* The price of KNN never rounds to nothing. *)
ASSUME PriceAssumption ==
  \A brl \in Market["knn"] \cup {Fallback} :
    \A usd \in Market["usd"] :
      /\ (brl * Scale) \div usd > 0
      /\ \A eth \in Market["eth"] : (((brl * Scale) \div usd) * Scale) \div eth > 0
-----------------------------------------------------------------------------
(* FixedPointCalculusAdapter *)

Divide_Up(a, b) == (a * Scale + b - 1) \div b

Divide(a, b) == (a * Scale) \div b

Multiply(a, b) == (a * b) \div Scale

(* The five strategies, from an amount and the bases
   [usd : BRL per USD, knnUsd : USD per KNN, knnEth : ETH per KNN,
    matic : ETH per MATIC]. *)

CalculateKNN(amount, b) ==
  LET usd == Multiply(amount, b.knnUsd)
      eth == Multiply(amount, b.knnEth)
  IN  [KNN |-> amount, USD |-> usd, BRL |-> Multiply(usd, b.usd),
       ETH |-> eth, MATIC |-> Divide(eth, b.matic)]

CalculateUSD(amount, b) ==
  LET knn == Divide(amount, b.knnUsd)
      eth == Multiply(knn, b.knnEth)
  IN  [KNN |-> knn, USD |-> amount, BRL |-> Multiply(amount, b.usd),
       ETH |-> eth, MATIC |-> Divide(eth, b.matic)]

CalculateBRL(amount, b) ==
  [CalculateUSD(Divide(amount, b.usd), b) EXCEPT !.BRL = amount]

CalculateETH(amount, b) ==
  LET knn == Divide(amount, b.knnEth)
      usd == Multiply(knn, b.knnUsd)
  IN  [KNN |-> knn, USD |-> usd, BRL |-> Multiply(usd, b.usd),
       ETH |-> amount, MATIC |-> Divide(amount, b.matic)]

CalculateMATIC(amount, b) ==
  [CalculateETH(Multiply(amount, b.matic), b) EXCEPT !.MATIC = amount]

Quotation(currency, amount, b) ==
  CASE currency = "BRL"   -> CalculateBRL(amount, b)
    [] currency = "USD"   -> CalculateUSD(amount, b)
    [] currency = "KNN"   -> CalculateKNN(amount, b)
    [] currency = "ETH"   -> CalculateETH(amount, b)
    [] currency = "MATIC" -> CalculateMATIC(amount, b)

(* calculateGas: the gas of the layer in every currency *)
GasAmount(a, gas, b) ==
  LET amount == Multiply(EstimatedGas[a.type] * Scale, gas)
  IN  IF a.layer = "L2" THEN CalculateMATIC(amount, b) ELSE CalculateETH(amount, b)

(* prepareEntryAmount *)
NetAmount(a, gasAmount) ==
  CASE a.currency \in {"BRL", "USD"} -> a.amount - gasAmount[a.currency]
    [] a.currency = "KNN"            -> a.amount + gasAmount.KNN
    [] OTHER                         -> a.amount

(* validateMinimumAmount *)
Payable(type, brl) == type = "Transfer" \/ brl >= MinimumTotal \/ brl \in Exempt

(* validateEntry *)
Valid(a) ==
  /\ a.currency = "BRL" => Payable(a.type, a.amount)
  /\ a.currency = "ETH" => a.layer = "L1"
  /\ a.currency = "MATIC" => a.layer = "L2"
-----------------------------------------------------------------------------
(* A fetch of an oracle's price by a request, for the quote or for the price
   of KNN in USD and ETH *)
Slots == {"usd", "eth", "matic", "knnUsd", "knnEth"}

Basis == [usd : Prices, eth : Prices, dollar : Prices]

NoBasis == [usd |-> 1, eth |-> 1, dollar |-> 1]

Free == [c \in Currencies |-> 0]

Oracle == [s \in Slots |-> CASE s = "knnUsd" -> "usd" [] s = "knnEth" -> "eth" [] OTHER -> s]

VARIABLES
  now, feed,
  cache,      (* the last price, by feed, and when it expires               *)
  knnCache,   (* the price of KNN; dollar: a history, the dollar it is from *)
  pc, ask,    (* a request                                                  *)
  slot,       (* where each of its fetches is, and the price                *)
  knnAt, ticker, knn,   (* where its fetch of the price of KNN is           *)
  quote,      (* what it answered                                           *)
  events

outside == <<now, feed>>
fetches == <<slot, knnAt, ticker, knn>>
vars    == <<outside, cache, knnCache, pc, ask, fetches, quote, events>>

Fails(kind) ==
  /\ kind \in FaultKinds
  /\ events > 0
  /\ events' = events - 1

Tick ==
  /\ now < MaxTime
  /\ now' = now + 1
  /\ UNCHANGED <<feed, cache, knnCache, pc, ask, fetches, quote, events>>

(* A price moves outside. *)
Move(f) ==
  /\ events > 0
  /\ events' = events - 1
  /\ \E price \in Market[f] \ {feed[f]} : feed' = [feed EXCEPT ![f] = price]
  /\ UNCHANGED <<now, cache, knnCache, pc, ask, fetches, quote>>

(* getCachedBasis *)
Live(entry) == entry.expires > now

Cached(f, price) == [cache EXCEPT ![f] = [price |-> price, expires |-> now + Ttl[f]]]

(* The first, synchronous part of a fetch *)
Fetch(o, reload) ==
  IF Live(cache[o]) /\ ~reload
  THEN [at |-> "done", price |-> cache[o].price]
  ELSE [at |-> "asked", price |-> 1]

(* All four prices are fetched at once.  Only the price of MATIC and that of
   KNN are asked again when the request wants it. *)
Receive(r) ==
  /\ pc[r] = "new" /\ Valid(ask[r])
  /\ pc'   = [pc EXCEPT ![r] = "bases"]
  /\ slot' = [slot EXCEPT ![r].usd = Fetch("usd", FALSE), ![r].eth = Fetch("eth", FALSE),
                          ![r].matic = Fetch("matic", ask[r].reload)]
  /\ IF Live(knnCache) /\ ~ask[r].reload
     THEN /\ knn'   = [knn EXCEPT ![r] = knnCache.basis]
          /\ knnAt' = [knnAt EXCEPT ![r] = "done"]
     ELSE /\ knnAt' = [knnAt EXCEPT ![r] = "ticker"]
          /\ UNCHANGED knn
  /\ UNCHANGED <<outside, cache, knnCache, ask, ticker, quote, events>>

Refuse(r) ==
  /\ pc[r] = "new" /\ ~Valid(ask[r])
  /\ pc' = [pc EXCEPT ![r] = "refused"]
  /\ UNCHANGED <<outside, cache, knnCache, ask, fetches, quote, events>>

(* The oracle has answered, and the price is in the cache. *)
Answer(r, s) ==
  /\ slot[r][s].at = "asked"
  /\ LET o == Oracle[s]
     IN  /\ slot'  = [slot EXCEPT ![r][s] = [at |-> "done", price |-> feed[o]]]
         /\ cache' = Cached(o, feed[o])
  /\ UNCHANGED <<outside, knnCache, pc, ask, knnAt, ticker, knn, quote, events>>

KnnPrice_NoFallback(brl) == IF brl < KnnFloor \/ brl > KnnCeiling THEN Fallback ELSE brl

(* getPrice and getPriceWithFallback *)
KnnPrice(brl) ==
  IF brl < KnnFloor \/ brl > KnnCeiling \/ brl < Fallback THEN Fallback ELSE brl

(* The exchange has answered, or failed; now the dollar and the price of ETH
   are fetched. *)
Ticker(r, brl) ==
  /\ knnAt[r] = "ticker"
  /\ ticker' = [ticker EXCEPT ![r] = brl]
  /\ knnAt'  = [knnAt EXCEPT ![r] = "bases"]
  /\ slot'   = [slot EXCEPT ![r].knnUsd = Fetch("usd", FALSE), ![r].knnEth = Fetch("eth", FALSE)]
  /\ UNCHANGED <<outside, cache, knnCache, pc, ask, knn, quote>>

TickerAnswers(r) == Ticker(r, KnnPrice(feed["knn"])) /\ UNCHANGED events

TickerFails(r) == Fails("ticker") /\ Ticker(r, Fallback)

KnnBasis(brl, usd, eth) ==
  LET knnUsd == Divide(brl, usd)
  IN  [usd |-> knnUsd, eth |-> Divide(knnUsd, eth), dollar |-> usd]

Derive(r) ==
  /\ knnAt[r] = "bases" /\ slot[r].knnUsd.at = "done" /\ slot[r].knnEth.at = "done"
  /\ knn' = [knn EXCEPT ![r] = KnnBasis(ticker[r], slot[r].knnUsd.price, slot[r].knnEth.price)]
  /\ knnCache' = [basis |-> knn'[r], expires |-> now + Ttl["knn"]]
  /\ knnAt' = [knnAt EXCEPT ![r] = "done"]
  /\ UNCHANGED <<outside, cache, pc, ask, slot, ticker, quote, events>>

(* A call fails, or its answer is out of range, and the request with it; its
   other fetches go on. *)
FetchFails(r, s) ==
  /\ slot[r][s].at = "asked"
  /\ Fails("oracle")
  /\ slot' = [slot EXCEPT ![r][s].at = "failed"]
  /\ pc'   = [pc EXCEPT ![r] = "refused"]
  /\ UNCHANGED <<outside, cache, knnCache, ask, knnAt, ticker, knn, quote>>

Fetched(r) ==
  /\ pc[r] = "bases" /\ knnAt[r] = "done"
  /\ \A s \in {"usd", "eth", "matic"} : slot[r][s].at = "done"

Bases(r) == [usd |-> slot[r].usd.price, matic |-> slot[r].matic.price,
             knnUsd |-> knn[r].usd, knnEth |-> knn[r].eth, dollar |-> knn[r].dollar]

(* The gas has been taken off the amount, and what is left priced: the quote
   of ask a. *)
QuoteOf(a, gasIn, b) ==
  LET net == Quotation(a.currency, NetAmount(a, gasIn), b)
  IN  [tokens |-> IF a.currency = "KNN" THEN a.amount ELSE net.KNN,
       total  |-> Quotation(a.currency, a.amount, b), net |-> net,
       gas    |-> gasIn, bases |-> b]

Quote_Underflows(r, gas) ==
  LET q == QuoteOf(ask[r], GasAmount(ask[r], gas, Bases(r)), Bases(r))
  IN  quote' = [quote EXCEPT ![r] = q] /\ pc' = [pc EXCEPT ![r] = "quoted"]

(* The rest of execute, once the price of gas is known.  Without tokens there
   is no price per token, and a division by zero. *)
Quote(r, gas) ==
  LET a     == ask[r]
      gasIn == GasAmount(a, gas, Bases(r))
      q     == QuoteOf(a, gasIn, Bases(r))
  IN  IF NetAmount(a, gasIn) >= 0 /\ Payable(a.type, q.total.BRL) /\ q.tokens > 0
      THEN /\ quote' = [quote EXCEPT ![r] = q]
           /\ pc'    = [pc EXCEPT ![r] = "quoted"]
      ELSE pc' = [pc EXCEPT ![r] = "refused"] /\ UNCHANGED quote

GasFeed(a) == IF a.layer = "L2" THEN "gasL2" ELSE "gasL1"

(* Of the two prices of gas only Ethereum's is asked again when wanted. *)
IsGasCached(r) == Live(cache[GasFeed(ask[r])]) /\ ~(ask[r].layer = "L1" /\ ask[r].reload)

QuoteWithCachedGas(r) ==
  /\ Fetched(r) /\ ask[r].kind = "quote" /\ IsGasCached(r)
  /\ Quote(r, cache[GasFeed(ask[r])].price)
  /\ UNCHANGED <<outside, cache, knnCache, ask, fetches, events>>

AskGas(r) ==
  /\ Fetched(r) /\ ask[r].kind = "quote" /\ ~IsGasCached(r)
  /\ pc' = [pc EXCEPT ![r] = "gas"]
  /\ UNCHANGED <<outside, cache, knnCache, ask, fetches, quote, events>>

QuoteWithGas(r) ==
  /\ pc[r] = "gas"
  /\ LET f == GasFeed(ask[r]) IN Quote(r, feed[f]) /\ cache' = Cached(f, feed[f])
  /\ UNCHANGED <<outside, knnCache, ask, fetches, events>>

GasFails(r) ==
  /\ pc[r] = "gas" /\ Fails("gas")
  /\ pc' = [pc EXCEPT ![r] = "refused"]
  /\ UNCHANGED <<outside, cache, knnCache, ask, fetches, quote>>

(* KnnToCurrenciesUseCase: the worth of tokens, for the statistics *)
Convert(r) ==
  /\ Fetched(r) /\ ask[r].kind = "convert"
  /\ LET worth == CalculateKNN(ask[r].amount, Bases(r))
     IN  quote' = [quote EXCEPT ![r] = [tokens |-> worth.KNN, total |-> worth, net |-> worth,
                                       gas |-> Free, bases |-> Bases(r)]]
  /\ pc' = [pc EXCEPT ![r] = "quoted"]
  /\ UNCHANGED <<outside, cache, knnCache, ask, fetches, events>>

Init ==
  /\ now = 0 /\ feed = Opening /\ events = MaxEvents
  /\ cache = [f \in Feeds \ {"knn"} |-> [price |-> 1, expires |-> 0]]
  /\ knnCache = [basis |-> NoBasis, expires |-> 0]
  /\ pc = [r \in Requests |-> "new"]
  /\ ask \in {a \in [Requests -> UNION {Asks[r] : r \in Requests}] :
               \A r \in Requests : a[r] \in Asks[r]}
  /\ slot = [r \in Requests |-> [s \in Slots |-> [at |-> "idle", price |-> 1]]]
  /\ knnAt = [r \in Requests |-> "idle"]
  /\ ticker = [r \in Requests |-> Fallback]
  /\ knn = [r \in Requests |-> NoBasis]
  /\ quote = [r \in Requests |-> [tokens |-> 0, total |-> Free, net |-> Free, gas |-> Free,
                                  bases |-> [usd |-> 1, matic |-> 1, knnUsd |-> 1, knnEth |-> 1,
                                             dollar |-> 1]]]

Next ==
  \/ Tick
  \/ \E f \in Feeds : Move(f)
  \/ \E r \in Requests :
       \/ Receive(r) \/ Refuse(r)
       \/ \E s \in Slots : Answer(r, s) \/ FetchFails(r, s)
       \/ TickerAnswers(r) \/ TickerFails(r) \/ Derive(r)
       \/ QuoteWithCachedGas(r) \/ AskGas(r) \/ QuoteWithGas(r) \/ GasFails(r)
       \/ Convert(r)

Spec == Init /\ [][Next]_vars
-----------------------------------------------------------------------------
AllBases == [usd : Prices, matic : Prices, knnUsd : Prices, knnEth : Prices, dollar : Prices]

Amounts == [Currencies -> Nat]

Priced == [tokens : Nat, total : Amounts, net : Amounts, gas : Amounts, bases : AllBases]

(* The values the variables take; every amount of a quote is a natural
   number, no gas is worth more than what is paid. *)
TypeOK ==
  /\ now \in Nat /\ events \in Nat
  /\ feed \in [Feeds -> Prices]
  /\ cache \in [Feeds \ {"knn"} -> [price : Prices, expires : Nat]]
  /\ knnCache \in [basis : Basis, expires : Nat]
  /\ pc \in [Requests -> {"new", "bases", "gas", "quoted", "refused"}]
  /\ ask \in [Requests -> Ask]
  /\ slot \in [Requests -> [Slots -> [at : {"idle", "asked", "done", "failed"},
                                      price : Prices]]]
  /\ knnAt \in [Requests -> {"idle", "ticker", "bases", "done"}]
  /\ ticker \in [Requests -> Prices]
  /\ knn \in [Requests -> Basis]
  /\ quote \in [Requests -> Priced]

(* Tokens are never sold below the fallback price of KNN at the dollar that
   price was converted with, whatever fell in price between the exchange's
   answer, the caches and the quote, up to the rounding of the three
   operations in between. *)
FloorKept ==
  \A r \in Requests : \A paid \in {quote[r].total.BRL, quote[r].net.BRL} :
    LET q == quote[r]
    IN  q.tokens * (Fallback * Scale - q.bases.dollar) * q.bases.usd
          <= ((paid + 1) * Scale + q.bases.usd) * Scale * q.bases.dollar

(* The total of a quote covers, in the currency asked, what its tokens are
   worth at the same prices and, where the gas is taken off the amount, the
   gas: asking back the price of the tokens never costs more than they did. *)
TotalCovers ==
  \A r \in Requests :
    LET q == quote[r]
        c == ask[r].currency
    IN  CalculateKNN(q.tokens, q.bases)[c] + (IF c \in {"BRL", "USD"} THEN q.gas[c] ELSE 0)
          <= q.total[c]
=============================================================================
