------------------------------- MODULE Units -------------------------------
(***************************************************************************)
(* Prices as quantities with a unit.  A price of the pair BTC/USD is an    *)
(* amount of USD per BTC; multiplying and dividing prices multiplies and   *)
(* divides their units.  A fetcher that multiplies where it should divide, *)
(* prices the wrong asset or loses a power of ten returns a number in      *)
(* another unit than the pair it names: no test of the shape of an entry   *)
(* sees that, and the exchanges' live prices hide it when a rate is near 1.*)
(*                                                                         *)
(* A unit is a function to the integers: the exponent of each dimension.   *)
(* The dimensions are the currencies and "ten", for a factor of 10.        *)
(***************************************************************************)
EXTENDS Integers

CONSTANT Currencies   \* the tickers

Stables == {"USDT", "USDC"}

\* They are in supported_assets.yaml, where tickers are in capitals.
ASSUME UnitsAssumption == Stables \subseteq Currencies /\ "ten" \notin Currencies

\* "US Dollar (18 decimals)" of supported_assets.yaml is the US dollar.
Dims == (Currencies \cup {"USD", "ten"}) \ {"USDPLUS"}
Dim(c) == IF c = "USDPLUS" THEN "USD" ELSE c

Unit == [Dims -> Int]

One == [d \in Dims |-> 0]
In(c) == [d \in Dims |-> IF d = Dim(c) THEN 1 ELSE 0]
Tens(n) == [d \in Dims |-> IF d = "ten" THEN n ELSE 0]
Times(u, v) == [d \in Dims |-> u[d] + v[d]]
Over(u, v) == [d \in Dims |-> u[d] - v[d]]

Pair(base, quote) == [base |-> base, quote |-> quote]

\* The unit of a price of the pair p: quote per base.
Price(p) == Over(In(p.quote), In(p.base))

\* The unit once the stablecoins are read as US dollars.
UpToStables(u) ==
  [d \in Dims |-> IF d = "USD" THEN u["USD"] + u["USDT"] + u["USDC"]
                  ELSE IF d \in Stables THEN 0 ELSE u[d]]
=============================================================================
