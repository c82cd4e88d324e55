------------------------------ MODULE MCPrices ------------------------------
(***************************************************************************)
(* Prices for model checking, in two scopes: the rules, or the checkouts.  *)
(***************************************************************************)
EXTENDS PriceRules, CheckoutAmounts, TLC

CONSTANTS q1, c1, c2

VARIABLE scope

MCInit == RulesInit /\ CheckoutInit /\ scope \in {"rules", "checkouts"}

MCNext ==
  /\ UNCHANGED scope
  /\ \/ scope = "rules" /\ RulesNext /\ UNCHANGED checkoutvars
     \/ scope = "checkouts" /\ CheckoutNext /\ UNCHANGED rulevars

MCSpec == MCInit /\ [][MCNext]_<<rulevars, checkoutvars, scope>>

-----------------------------------------------------------------------------
(* Requests: a rental and a burner number, a verification, an eSIM, and a  *)
(* call to a number of the given prefixes, with a carrier or without.      *)
Ask(product, country, carrier, base) ==
  [product |-> product, country |-> country, carrier |-> carrier, service |-> Blank,
   quality |-> Blank, prefixes |-> {}, kind |-> "none", days |-> 0, quantity |-> 1,
   base |-> base]

Dial(carrier) == [Ask("messenger_calls", "US", carrier, 0) EXCEPT !.prefixes = {"+1", "+1212555"}]

MCAsks ==
  {[Ask("rentals", "US", Blank, NumberPrice("rental", 30)) EXCEPT !.kind = "rental", !.days = 30],
   [Ask("rentals", "CA", Blank, NumberPrice("burner", 7)) EXCEPT !.kind = "burner", !.days = 7],
   Ask("esim_store", Blank, Blank, 999),
   Dial(Blank), Dial("twilio")}

(* Rows: general, for a country, for a quality, for a carrier, for a       *)
(* prefix, with a multiplier, switched off.                                *)
Offer(product, country, carrier) ==
  [product |-> product, country |-> country, carrier |-> carrier, service |-> Blank,
   quality |-> Blank, prefix |-> Blank, digits |-> 0, cost |-> 0, margin |-> 0,
   scale |-> 100, active |-> TRUE]

MCOffers ==
  {[Offer("rentals", Blank, Blank) EXCEPT !.cost = 900],
   [Offer("rentals", "US", Blank) EXCEPT !.scale = 110],
   [Offer("rentals", "US", Blank) EXCEPT !.margin = 50, !.quality = "premium"],
   [Offer("rentals", "CA", "telnyx") EXCEPT !.margin = 100, !.scale = 90],
   [Offer("esim_store", Blank, Blank) EXCEPT !.scale = 120, !.active = FALSE],
   [Offer("messenger_calls", Blank, Blank) EXCEPT !.cost = 5, !.prefix = "+44", !.digits = 3],
   [Offer("messenger_calls", "US", Blank) EXCEPT !.cost = 3],
   [Offer("messenger_calls", Blank, "twilio") EXCEPT !.cost = 4],
   [Offer("messenger_calls", Blank, "telnyx") EXCEPT !.cost = 2, !.prefix = "+1212555", !.digits = 8],
   [Offer("messenger_calls", "US", "twilio") EXCEPT !.margin = 1, !.prefix = "+1", !.digits = 2]}

MCItems == {[kind |-> "wallet", price |-> 500], [kind |-> "subscription", price |-> 799]}
MCRates == {100, 150037}
Symmetry == Permutations(Checkouts)
=============================================================================
