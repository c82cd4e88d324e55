----------------------------- MODULE PriceRules -----------------------------
(***************************************************************************)
(* Prices: which row of credit_pricing_rules a quote or a call uses, and   *)
(* what it makes of it, while an operator edits the rows.  A purchase      *)
(* keeps its quote as the price the number is renewed for, and a renewal   *)
(* is quoted again from that price.                                        *)
(*                                                                         *)
(* Amounts are cents.  The two multipliers of a rule are one, in           *)
(* hundredths; its two margins are one.                                    *)
(***************************************************************************)
EXTENDS Cents, Sequences, FiniteSets

CONSTANTS Asks,     \* what is asked for: product, place, carrier, days, ...
          Offers,   \* the rows an operator may write
          Rounds,   \* quotes and rates worked out, one after the other or at once
          MaxRules, \* bound: rows of credit_pricing_rules
          Blank     \* a column left empty

Products == {"rentals", "verify_hub", "proxy_store", "esim_store", "dedicated_ip",
             "messenger_calls"}

ASSUME PricesAssumption ==
  /\ MaxRules \in Nat
  /\ \A o \in Offers :
       /\ {o.cost, o.margin, o.digits} \subseteq Nat
       /\ o.scale \in Nat \ {0}
  /\ \A a \in Asks :
       /\ a.product \in Products /\ {"base", "days"} \subseteq DOMAIN a
       /\ {a.base, a.days, a.quantity} \subseteq Nat
       /\ a.product = "rentals" => a.kind \in {"burner", "rental", "verification"}

VARIABLES rules, \* credit_pricing_rules, by created_at
          round  \* the quotes and rates being worked out

rulevars == <<rules, round>>

NoRule == [product |-> "none"]
Idle == [at |-> "idle"]

RulesInit ==
  /\ rules = <<>>
  /\ round = [r \in Rounds |-> Idle]

-----------------------------------------------------------------------------
(* Multipliers are doubles: a product that should be a whole number of     *)
(* cents may come out just above it, and is then rounded up to the next.   *)
RoundedUp(cents, scale) ==
  IF scale = 100 THEN {cents}
  ELSE IF (cents * scale) % 100 = 0
       THEN {(cents * scale) \div 100, (cents * scale) \div 100 + 1}
       ELSE {Ceil(cents * scale, 100)}

-----------------------------------------------------------------------------
(* The rule of a quote.                                                    *)

Active(table, product) ==
  {i \in DOMAIN table : table[i].product = product /\ table[i].active}

(* resolvePricingRule: a column left empty fits every request ...          *)
Fits(rule, ask) ==
  /\ rule.country \in {Blank, ask.country}
  /\ rule.carrier \in {Blank, ask.carrier}
  /\ rule.service \in {Blank, ask.service}
  /\ rule.quality \in {Blank, ask.quality}

(* ... and one that is filled in counts for the rule.                      *)
Score(rule) ==
  (IF rule.country = Blank THEN 0 ELSE 4) + (IF rule.carrier = Blank THEN 0 ELSE 3)
  + (IF rule.service = Blank THEN 0 ELSE 2) + (IF rule.quality = Blank THEN 0 ELSE 1)

(* The first of those with the highest score.                              *)
First(candidates, rank) ==
  CHOOSE i \in candidates :
    \A j \in candidates : rank[j] < rank[i] \/ (rank[j] = rank[i] /\ i <= j)

(* Seeded fault: the first rule that fits is taken.                        *)
QuoteRuleFirst(table, ask) ==
  LET fitting == {i \in Active(table, ask.product) : Fits(table[i], ask)}
  IN IF fitting = {} THEN NoRule ELSE table[First(fitting, [i \in fitting |-> 0])]

QuoteRule(table, ask) ==
  LET fitting == {i \in Active(table, ask.product) : Fits(table[i], ask)}
  IN IF fitting = {} THEN NoRule
     ELSE table[First(fitting, [i \in fitting |-> Score(table[i])])]

-----------------------------------------------------------------------------
(* The price of a quote.                                                   *)

(* getNumberProductBasePriceUsdCents: so much for the usual days, and in   *)
(* proportion for more or fewer (a half cent goes up; doubles may differ). *)
NumberPrice(kind, days) ==
  CASE kind = "burner" -> Larger(1, Nearest(599 * days, 7))
    [] kind = "rental" -> Larger(1, Nearest(1599 * days, 30))
    [] kind = "verification" -> 99

(* What the environment or the code says when no rule gives a cost.        *)
DefaultCost(ask) ==
  CASE ask.product = "rentals" -> NumberPrice(ask.kind, ask.days)
    [] ask.product = "proxy_store" -> 199 * Larger(1, ask.days)
    [] ask.product = "esim_store" -> 999
    [] ask.product = "dedicated_ip" -> 499
    [] OTHER -> 99

(* Seeded fault: the rule's cost goes before the caller's price.           *)
CostOfRule(ask, rule) ==
  IF rule # NoRule /\ rule.cost > 0 THEN rule.cost
  ELSE IF ask.base > 0 THEN ask.base
  ELSE DefaultCost(ask)

(* resolveProviderCostUsdCents: the price the caller brings, or the        *)
(* rule's, or the default.                                                 *)
Cost(ask, rule) ==
  IF ask.base > 0 THEN ask.base
  ELSE IF rule # NoRule /\ rule.cost > 0 THEN rule.cost
  ELSE DefaultCost(ask)

Margin(rule) == IF rule = NoRule THEN 0 ELSE rule.margin
Scale(rule) == IF rule = NoRule THEN 100 ELSE rule.scale

(* quoteCreditsPrice.                                                      *)
Prices(ask, rule) ==
  RoundedUp(Cost(ask, rule) * Larger(1, ask.quantity) + Margin(rule), Scale(rule))

-----------------------------------------------------------------------------
(* The rate of a call.                                                     *)

(* resolveRateForDestination: without a preferred carrier a rule of any    *)
(* carrier will do; a prefix counts for more the longer it is.             *)
FitsCall(rule, ask) ==
  /\ rule.carrier = Blank \/ ask.carrier \in {Blank, rule.carrier}
  /\ rule.country \in {Blank, ask.country}
  /\ rule.prefix = Blank \/ rule.prefix \in ask.prefixes

CallScore(rule, ask) ==
  (IF rule.carrier # Blank /\ rule.carrier = ask.carrier THEN 8 ELSE 0)
  + (IF rule.country = Blank THEN 0 ELSE 4)
  + (IF rule.prefix = Blank THEN 0 ELSE 16 + rule.digits)

(* When no rule fits, the first that names neither a country nor a carrier *)
(* is taken, whatever its prefix.                                          *)
CallRule(table, ask) ==
  LET listed == Active(table, "messenger_calls")
      fitting == {i \in listed : FitsCall(table[i], ask)}
      general == {i \in listed : table[i].country = Blank /\ table[i].carrier = Blank}
  IN IF fitting # {} THEN table[First(fitting, [i \in fitting |-> CallScore(table[i], ask)])]
     ELSE IF general # {} THEN table[First(general, [i \in general |-> 0])]
     ELSE NoRule

(* Credits a minute: cost and margin, without the multipliers.             *)
CallRate(rule) == Larger(1, rule.cost + rule.margin)

-----------------------------------------------------------------------------
(* Steps.                                                                  *)

(* upsertPricingRule: a new row, or the row with the given id as it was    *)
(* read, each column replaced.  (No endpoint calls it yet; rows are also   *)
(* written beside the API.)                                                *)
AddRule(o) ==
  /\ Len(rules) < MaxRules
  /\ rules' = Append(rules, o)
  /\ UNCHANGED round

EditRule(i, o) ==
  /\ o # rules[i]
  /\ rules' = [rules EXCEPT ![i] = o]
  /\ UNCHANGED round

(* quote and resolveRateForDestination read the rows once ...              *)
Chosen(ask) ==
  IF ask.product = "messenger_calls" THEN CallRule(rules, ask) ELSE QuoteRule(rules, ask)

Begin(r, ask, shown) ==
  round' = [round EXCEPT ![r] =
    [at |-> "read", ask |-> ask, shown |-> shown, rule |-> Chosen(ask), table |-> rules]]

Read(r, ask) ==
  /\ round[r] = Idle
  /\ Begin(r, ask, 0)
  /\ UNCHANGED rules

(* ... and what was quoted stays, whatever becomes of the rules: it is     *)
(* logged and is the amount held, or the rate stored with the call.        *)
Quote(r) ==
  /\ round[r].at = "read" /\ round[r].ask.product # "messenger_calls"
  /\ \E cents \in Prices(round[r].ask, round[r].rule) :
       round' = [round EXCEPT ![r] =
         [at |-> "priced", ask |-> @.ask, shown |-> @.shown, rule |-> @.rule,
          table |-> @.table, cents |-> cents]]
  /\ UNCHANGED rules

Rate(r) ==
  /\ round[r].at = "read" /\ round[r].ask.product = "messenger_calls"
  /\ round' = [round EXCEPT ![r] =
       IF @.rule = NoRule THEN Idle   \* no rate, no call
       ELSE [at |-> "priced", ask |-> @.ask, shown |-> 0, rule |-> @.rule,
             table |-> @.table, cents |-> CallRate(@.rule)]]
  /\ UNCHANGED rules

(* renew: quoted for 30 days from the price stored with the number, which  *)
(* is what its purchase was quoted.                                        *)
Renew(r) ==
  /\ round[r].at = "priced" /\ round[r].ask.product = "rentals"
  /\ LET stored == IF round[r].shown = 0 THEN round[r].cents ELSE round[r].shown
     IN Begin(r, [round[r].ask EXCEPT !.base = stored, !.days = 30], stored)
  /\ UNCHANGED rules

RulesNext ==
  \/ \E o \in Offers : AddRule(o)
  \/ \E i \in DOMAIN rules, o \in Offers : EditRule(i, o)
  \/ \E r \in Rounds, a \in Asks : Read(r, a)
  \/ \E r \in Rounds : Quote(r) \/ Rate(r) \/ Renew(r)

RulesSpec == RulesInit /\ [][RulesNext]_rulevars

-----------------------------------------------------------------------------
(* Correctness.                                                            *)

Call(ask) == ask.product = "messenger_calls"

(* Which columns of a rule count for a request it fits: a carrier does for *)
(* a call only when it was asked for.                                      *)
Columns(rule, ask) ==
  IF Call(ask)
  THEN {c \in {"country", "prefix"} : rule[c] # Blank}
       \cup {c \in {"carrier"} : rule.carrier # Blank /\ rule.carrier = ask.carrier}
  ELSE {c \in {"country", "carrier", "service", "quality"} : rule[c] # Blank}

(* How much of the number called the rule names.                           *)
Digits(rule, ask) == IF Call(ask) /\ rule.prefix # Blank THEN rule.digits ELSE 0

Fitting(table, ask) ==
  {i \in Active(table, ask.product) :
     IF Call(ask) THEN FitsCall(table[i], ask) ELSE Fits(table[i], ask)}

(* A rule says more than another: all that it says, and a further column   *)
(* or more of the number.  (Two prefixes that fit one number: the longer   *)
(* one begins with the other.)                                             *)
SaysMore(rule, other, ask) ==
  LET more == Columns(rule, ask)
      less == Columns(other, ask)
  IN /\ less \subseteq more /\ Digits(rule, ask) >= Digits(other, ask)
     /\ less # more \/ Digits(rule, ask) > Digits(other, ask)

(* resolvePricingRule and resolveRateForDestination: a rule that fits the  *)
(* request is used if there is one; no rule that fits and says more than   *)
(* the one used is passed over, and of rules that say as much in the same  *)
(* columns the oldest is used.  The weights of the columns are right       *)
(* however rules are combined and edited.                                  *)
MostSpecificRule ==
  \A r \in Rounds : round[r] # Idle =>
    LET ask == round[r].ask
        used == round[r].rule
        table == round[r].table
        fitting == Fitting(table, ask)
    IN fitting # {} =>
         \E i \in fitting :
           /\ table[i] = used
           /\ \A j \in fitting :
                /\ ~SaysMore(table[j], used, ask)
                /\ j < i => \/ Columns(table[j], ask) # Columns(used, ask)
                            \/ SaysMore(used, table[j], ask)

(* renew: what a renewal takes is never less than the renewal price the    *)
(* number shows, whatever rules were added or edited since, as long as no  *)
(* rule has a multiplier below one.                                        *)
RenewalCoversShown ==
  \A r \in Rounds :
    round[r].at = "priced" /\ Scale(round[r].rule) >= 100 => round[r].cents >= round[r].shown
=============================================================================
