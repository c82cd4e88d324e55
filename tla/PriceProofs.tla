----------------------------- MODULE PriceProofs -----------------------------
(***************************************************************************)
(* Proofs about PriceRules and CheckoutAmounts, for any rows, requests,    *)
(* items, rates and times.                                                 *)
(*                                                                         *)
(* The rule of a quote is the one of the highest score, and of those the   *)
(* first: there is one because the rows are finitely many (the row that    *)
(* fewest others beat is beaten by none).  That it is the most specific    *)
(* one is a fact about the weights: a rule that says more scores more.     *)
(* What is proved of the steps is that a quote keeps the rule, the rows    *)
(* and the request it was made of, and that a renewal is asked for the     *)
(* price it shows.                                                         *)
(*                                                                         *)
(* A checkout's amounts follow its rate: RateFrom says from which tick of  *)
(* the market the rate in the cache, in a fetch and in a priced checkout   *)
(* can be.                                                                 *)
(***************************************************************************)
EXTENDS PriceRules, CheckoutAmounts, FiniteSetTheorems, WellFoundedInduction, TLAPS

-----------------------------------------------------------------------------
(* The first of the highest rank.                                          *)

(* What is taken before i.                                                 *)
Before(T, rank, i) == {j \in T : rank[j] > rank[i] \/ (rank[j] = rank[i] /\ j < i)}

IsFirst(T, rank, i) ==
  \A j \in T : rank[j] < rank[i] \/ (rank[j] = rank[i] /\ i <= j)

(* Sets of candidates get no smaller forever, so that some candidate has   *)
(* no other with fewer before it; then none is.                            *)
LEMMA FirstExists ==
  ASSUME NEW n \in Nat, NEW T \in SUBSET (1..n), NEW rank \in [T -> Nat], T # {}
  PROVE  \E i \in T : IsFirst(T, rank, i)
<1>1. ASSUME NEW U \in SUBSET T PROVE IsFiniteSet(U)
  <2>1. IsFiniteSet(1..n)
    BY FS_Interval, 1 \in Int, n \in Int
  <2>2. U \in SUBSET (1..n)
    OBVIOUS
  <2> QED  BY ONLY <2>1, <2>2, FS_Subset
<1> DEFINE S == {Before(T, rank, i) : i \in T}
<1>2. S \subseteq FiniteSubsetsOf(T) /\ S # {}
  <2>1. \A i \in T : Before(T, rank, i) \in SUBSET T
    BY DEF Before
  <2>2. \A i \in T : Before(T, rank, i) \in FiniteSubsetsOf(T)
    BY <1>1, <2>1 DEF FiniteSubsetsOf
  <2> QED  BY <2>2
<1>3. PICK least \in S : \A U \in S : ~(<<U, least>> \in StrictSubsetOrdering(T))
  <2> HIDE DEF S
  <2> QED  BY <1>2, FS_StrictSubsetOrderingWellFounded, WFMin
<1>4. PICK i \in T : least = Before(T, rank, i)
  OBVIOUS
<1>5. Before(T, rank, i) = {}
  <2>1. SUFFICES ASSUME NEW j \in Before(T, rank, i) PROVE FALSE
    OBVIOUS
  <2>2. j \in T
    BY DEF Before
  <2>3. Before(T, rank, j) \subseteq Before(T, rank, i)
    <3>1. ASSUME NEW k \in Before(T, rank, j)
          PROVE  k \in Before(T, rank, i)
      <4>1. /\ i \in T /\ j \in T /\ k \in T
            /\ rank[i] \in Nat /\ rank[j] \in Nat /\ rank[k] \in Nat
            /\ i \in Int /\ j \in Int /\ k \in Int
        BY <2>2 DEF Before
      <4>2. rank[k] > rank[j] \/ (rank[k] = rank[j] /\ k < j)
        BY DEF Before
      <4>3. rank[j] > rank[i] \/ (rank[j] = rank[i] /\ j < i)
        BY DEF Before
      <4>4. rank[k] > rank[i] \/ (rank[k] = rank[i] /\ k < i)
        BY ONLY <4>1, <4>2, <4>3
      <4> QED  BY <4>1, <4>4 DEF Before
    <3> QED  BY <3>1
  <2>4. j \notin Before(T, rank, j)
    BY <2>2 DEF Before
  <2>5. <<Before(T, rank, j), least>> \in StrictSubsetOrdering(T)
    <3>1. Before(T, rank, j) \in SUBSET T /\ least \in SUBSET T
      BY <1>4 DEF Before
    <3> QED  BY <1>4, <2>1, <2>3, <2>4, <3>1 DEF StrictSubsetOrdering
  <2> QED  BY <1>3, <2>2, <2>5
<1>6. IsFirst(T, rank, i)
  BY <1>5 DEF Before, IsFirst
<1> QED  BY <1>6

LEMMA FirstIsFirst ==
  ASSUME NEW n \in Nat, NEW T \in SUBSET (1..n), NEW rank \in [T -> Nat], T # {}
  PROVE  First(T, rank) \in T /\ IsFirst(T, rank, First(T, rank))
BY FirstExists DEF First, IsFirst

-----------------------------------------------------------------------------
(* The rule that is chosen.                                                *)

ChosenFrom(table, ask) ==
  IF ask.product = "messenger_calls" THEN CallRule(table, ask) ELSE QuoteRule(table, ask)

Rank(rule, ask) == IF Call(ask) THEN CallScore(rule, ask) ELSE Score(rule)

Ranks(table, ask) == [i \in Fitting(table, ask) |-> Rank(table[i], ask)]

(* The weights: a rule that says more scores more, and of two rules with   *)
(* the same columns the one with fewer digits does not score more.         *)
LEMMA ScoreOfQuote ==
  ASSUME NEW ask, ~Call(ask), NEW rule, NEW other
  PROVE  /\ Score(rule) \in Nat
         /\ SaysMore(rule, other, ask) => Score(rule) > Score(other)
         /\ Columns(rule, ask) = Columns(other, ask) => Score(rule) = Score(other)
<1>1. \A x : /\ "country" \in Columns(x, ask) <=> x.country # Blank
             /\ "carrier" \in Columns(x, ask) <=> x.carrier # Blank
             /\ "service" \in Columns(x, ask) <=> x.service # Blank
             /\ "quality" \in Columns(x, ask) <=> x.quality # Blank
  BY DEF Columns
<1>2. \A x : Columns(x, ask) \subseteq {"country", "carrier", "service", "quality"}
  BY DEF Columns
<1>3. Score(rule) \in Nat
  BY DEF Score
<1>4. ASSUME Columns(rule, ask) = Columns(other, ask)
      PROVE  Score(rule) = Score(other)
  BY <1>1, <1>4 DEF Score
<1>5. ASSUME SaysMore(rule, other, ask)
      PROVE  Score(rule) > Score(other)
  <2>1. /\ Columns(other, ask) \subseteq Columns(rule, ask)
        /\ Columns(other, ask) # Columns(rule, ask)
    BY <1>5 DEF SaysMore, Digits
  <2>2. PICK c \in {"country", "carrier", "service", "quality"} :
          c \in Columns(rule, ask) /\ c \notin Columns(other, ask)
    BY <1>2, <2>1
  <2>3. /\ other.country # Blank => rule.country # Blank
        /\ other.carrier # Blank => rule.carrier # Blank
        /\ other.service # Blank => rule.service # Blank
        /\ other.quality # Blank => rule.quality # Blank
    BY <1>1, <2>1
  <2>4. \/ rule.country # Blank /\ other.country = Blank
        \/ rule.carrier # Blank /\ other.carrier = Blank
        \/ rule.service # Blank /\ other.service = Blank
        \/ rule.quality # Blank /\ other.quality = Blank
    BY <1>1, <2>2
  <2> QED  BY <2>3, <2>4 DEF Score
<1> QED  BY <1>3, <1>4, <1>5

LEMMA ScoreOfCall ==
  ASSUME NEW ask, Call(ask), NEW rule, NEW other, rule.digits \in Nat, other.digits \in Nat
  PROVE  /\ CallScore(rule, ask) \in Nat
         /\ SaysMore(rule, other, ask) => CallScore(rule, ask) > CallScore(other, ask)
         /\ Columns(rule, ask) = Columns(other, ask) /\ ~SaysMore(rule, other, ask)
              => CallScore(rule, ask) <= CallScore(other, ask)
<1>1. \A x : /\ "country" \in Columns(x, ask) <=> x.country # Blank
             /\ "carrier" \in Columns(x, ask) <=> x.carrier # Blank /\ x.carrier = ask.carrier
             /\ "prefix" \in Columns(x, ask) <=> x.prefix # Blank
  BY DEF Columns
<1>2. \A x : Columns(x, ask) \subseteq {"country", "carrier", "prefix"}
  BY DEF Columns
<1> DEFINE Part(x) == (IF "carrier" \in Columns(x, ask) THEN 8 ELSE 0)
                      + (IF "country" \in Columns(x, ask) THEN 4 ELSE 0)
                      + (IF "prefix" \in Columns(x, ask) THEN 16 ELSE 0)
<1>3. /\ CallScore(rule, ask) = Part(rule) + Digits(rule, ask)
      /\ CallScore(other, ask) = Part(other) + Digits(other, ask)
      /\ Digits(rule, ask) \in Nat /\ Digits(other, ask) \in Nat
  BY <1>1 DEF CallScore, Digits
<1>4. Part(rule) \in Nat /\ Part(other) \in Nat
  OBVIOUS
<1>5. CallScore(rule, ask) \in Nat
  <2> HIDE DEF Part
  <2> QED  BY ONLY <1>3, <1>4
<1>6. ASSUME SaysMore(rule, other, ask)
      PROVE  CallScore(rule, ask) > CallScore(other, ask)
  <2>1. /\ Columns(other, ask) \subseteq Columns(rule, ask)
        /\ Digits(rule, ask) >= Digits(other, ask)
        /\ \/ Columns(other, ask) # Columns(rule, ask)
           \/ Digits(rule, ask) > Digits(other, ask)
    BY <1>6 DEF SaysMore
  <2>2. Part(rule) >= Part(other)
    BY <2>1
  <2>3. CASE Columns(other, ask) # Columns(rule, ask)
    <3>1. PICK c \in {"country", "carrier", "prefix"} :
            c \in Columns(rule, ask) /\ c \notin Columns(other, ask)
      BY <1>2, <2>1, <2>3
    <3>2. Part(rule) > Part(other)
      BY <2>1, <3>1
    <3> HIDE DEF Part
    <3> QED  BY ONLY <3>2, <2>1, <1>3, <1>4
  <2>4. CASE Digits(rule, ask) > Digits(other, ask)
    <3> HIDE DEF Part
    <3> QED  BY ONLY <2>4, <2>2, <1>3, <1>4
  <2> QED  BY <2>1, <2>3, <2>4
<1>7. ASSUME Columns(rule, ask) = Columns(other, ask), ~SaysMore(rule, other, ask)
      PROVE  CallScore(rule, ask) <= CallScore(other, ask)
  <2>1. Digits(rule, ask) <= Digits(other, ask)
    BY <1>3, <1>7 DEF SaysMore
  <2>2. Part(rule) = Part(other)
    BY <1>7
  <2> HIDE DEF Part
  <2> QED  BY ONLY <2>1, <2>2, <1>3, <1>4
<1> QED  BY <1>5, <1>6, <1>7

LEMMA RankSays ==
  ASSUME NEW ask, NEW rule, NEW other, rule.digits \in Nat, other.digits \in Nat
  PROVE  /\ Rank(rule, ask) \in Nat
         /\ SaysMore(rule, other, ask) => Rank(rule, ask) > Rank(other, ask)
         /\ Columns(rule, ask) = Columns(other, ask) /\ ~SaysMore(rule, other, ask)
              => Rank(rule, ask) <= Rank(other, ask)
<1>1. CASE Call(ask)
  BY <1>1, ScoreOfCall DEF Rank
<1>2. CASE ~Call(ask)
  <2>1. Score(rule) \in Nat
    BY <1>2, ScoreOfQuote
  <2> QED  BY <1>2, <2>1, ScoreOfQuote DEF Rank
<1> QED  BY <1>1, <1>2

(* CallRule and QuoteRule take the first of the highest rank.              *)
LEMMA ChosenIsFirst ==
  ASSUME NEW table \in Seq(Offers), NEW ask, Fitting(table, ask) # {}
  PROVE  \E i \in Fitting(table, ask) :
           /\ table[i] = ChosenFrom(table, ask)
           /\ IsFirst(Fitting(table, ask), Ranks(table, ask), i)
<1> DEFINE T == Fitting(table, ask)
           rank == Ranks(table, ask)
           i == First(T, rank)
<1>1. Len(table) \in Nat /\ T \in SUBSET (1..Len(table)) /\ T # {}
  BY DEF Fitting, Active
<1>2. rank \in [T -> Nat]
  <2>1. ASSUME NEW j \in T PROVE Rank(table[j], ask) \in Nat
    <3>1. table[j] \in Offers
      BY <1>1
    <3> QED  BY <3>1, PricesAssumption, RankSays
  <2> QED  BY <2>1 DEF Ranks
<1>3. i \in T /\ IsFirst(T, rank, i)
  <2> HIDE DEF T, rank
  <2> QED  BY <1>1, <1>2, FirstIsFirst
<1>4. ChosenFrom(table, ask) = table[i]
  <2>1. CASE Call(ask)
    <3>1. /\ T = {k \in Active(table, "messenger_calls") : FitsCall(table[k], ask)}
          /\ rank = [k \in T |-> CallScore(table[k], ask)]
      BY <2>1 DEF Call, Fitting, Ranks, Rank
    <3> QED  BY <2>1, <3>1 DEF ChosenFrom, CallRule, Call
  <2>2. CASE ~Call(ask)
    <3>1. /\ T = {k \in Active(table, ask.product) : Fits(table[k], ask)}
          /\ rank = [k \in T |-> Score(table[k])]
      BY <2>2 DEF Fitting, Ranks, Rank
    <3> QED  BY <2>2, <3>1 DEF ChosenFrom, QuoteRule, Call
  <2> QED  BY <2>1, <2>2
<1> QED  BY <1>3, <1>4

(* The rule chosen is the most specific one.                               *)
LEMMA ChosenIsMostSpecific ==
  ASSUME NEW table \in Seq(Offers), NEW ask, Fitting(table, ask) # {}
  PROVE  \E i \in Fitting(table, ask) :
           /\ table[i] = ChosenFrom(table, ask)
           /\ \A j \in Fitting(table, ask) :
                /\ ~SaysMore(table[j], table[i], ask)
                /\ j < i => \/ Columns(table[j], ask) # Columns(table[i], ask)
                            \/ SaysMore(table[i], table[j], ask)
<1>1. PICK i \in Fitting(table, ask) :
        /\ table[i] = ChosenFrom(table, ask)
        /\ IsFirst(Fitting(table, ask), Ranks(table, ask), i)
  BY ChosenIsFirst
<1>2. Fitting(table, ask) \subseteq 1..Len(table)
  BY DEF Fitting, Active
<1>3. ASSUME NEW j \in Fitting(table, ask)
      PROVE  /\ ~SaysMore(table[j], table[i], ask)
             /\ j < i => \/ Columns(table[j], ask) # Columns(table[i], ask)
                         \/ SaysMore(table[i], table[j], ask)
  <2> DEFINE ri == Rank(table[i], ask)
             rj == Rank(table[j], ask)
  <2>1. table[i] \in Offers /\ table[j] \in Offers
    BY <1>2
  <2>2. table[i].digits \in Nat /\ table[j].digits \in Nat
    BY <2>1, PricesAssumption
  <2>3. rj < ri \/ (rj = ri /\ i <= j)
    BY <1>1 DEF IsFirst, Ranks
  <2>4. ri \in Nat /\ rj \in Nat
    BY <2>2, RankSays
  <2>5. SaysMore(table[j], table[i], ask) => rj > ri
    BY <2>2, RankSays
  <2>6. Columns(table[j], ask) = Columns(table[i], ask) /\ ~SaysMore(table[i], table[j], ask)
          => ri <= rj
    BY <2>2, RankSays
  <2>7. i \in Int /\ j \in Int
    BY <1>2
  <2> HIDE DEF ri, rj
  <2> QED  BY ONLY <2>3, <2>4, <2>5, <2>6, <2>7
<1> QED  BY <1>1, <1>3

(* What is chosen is one of the rows, or none.                             *)
LEMMA ChosenIsKnown ==
  ASSUME NEW table \in Seq(Offers), NEW ask
  PROVE  ChosenFrom(table, ask) \in Offers \cup {NoRule}
<1>1. CASE Fitting(table, ask) # {}
  <2>1. PICK i \in Fitting(table, ask) : table[i] = ChosenFrom(table, ask)
    BY <1>1, ChosenIsFirst
  <2>2. i \in 1..Len(table)
    BY DEF Fitting, Active
  <2> QED  BY <2>1, <2>2
<1>2. CASE Fitting(table, ask) = {} /\ ~Call(ask)
  BY <1>2 DEF Fitting, ChosenFrom, QuoteRule, Call
<1>3. CASE Fitting(table, ask) = {} /\ Call(ask)
  <2> DEFINE listed == Active(table, "messenger_calls")
             general == {i \in listed : table[i].country = Blank /\ table[i].carrier = Blank}
             rank == [i \in general |-> 0]
  <2>1. {i \in listed : FitsCall(table[i], ask)} = {}
    BY <1>3 DEF Fitting, Call
  <2>2. CASE general = {}
    BY <1>3, <2>1, <2>2 DEF ChosenFrom, CallRule, Call
  <2>3. CASE general # {}
    <3>1. Len(table) \in Nat /\ general \in SUBSET (1..Len(table)) /\ rank \in [general -> Nat]
      BY DEF Active
    <3>2. First(general, rank) \in general
      <4> HIDE DEF general, rank
      <4> QED  BY <2>3, <3>1, FirstIsFirst
    <3>3. table[First(general, rank)] \in Offers
      BY <3>1, <3>2
    <3>4. ChosenFrom(table, ask) = table[First(general, rank)]
      BY <1>3, <2>1, <2>3 DEF ChosenFrom, CallRule, Call
    <3> QED  BY <3>3, <3>4
  <2> QED  BY <2>2, <2>3
<1> QED  BY <1>1, <1>2, <1>3

-----------------------------------------------------------------------------
(* What a quote costs.                                                     *)

AskTypes(ask) ==
  /\ ask.product \in Products
  /\ {ask.base, ask.days, ask.quantity} \subseteq Nat
  /\ ask.product = "rentals" => ask.kind \in {"burner", "rental", "verification"}

RuleTypes(rule) ==
  rule = NoRule \/ ({rule.cost, rule.margin} \subseteq Nat /\ rule.scale \in Nat \ {0})

LEMMA ProductsAreNat ==
  ASSUME NEW a \in Nat, NEW b \in Nat
  PROVE  a * b \in Nat
OBVIOUS

(* A multiplier of one or more does not lower an amount.                   *)
LEMMA TimesAtLeast ==
  ASSUME NEW a \in Nat, NEW b \in Nat, NEW least \in Nat, b >= least
  PROVE  a * b >= a * least
<1>1. a * b = a * least + a * (b - least)
  OBVIOUS
<1>2. a * (b - least) \in Nat /\ a * least \in Nat
  <2>1. b - least \in Nat
    OBVIOUS
  <2> QED  BY <2>1, ProductsAreNat
<1> QED  BY ONLY <1>1, <1>2

LEMMA CostIsNat ==
  ASSUME NEW ask, AskTypes(ask), NEW rule, RuleTypes(rule)
  PROVE  Cost(ask, rule) \in Nat
<1>1. ask.days \in Nat /\ ask.base \in Nat
  BY DEF AskTypes
<1>2. DefaultCost(ask) \in Nat
  <2>1. \A n \in Nat : 199 * Larger(1, n) \in Nat /\ Larger(1, Nearest(599 * n, 7)) \in Nat
                      /\ Larger(1, Nearest(1599 * n, 30)) \in Nat
    BY DEF Larger, Nearest
  <2>2. ask.product = "rentals" => NumberPrice(ask.kind, ask.days) \in Nat
    BY <1>1, <2>1 DEF NumberPrice, AskTypes
  <2> QED  BY <1>1, <2>1, <2>2 DEF DefaultCost
<1> QED  BY <1>1, <1>2 DEF Cost, RuleTypes

(* Neither rounding up nor a multiplier of one or more lowers an amount.   *)
LEMMA RoundedUpCovers ==
  ASSUME NEW cents \in Nat, NEW scale \in Nat \ {0}, NEW r \in RoundedUp(cents, scale)
  PROVE  r \in Nat /\ (scale >= 100 => r >= cents)
<1> DEFINE p == cents * scale
<1>1. p \in Nat /\ (scale >= 100 => p >= cents * 100)
  BY ProductsAreNat, TimesAtLeast
<1>2. r = cents \/ r \in {p \div 100, p \div 100 + 1} \/ r = (p + 100 - 1) \div 100
  BY DEF RoundedUp, Ceil
<1> HIDE DEF p
<1> QED  BY ONLY <1>1, <1>2, cents \in Nat

LEMMA PriceCoversCost ==
  ASSUME NEW ask, AskTypes(ask), NEW rule, RuleTypes(rule),
         NEW cents \in Prices(ask, rule)
  PROVE  /\ cents \in Nat
         /\ Scale(rule) >= 100 => cents >= Cost(ask, rule)
<1> DEFINE cost == Cost(ask, rule)
           q == Larger(1, ask.quantity)
           total == cost * q + Margin(rule)
<1>1. cost \in Nat
  BY CostIsNat
<1>2. q \in Nat /\ q >= 1
  BY DEF Larger, AskTypes
<1>3. Margin(rule) \in Nat /\ Scale(rule) \in Nat \ {0}
  BY DEF Margin, Scale, RuleTypes
<1>4. cents \in RoundedUp(total, Scale(rule))
  BY DEF Prices
<1> HIDE DEF cost, q
<1>5. total \in Nat /\ total >= cost
  <2>1. cost * q \in Nat
    BY <1>1, <1>2, ProductsAreNat
  <2>2. cost * q >= cost * 1
    BY <1>1, <1>2, TimesAtLeast
  <2> QED  BY ONLY <2>1, <2>2, <1>1, <1>3
<1> HIDE DEF total
<1>6. cents \in Nat /\ (Scale(rule) >= 100 => cents >= total)
  BY <1>3, <1>4, <1>5, RoundedUpCovers
<1> QED  BY ONLY <1>1, <1>3, <1>5, <1>6 DEF cost

-----------------------------------------------------------------------------
(* Quotes, rates and renewals.                                             *)

(* A quote in progress keeps what it was made of; a renewal asks for the   *)
(* price that the number shows.                                            *)
RoundKept(k) ==
  \/ k = Idle
  \/ /\ k.at \in {"read", "priced"}
     /\ k.table \in Seq(Offers)
     /\ AskTypes(k.ask) /\ {"base", "days"} \subseteq DOMAIN k.ask
     /\ k.rule = ChosenFrom(k.table, k.ask)
     /\ k.shown \in Nat /\ k.shown \in {0, k.ask.base}
     /\ k.at = "priced" => /\ k.cents \in Nat
                           /\ Scale(k.rule) >= 100 => k.cents >= k.shown

RulesInv ==
  /\ rules \in Seq(Offers)
  /\ DOMAIN round = Rounds
  /\ \A r \in Rounds : RoundKept(round[r])

LEMMA RulesInitially == RulesInit => RulesInv
BY DEF RulesInit, RulesInv, RoundKept

LEMMA ChosenRuleTypes ==
  ASSUME NEW table \in Seq(Offers), NEW ask
  PROVE  RuleTypes(ChosenFrom(table, ask))
<1>1. ChosenFrom(table, ask) \in Offers \cup {NoRule}
  BY ChosenIsKnown
<1> HIDE DEF NoRule
<1> QED  BY <1>1, PricesAssumption DEF RuleTypes

(* One round changes to something that is kept, and no row does.           *)
LEMMA OneRound ==
  ASSUME RulesInv, NEW r \in Rounds, NEW k, RoundKept(k),
         round' = [round EXCEPT ![r] = k], UNCHANGED rules
  PROVE  RulesInv'
<1>1. \A x \in Rounds : RoundKept(round[x])'
  BY DEF RulesInv
<1> QED  BY <1>1 DEF RulesInv

LEMMA Begun ==
  ASSUME RulesInv, NEW r \in Rounds, NEW ask, NEW shown \in Nat, Begin(r, ask, shown),
         AskTypes(ask), {"base", "days"} \subseteq DOMAIN ask, shown \in {0, ask.base},
         UNCHANGED rules
  PROVE  RulesInv'
<1> DEFINE k == [at |-> "read", ask |-> ask, shown |-> shown, rule |-> Chosen(ask),
                 table |-> rules]
<1>1. RoundKept(k)
  BY DEF RoundKept, RulesInv, Chosen, ChosenFrom
<1>2. round' = [round EXCEPT ![r] = k]
  BY DEF Begin
<1> HIDE DEF k
<1> QED  BY <1>1, <1>2, OneRound

LEMMA QuoteKeeps ==
  ASSUME RulesInv, NEW r \in Rounds, Quote(r)
  PROVE  RulesInv'
<1> DEFINE x == round[r]
<1>1. PICK cents \in Prices(x.ask, x.rule) :
        round' = [round EXCEPT ![r] =
         [at |-> "priced", ask |-> x.ask, shown |-> x.shown, rule |-> x.rule,
          table |-> x.table, cents |-> cents]]
  BY DEF Quote, RulesInv
<1>2. /\ RoundKept(x) /\ x # Idle /\ x.at = "read" /\ UNCHANGED rules
  BY DEF Quote, RulesInv, Idle
<1> DEFINE k == [at |-> "priced", ask |-> x.ask, shown |-> x.shown, rule |-> x.rule,
                 table |-> x.table, cents |-> cents]
<1>3. /\ AskTypes(x.ask) /\ x.table \in Seq(Offers) /\ x.rule = ChosenFrom(x.table, x.ask)
      /\ x.shown \in Nat /\ x.shown \in {0, x.ask.base}
      /\ {"base", "days"} \subseteq DOMAIN x.ask
  BY <1>2 DEF RoundKept
<1>4. RuleTypes(x.rule)
  BY <1>3, ChosenRuleTypes
<1>5. cents \in Nat /\ (Scale(x.rule) >= 100 => cents >= Cost(x.ask, x.rule))
  <2> HIDE DEF x
  <2> QED  BY <1>3, <1>4, PriceCoversCost
<1>6. Scale(x.rule) >= 100 => cents >= x.shown
  <2>1. x.shown # 0 => Cost(x.ask, x.rule) = x.shown
    BY <1>3 DEF Cost
  <2>2. x.shown \in Nat
    BY <1>3
  <2> HIDE DEF x
  <2> QED  BY ONLY <1>5, <2>1, <2>2
<1>7. RoundKept(k)
  <2> HIDE DEF x
  <2> QED  BY <1>3, <1>5, <1>6 DEF RoundKept
<1> HIDE DEF k
<1>8. round' = [round EXCEPT ![r] = k]
  BY <1>1 DEF k
<1> QED  BY <1>2, <1>7, <1>8, OneRound

LEMMA RateKeeps ==
  ASSUME RulesInv, NEW r \in Rounds, Rate(r)
  PROVE  RulesInv'
<1> DEFINE x == round[r]
           k == [at |-> "priced", ask |-> x.ask, shown |-> 0, rule |-> x.rule,
                 table |-> x.table, cents |-> CallRate(x.rule)]
<1>1. round' = [round EXCEPT ![r] = IF x.rule = NoRule THEN Idle ELSE k] /\ UNCHANGED rules
  BY DEF Rate, RulesInv
<1>2. RoundKept(x) /\ x # Idle
  BY DEF Rate, RulesInv, Idle
<1>3. /\ AskTypes(x.ask) /\ x.table \in Seq(Offers) /\ x.rule = ChosenFrom(x.table, x.ask)
      /\ {"base", "days"} \subseteq DOMAIN x.ask
  BY <1>2 DEF RoundKept
<1>4. RuleTypes(x.rule)
  BY <1>3, ChosenRuleTypes
<1>5. CASE x.rule = NoRule
  <2>1. RoundKept(Idle)
    BY DEF RoundKept
  <2> QED  BY <1>1, <1>5, <2>1, OneRound
<1>6. CASE x.rule # NoRule
  <2>1. CallRate(x.rule) \in Nat
    BY <1>4, <1>6 DEF CallRate, Larger, RuleTypes
  <2>2. RoundKept(k)
    <3> HIDE DEF x
    <3> QED  BY <1>3, <2>1 DEF RoundKept
  <2>3. round' = [round EXCEPT ![r] = k]
    BY <1>1, <1>6
  <2> HIDE DEF k
  <2> QED  BY <1>1, <2>2, <2>3, OneRound
<1> QED  BY <1>5, <1>6

LEMMA RenewKeeps ==
  ASSUME RulesInv, NEW r \in Rounds, Renew(r)
  PROVE  RulesInv'
<1> DEFINE x == round[r]
           stored == IF x.shown = 0 THEN x.cents ELSE x.shown
           before == [x.ask EXCEPT !.base = stored]
           ask == [before EXCEPT !.days = 30]
<1>1. Begin(r, ask, stored) /\ UNCHANGED rules
  BY DEF Renew
<1>2. RoundKept(x) /\ x # Idle /\ x.at = "priced"
  BY DEF Renew, RulesInv, Idle
<1>3. /\ AskTypes(x.ask) /\ {"base", "days"} \subseteq DOMAIN x.ask
      /\ x.shown \in Nat /\ x.cents \in Nat
  BY <1>2 DEF RoundKept
<1>4. stored \in Nat
  BY <1>3
<1> HIDE DEF stored, x
<1>5. /\ before.base = stored /\ before.days = x.ask.days /\ before.quantity = x.ask.quantity
      /\ before.product = x.ask.product /\ before.kind = x.ask.kind
      /\ DOMAIN before = DOMAIN x.ask
  BY <1>3
<1> HIDE DEF before
<1>6. /\ ask.base = stored /\ ask.days = 30 /\ ask.quantity = x.ask.quantity
      /\ ask.product = x.ask.product /\ ask.kind = x.ask.kind
      /\ DOMAIN ask = DOMAIN x.ask
  BY <1>3, <1>5
<1> HIDE DEF ask
<1>7. AskTypes(ask)
  BY <1>3, <1>4, <1>6 DEF AskTypes
<1> QED  BY <1>1, <1>3, <1>4, <1>6, <1>7, Begun

LEMMA RulesStep == RulesInv /\ [RulesNext]_rulevars => RulesInv'
<1> SUFFICES ASSUME RulesInv, [RulesNext]_rulevars PROVE RulesInv'
  OBVIOUS
<1>1. CASE UNCHANGED rulevars
  BY <1>1 DEF RulesInv, rulevars
<1>2. ASSUME NEW o \in Offers, AddRule(o)
      PROVE  RulesInv'
  BY <1>2 DEF AddRule, RulesInv
<1>3. ASSUME NEW i \in DOMAIN rules, NEW o \in Offers, EditRule(i, o)
      PROVE  RulesInv'
  BY <1>3 DEF EditRule, RulesInv
<1>4. ASSUME NEW r \in Rounds, NEW a \in Asks, Read(r, a)
      PROVE  RulesInv'
  <2>1. AskTypes(a) /\ {"base", "days"} \subseteq DOMAIN a
    BY PricesAssumption DEF AskTypes
  <2> QED  BY <1>4, <2>1, Begun DEF Read
<1>5. ASSUME NEW r \in Rounds, Quote(r) \/ Rate(r) \/ Renew(r)
      PROVE  RulesInv'
  BY <1>5, QuoteKeeps, RateKeeps, RenewKeeps
<1> QED  BY <1>1, <1>2, <1>3, <1>4, <1>5 DEF RulesNext

(* resolvePricingRule and resolveRateForDestination: the rule a quote or a *)
(* call used fits it, no fitting rule that says more was passed over, and  *)
(* of those that say as much it is the oldest: for any rows, however they  *)
(* are edited while quotes are worked out.                                 *)
THEOREM QuotesUseTheMostSpecificRule == RulesSpec => []MostSpecificRule
<1>1. RulesInv => MostSpecificRule
  <2> SUFFICES ASSUME RulesInv, NEW r \in Rounds, round[r] # Idle,
                      Fitting(round[r].table, round[r].ask) # {}
               PROVE  \E i \in Fitting(round[r].table, round[r].ask) :
                        /\ round[r].table[i] = round[r].rule
                        /\ \A j \in Fitting(round[r].table, round[r].ask) :
                             /\ ~SaysMore(round[r].table[j], round[r].rule, round[r].ask)
                             /\ j < i => \/ Columns(round[r].table[j], round[r].ask)
                                                # Columns(round[r].rule, round[r].ask)
                                         \/ SaysMore(round[r].rule, round[r].table[j],
                                                     round[r].ask)
    BY DEF MostSpecificRule
  <2> DEFINE table == round[r].table
             ask == round[r].ask
  <2>1. table \in Seq(Offers) /\ round[r].rule = ChosenFrom(table, ask)
    BY DEF RulesInv, RoundKept
  <2> HIDE DEF table, ask
  <2>2. PICK i \in Fitting(table, ask) :
           /\ table[i] = ChosenFrom(table, ask)
           /\ \A j \in Fitting(table, ask) :
                /\ ~SaysMore(table[j], table[i], ask)
                /\ j < i => \/ Columns(table[j], ask) # Columns(table[i], ask)
                            \/ SaysMore(table[i], table[j], ask)
    BY <2>1, ChosenIsMostSpecific DEF table, ask
  <2> QED  BY <2>1, <2>2 DEF table, ask
<1> QED  BY <1>1, RulesInitially, RulesStep, PTL DEF RulesSpec

(* renew: a renewal takes no less than the price the number shows, for any *)
(* rows, as long as the rule it is quoted by has no multiplier below one.  *)
THEOREM RenewalsTakeWhatIsShown == RulesSpec => []RenewalCoversShown
<1>1. RulesInv => RenewalCoversShown
  BY DEF RulesInv, RoundKept, RenewalCoversShown, Idle
<1> QED  BY <1>1, RulesInitially, RulesStep, PTL DEF RulesSpec

-----------------------------------------------------------------------------
(* Checkouts.                                                              *)

Stages == {"new", "rating", "asking", "fetched", "unavailable", "priced", "initializing",
           "pending", "initialization_failed", "paid", "refused"}

Sessions ==
  [at : Stages, gateway : Gateways \cup {"none"}, price : Nat, rate : Nat, when : Nat,
   until : Nat, asked : Nat, report : [amount : Nat, currency : {"none", "USD", "NGN"}]]

AmountTypes ==
  /\ market \in Seq(Rates) /\ Now >= 1
  /\ cache \in [rate : Nat, until : Nat, kept : Nat]
  /\ checkout \in [Checkouts -> Sessions]

(* The rate was the market's at a tick between the two.                    *)
RateFrom(rate, first, last) == \E t \in DOMAIN market : t \in first..last /\ market[t] = rate

(* What is cached was the market's when it was fetched, or as long before  *)
(* as the provider is waited for; until tells when that was.               *)
CacheRecent ==
  cache # NoCache =>
    /\ cache.rate \in Rates
    /\ RateFrom(cache.rate, cache.until - Ttl - Timeout, Now)

(* A checkout on its way to an amount, and with one.                       *)
OnItsWay(k) ==
  /\ k.at \in {"new", "rating", "asking", "fetched", "unavailable"} => k.asked = 0
  /\ k.at \in {"rating", "asking", "fetched"} => k.price >= 1
  /\ k.at = "asking" => k.when \in 1..Now
  /\ k.at = "fetched" => /\ k.rate \in Rates /\ k.until = k.when + Ttl
                         /\ k.when <= Now /\ RateFrom(k.rate, k.when - Timeout, k.when)

Asked(k) ==
  /\ k.asked # 0 =>
       /\ k.asked >= k.price
       /\ Currency(k.gateway) = "NGN" => RateFrom(k.rate, k.when - Timeout - Ttl + 1, k.when)
  /\ k.at \in {"priced", "initializing", "pending", "refused"} => k.asked # 0
  /\ k.at = "refused" => ~Reconciled(k, k.report)

AmountsInv ==
  /\ AmountTypes
  /\ CacheRecent
  /\ \A c \in Checkouts : OnItsWay(checkout[c]) /\ Asked(checkout[c])

(* The amount asked at a rate of one or more covers the price.             *)
LEMMA MinorCovers ==
  ASSUME NEW cents \in Nat, cents >= 1, NEW rate \in Rates
  PROVE  Minor(cents, rate) \in Nat /\ Minor(cents, rate) # 0 /\ Minor(cents, rate) >= cents
<1>1. rate \in Nat /\ rate >= 100
  BY CheckoutAssumption
<1> DEFINE p == cents * rate
<1>2. p \in Nat /\ p >= cents * 100
  BY <1>1, ProductsAreNat, TimesAtLeast
<1>3. Minor(cents, rate) = IF 1 > (2 * p + 100) \div 200 THEN 1 ELSE (2 * p + 100) \div 200
  BY DEF Minor, Larger, Nearest
<1> HIDE DEF p
<1> QED  BY ONLY <1>2, <1>3, cents \in Nat, cents >= 1

LEMMA AmountsInitially == CheckoutInit => AmountsInv
<1> SUFFICES ASSUME CheckoutInit PROVE AmountsInv
  OBVIOUS
<1>1. PICK r \in Rates : market = <<r>>
  BY DEF CheckoutInit
<1>2. AmountTypes
  BY <1>1 DEF CheckoutInit, AmountTypes, Now, NoCache, NoCheckout, NoReport, Sessions, Stages
<1>3. CacheRecent
  BY DEF CheckoutInit, CacheRecent
<1>4. \A c \in Checkouts : OnItsWay(checkout[c]) /\ Asked(checkout[c])
  BY DEF CheckoutInit, NoCheckout, OnItsWay, Asked
<1> QED  BY <1>2, <1>3, <1>4 DEF AmountsInv

(* One checkout changes, by a step that leaves the market alone.           *)
LEMMA OneCheckout ==
  ASSUME AmountsInv, NEW c \in Checkouts, NEW k \in Sessions, OnItsWay(k), Asked(k),
         checkout' = [checkout EXCEPT ![c] = k], UNCHANGED market,
         cache' \in [rate : Nat, until : Nat, kept : Nat], CacheRecent'
  PROVE  AmountsInv'
<1>1. AmountTypes'
  BY DEF AmountsInv, AmountTypes, Now
<1>2. ASSUME NEW x \in Checkouts
      PROVE  checkout'[x] = IF x = c THEN k ELSE checkout[x]
  BY DEF AmountsInv, AmountTypes
<1>3. \A x \in Checkouts : OnItsWay(checkout[x])' /\ Asked(checkout[x])'
  <2>1. ASSUME NEW x \in Checkouts
        PROVE  OnItsWay(checkout[x])' /\ Asked(checkout[x])'
    <3>1. OnItsWay(checkout'[x]) /\ Asked(checkout'[x])
      BY <1>2 DEF AmountsInv
    <3> QED  BY <3>1 DEF OnItsWay, Asked, RateFrom, Now, Reconciled, ExpectedCurrency
  <2> QED  BY <2>1
<1> QED  BY <1>1, <1>3 DEF AmountsInv

(* What is read from the cache is a rate of the market, so long ago.       *)
LEMMA CachedRecent ==
  ASSUME AmountsInv, Cached # NoCache
  PROVE  /\ Cached.rate \in Rates /\ Cached.rate \in Nat
         /\ RateFrom(Cached.rate, Now - Timeout - Ttl + 1, Now)
<1>1. Cached = cache /\ cache.until > Now /\ cache # NoCache
  BY DEF Cached
<1>2. cache.rate \in Rates /\ cache.rate \in Nat /\ cache.until \in Nat
  BY <1>1 DEF AmountsInv, AmountTypes, CacheRecent
<1>3. PICK t \in DOMAIN market :
        t \in (cache.until - Ttl - Timeout)..Now /\ market[t] = cache.rate
  BY <1>1 DEF AmountsInv, CacheRecent, RateFrom
<1>4. t \in (Now - Timeout - Ttl + 1)..Now
  <2>1. Now \in Nat /\ Timeout \in Nat /\ Ttl \in Nat
    BY CheckoutAssumption DEF AmountsInv, AmountTypes, Now
  <2> QED  BY ONLY <1>1, <1>2, <1>3, <2>1
<1> QED  BY <1>1, <1>2, <1>3, <1>4 DEF RateFrom

LEMMA StartKeeps ==
  ASSUME AmountsInv, NEW c \in Checkouts, NEW g \in Gateways, NEW i \in Items, Start(c, g, i)
  PROVE  AmountsInv'
<1> DEFINE x == checkout[c]
           dollars == [x EXCEPT !.at = "priced", !.gateway = g, !.price = i.price,
                                !.asked = i.price]
           naira == [x EXCEPT !.at = "rating", !.gateway = g, !.price = i.price]
           k == IF Currency(g) = "USD" THEN dollars ELSE naira
<1>1. x \in Sessions /\ OnItsWay(x) /\ x.at = "new" /\ i.price \in Nat \ {0}
  BY CheckoutAssumption DEF Start, AmountsInv, AmountTypes
<1>2. checkout' = [checkout EXCEPT ![c] = k] /\ UNCHANGED market /\ UNCHANGED cache
  BY DEF Start, AmountsInv, AmountTypes
<1> HIDE DEF x
<1>3. dollars \in Sessions /\ naira \in Sessions
  BY <1>1 DEF Sessions, Stages
<1>4. Currency(g) = "USD" => OnItsWay(dollars) /\ Asked(dollars)
  BY <1>1 DEF OnItsWay, Asked, Currency, Sessions
<1>5. OnItsWay(naira) /\ Asked(naira)
  BY <1>1 DEF OnItsWay, Asked, Sessions
<1>6. k \in Sessions /\ OnItsWay(k) /\ Asked(k)
  <2> HIDE DEF dollars, naira
  <2> QED  BY <1>3, <1>4, <1>5
<1> HIDE DEF k
<1>7. cache' \in [rate : Nat, until : Nat, kept : Nat] /\ CacheRecent'
  BY <1>2 DEF AmountsInv, AmountTypes, CacheRecent, RateFrom, Now
<1> QED  BY <1>2, <1>6, <1>7, OneCheckout

LEMMA LookKeeps ==
  ASSUME AmountsInv, NEW c \in Checkouts, Look(c)
  PROVE  AmountsInv'
<1> DEFINE x == checkout[c]
           hit == [x EXCEPT !.at = "priced", !.rate = Cached.rate, !.when = Now,
                            !.asked = Minor(x.price, Cached.rate)]
           miss == [x EXCEPT !.at = "asking", !.when = Now]
           k == IF Cached # NoCache THEN hit ELSE miss
<1>1. x \in Sessions /\ OnItsWay(x) /\ x.at = "rating"
  BY DEF Look, AmountsInv, AmountTypes
<1>2. checkout' = [checkout EXCEPT ![c] = k] /\ UNCHANGED market /\ UNCHANGED cache
  BY DEF Look, AmountsInv, AmountTypes
<1>3. Now \in Nat /\ Now >= 1
  BY DEF AmountsInv, AmountTypes, Now
<1> HIDE DEF x
<1>4. ASSUME Cached # NoCache
      PROVE  k \in Sessions /\ OnItsWay(k) /\ Asked(k)
  <2> DEFINE minor == Minor(x.price, Cached.rate)
  <2>1. /\ Cached.rate \in Rates /\ Cached.rate \in Nat
        /\ RateFrom(Cached.rate, Now - Timeout - Ttl + 1, Now)
    BY <1>4, CachedRecent
  <2>2. minor \in Nat /\ minor # 0 /\ minor >= x.price
    <3>1. x.price \in Nat /\ x.price >= 1
      BY <1>1 DEF OnItsWay, Sessions
    <3> QED  BY <2>1, <3>1, MinorCovers
  <2> HIDE DEF minor
  <2>3. k = [x EXCEPT !.at = "priced", !.rate = Cached.rate, !.when = Now, !.asked = minor]
    BY <1>4 DEF minor
  <2> HIDE DEF k
  <2>4. /\ k \in Sessions /\ k.at = "priced" /\ k.rate = Cached.rate /\ k.when = Now
        /\ k.asked = minor /\ k.price = x.price
    BY <1>1, <1>3, <2>1, <2>2, <2>3 DEF Sessions, Stages
  <2> QED  BY <2>1, <2>2, <2>4 DEF OnItsWay, Asked
<1>5. ASSUME Cached = NoCache
      PROVE  k \in Sessions /\ OnItsWay(k) /\ Asked(k)
  <2>1. k = miss
    BY <1>5
  <2> HIDE DEF k
  <2>2. /\ miss \in Sessions /\ miss.at = "asking" /\ miss.when = Now
        /\ miss.price = x.price /\ miss.asked = x.asked
    BY <1>1, <1>3 DEF Sessions, Stages
  <2>3. x.asked = 0 /\ x.price >= 1
    BY <1>1 DEF OnItsWay
  <2> QED  BY <1>3, <2>1, <2>2, <2>3 DEF OnItsWay, Asked
<1> HIDE DEF k
<1>6. cache' \in [rate : Nat, until : Nat, kept : Nat] /\ CacheRecent'
  BY <1>2 DEF AmountsInv, AmountTypes, CacheRecent, RateFrom, Now
<1> QED  BY <1>2, <1>4, <1>5, <1>6, OneCheckout

LEMMA FetchKeeps ==
  ASSUME AmountsInv, NEW c \in Checkouts, Fetch(c)
  PROVE  AmountsInv'
<1> DEFINE x == checkout[c]
<1>1. /\ x \in Sessions /\ OnItsWay(x) /\ Asked(x) /\ x.at = "asking"
      /\ Now <= x.when + Timeout /\ x.when \in 1..Now /\ x.when \in Nat /\ x.price >= 1
  BY DEF Fetch, AmountsInv, AmountTypes, OnItsWay, Sessions
<1>2. PICK t \in x.when..Now :
        checkout' = [checkout EXCEPT ![c].at = "fetched", ![c].rate = market[t],
                                     ![c].when = Now, ![c].until = Now + Ttl]
  BY DEF Fetch
<1> DEFINE k == [x EXCEPT !.at = "fetched", !.rate = market[t], !.when = Now,
                          !.until = Now + Ttl]
<1>3. checkout' = [checkout EXCEPT ![c] = k] /\ UNCHANGED market /\ UNCHANGED cache
  BY <1>2 DEF Fetch, AmountsInv, AmountTypes
<1>4. /\ Now \in Nat /\ Timeout \in Nat /\ Ttl \in Nat /\ market \in Seq(Rates)
  BY CheckoutAssumption DEF AmountsInv, AmountTypes, Now
<1>5. t \in DOMAIN market /\ market[t] \in Rates /\ market[t] \in Nat
  BY <1>1, <1>2, <1>4, CheckoutAssumption DEF Now
<1>6. t \in (Now - Timeout)..Now
  <2> HIDE DEF x
  <2> QED  BY ONLY <1>1, <1>2, <1>4
<1>7. RateFrom(market[t], Now - Timeout, Now)
  BY <1>5, <1>6 DEF RateFrom
<1> HIDE DEF x
<1>8. /\ k \in Sessions /\ k.at = "fetched" /\ k.rate = market[t] /\ k.when = Now
      /\ k.until = Now + Ttl /\ k.asked = x.asked /\ k.price = x.price
      /\ k.gateway = x.gateway
  <2> DEFINE rate == market[t]
             now == Now
             end == Now + Ttl
             y == [x EXCEPT !.at = "fetched", !.rate = rate]
  <2>1. end \in Nat /\ now \in Nat /\ rate \in Nat
    BY <1>4, <1>5
  <2>2. k = [y EXCEPT !.when = now, !.until = end]
    OBVIOUS
  <2> HIDE DEF rate, now, end, k
  <2>3. /\ y \in Sessions /\ y.at = "fetched" /\ y.rate = rate /\ y.asked = x.asked
        /\ y.price = x.price /\ y.gateway = x.gateway
    BY <1>1, <2>1 DEF Sessions, Stages
  <2> HIDE DEF y
  <2>4. /\ k \in Sessions /\ k.at = y.at /\ k.rate = y.rate /\ k.when = now /\ k.until = end
        /\ k.asked = y.asked /\ k.price = y.price /\ k.gateway = y.gateway
    BY <2>1, <2>2, <2>3 DEF Sessions
  <2> QED  BY <2>3, <2>4 DEF rate, now, end
<1> HIDE DEF k
<1>9. OnItsWay(k) /\ Asked(k)
  BY <1>1, <1>4, <1>5, <1>7, <1>8 DEF OnItsWay, Asked
<1>10. cache' \in [rate : Nat, until : Nat, kept : Nat] /\ CacheRecent'
  BY <1>3 DEF AmountsInv, AmountTypes, CacheRecent, RateFrom, Now
<1> QED  BY <1>3, <1>8, <1>9, <1>10, OneCheckout

LEMMA StoreKeeps ==
  ASSUME AmountsInv, NEW c \in Checkouts, Store(c)
  PROVE  AmountsInv'
<1> DEFINE x == checkout[c]
           entry == [rate |-> x.rate, until |-> x.until, kept |-> Now + Ttl]
           minor == Minor(x.price, x.rate)
           k == [x EXCEPT !.at = "priced", !.until = 0, !.asked = minor]
<1>1. /\ x \in Sessions /\ x.price >= 1 /\ x.rate \in Rates /\ x.until = x.when + Ttl
      /\ x.when <= Now /\ RateFrom(x.rate, x.when - Timeout, x.when)
  BY DEF Store, AmountsInv, AmountTypes, OnItsWay
<1>2. /\ x.price \in Nat /\ x.when \in Nat /\ x.rate \in Nat /\ x.until \in Nat
      /\ Now \in Nat /\ Timeout \in Nat /\ Ttl \in Nat /\ Ttl >= 1
  BY <1>1, CheckoutAssumption DEF AmountsInv, AmountTypes, Now, Sessions
<1>3. checkout' = [checkout EXCEPT ![c] = k] /\ UNCHANGED market /\ cache' \in {cache, entry}
  BY DEF Store, AmountsInv, AmountTypes
<1> HIDE DEF x
<1>4. PICK t \in DOMAIN market : t \in (x.when - Timeout)..x.when /\ market[t] = x.rate
  BY <1>1 DEF RateFrom
<1>5. /\ t \in (x.when - Timeout - Ttl + 1)..x.when
      /\ t \in (x.until - Ttl - Timeout)..Now
  BY ONLY <1>1, <1>2, <1>4
<1>6. minor \in Nat /\ minor # 0 /\ minor >= x.price
  BY <1>1, <1>2, MinorCovers
<1> HIDE DEF minor
<1>7. /\ k \in Sessions /\ k.at = "priced" /\ k.asked = minor /\ k.price = x.price
      /\ k.rate = x.rate /\ k.when = x.when
  BY <1>1, <1>6 DEF Sessions, Stages
<1> HIDE DEF k
<1>8. OnItsWay(k) /\ Asked(k)
  BY <1>4, <1>5, <1>6, <1>7 DEF OnItsWay, Asked, RateFrom
<1>9. cache' \in [rate : Nat, until : Nat, kept : Nat] /\ CacheRecent'
  <2>1. CASE cache' = cache
    BY <1>3, <2>1 DEF AmountsInv, AmountTypes, CacheRecent, RateFrom, Now
  <2>2. CASE cache' = entry
    <3>1. cache' \in [rate : Nat, until : Nat, kept : Nat]
      BY <1>2, <2>2
    <3>2. cache'.rate = x.rate /\ cache'.until = x.until
      BY <2>2
    <3> QED  BY <1>1, <1>3, <1>4, <1>5, <3>1, <3>2 DEF CacheRecent, RateFrom, Now
  <2> QED  BY <1>3, <2>1, <2>2
<1> QED  BY <1>3, <1>7, <1>8, <1>9, OneCheckout

(* The steps of a priced checkout, and one that ends without a rate.       *)
LEMMA MoveKeeps ==
  ASSUME AmountsInv, NEW c \in Checkouts,
         FetchFails(c) \/ SaveSession(c) \/ Open(c) \/ OpenFails(c)
  PROVE  AmountsInv'
<1>1. checkout[c] \in Sessions /\ OnItsWay(checkout[c]) /\ Asked(checkout[c])
  BY DEF AmountsInv, AmountTypes
<1>2. UNCHANGED market /\ UNCHANGED cache
  BY DEF FetchFails, SaveSession, Open, OpenFails
<1>3. cache' \in [rate : Nat, until : Nat, kept : Nat] /\ CacheRecent'
  BY <1>2 DEF AmountsInv, AmountTypes, CacheRecent, RateFrom, Now
<1>4. CASE FetchFails(c)
  <2> DEFINE k == [NoCheckout EXCEPT !.at = "unavailable"]
  <2>1. k \in Sessions /\ OnItsWay(k) /\ Asked(k)
    BY DEF NoCheckout, NoReport, Sessions, Stages, OnItsWay, Asked
  <2>2. checkout' = [checkout EXCEPT ![c] = k]
    BY <1>4 DEF FetchFails
  <2> HIDE DEF k
  <2> QED  BY <1>2, <1>3, <2>1, <2>2, OneCheckout
<1>5. ASSUME NEW at \in {"initializing", "pending", "initialization_failed"},
             checkout[c].at \in {"priced", "initializing"},
             checkout' = [checkout EXCEPT ![c].at = at]
      PROVE  AmountsInv'
  <2> DEFINE x == checkout[c]
             k == [x EXCEPT !.at = at]
  <2>1. checkout' = [checkout EXCEPT ![c] = k]
    BY <1>5 DEF AmountsInv, AmountTypes
  <2> HIDE DEF x
  <2>2. /\ k \in Sessions /\ k.at = at /\ k.asked = x.asked /\ k.price = x.price
        /\ k.rate = x.rate /\ k.when = x.when /\ k.gateway = x.gateway
    BY <1>1 DEF Sessions, Stages, x
  <2>3. OnItsWay(k) /\ Asked(k)
    BY <1>1, <1>5, <2>2 DEF OnItsWay, Asked, x
  <2> HIDE DEF k
  <2> QED  BY <1>2, <1>3, <2>1, <2>2, <2>3, OneCheckout
<1>6. CASE SaveSession(c)
  BY <1>5, <1>6 DEF SaveSession
<1>7. CASE Open(c)
  BY <1>5, <1>7 DEF Open
<1>8. CASE OpenFails(c)
  BY <1>5, <1>8 DEF OpenFails
<1> QED  BY <1>4, <1>6, <1>7, <1>8

LEMMA VerifyKeeps ==
  ASSUME AmountsInv, NEW c \in Checkouts, Verify(c)
  PROVE  AmountsInv'
<1> DEFINE x == checkout[c]
<1>1. x \in Sessions /\ OnItsWay(x) /\ Asked(x) /\ x.at = "pending" /\ x.asked \in Nat
  BY DEF Verify, AmountsInv, AmountTypes, Sessions
<1>2. PICK amount \in {0, x.asked, x.asked \div 2}, currency \in {"none", "USD", "NGN"} :
        checkout' = [checkout EXCEPT ![c] =
          [x EXCEPT !.report = [amount |-> amount, currency |-> currency],
                    !.at = IF Reconciled(x, [amount |-> amount, currency |-> currency])
                           THEN "paid" ELSE "refused"]]
  BY DEF Verify, AmountsInv, AmountTypes
<1> DEFINE report == [amount |-> amount, currency |-> currency]
           at == IF Reconciled(x, report) THEN "paid" ELSE "refused"
           k == [x EXCEPT !.report = report, !.at = at]
<1>3. checkout' = [checkout EXCEPT ![c] = k] /\ UNCHANGED market /\ UNCHANGED cache
  BY <1>2 DEF Verify
<1>4. report \in [amount : Nat, currency : {"none", "USD", "NGN"}]
  BY <1>1
<1>5. at \in {"paid", "refused"} /\ (at = "refused" => ~Reconciled(x, report))
  OBVIOUS
<1> HIDE DEF x, report, at
<1>6. /\ k \in Sessions /\ k.at = at /\ k.asked = x.asked /\ k.price = x.price
      /\ k.rate = x.rate /\ k.when = x.when /\ k.gateway = x.gateway /\ k.report = report
  BY <1>1, <1>4, <1>5 DEF Sessions, Stages
<1> HIDE DEF k
<1>7. OnItsWay(k) /\ Asked(k)
  BY <1>1, <1>5, <1>6 DEF OnItsWay, Asked, Reconciled, ExpectedCurrency
<1>8. cache' \in [rate : Nat, until : Nat, kept : Nat] /\ CacheRecent'
  BY <1>3 DEF AmountsInv, AmountTypes, CacheRecent, RateFrom, Now
<1> QED  BY <1>3, <1>6, <1>7, <1>8, OneCheckout

(* The market moves on: what was, was.                                     *)
LEMMA TickKeeps ==
  ASSUME AmountsInv, NEW r \in Rates, Tick(r)
  PROVE  AmountsInv'
<1>1. /\ market \in Seq(Rates) /\ market' = Append(market, r) /\ Now \in Nat
      /\ UNCHANGED cache /\ UNCHANGED checkout
  BY DEF Tick, AmountsInv, AmountTypes, Now
<1>2. /\ market' \in Seq(Rates) /\ Now' = Now + 1
      /\ \A t \in DOMAIN market : t \in DOMAIN market' /\ market'[t] = market[t]
      /\ DOMAIN market = 1..Now
  BY <1>1 DEF Now
<1>3. AmountTypes'
  BY <1>1, <1>2 DEF AmountsInv, AmountTypes
<1>4. CacheRecent'
  <2> SUFFICES ASSUME cache # NoCache
               PROVE  /\ cache.rate \in Rates
                      /\ \E t \in DOMAIN market' :
                           /\ t \in (cache.until - Ttl - Timeout)..Now'
                           /\ market'[t] = cache.rate
    BY <1>1 DEF CacheRecent, RateFrom
  <2>1. PICK t \in DOMAIN market :
          t \in (cache.until - Ttl - Timeout)..Now /\ market[t] = cache.rate
    BY DEF AmountsInv, CacheRecent, RateFrom
  <2>2. cache.until - Ttl - Timeout \in Int
    BY CheckoutAssumption DEF AmountsInv, AmountTypes
  <2>3. t \in (cache.until - Ttl - Timeout)..Now'
    BY <1>1, <1>2, <2>1, <2>2
  <2> QED  BY <1>2, <2>1, <2>3 DEF AmountsInv, CacheRecent
<1>5. ASSUME NEW c \in Checkouts
      PROVE  OnItsWay(checkout[c])' /\ Asked(checkout[c])'
  <2> DEFINE k == checkout[c]
  <2>1. k \in Sessions /\ OnItsWay(k) /\ Asked(k) /\ UNCHANGED k
    BY <1>1 DEF AmountsInv, AmountTypes
  <2>2. \A rate, first, last : RateFrom(rate, first, last)
          => \E t \in DOMAIN market' : t \in first..last /\ market'[t] = rate
    BY <1>2 DEF RateFrom
  <2>3. OnItsWay(k)'
    BY <1>1, <1>2, <2>1, <2>2 DEF OnItsWay, RateFrom, Sessions
  <2>4. Asked(k)'
    BY <1>1, <2>1, <2>2 DEF Asked, RateFrom, Reconciled, ExpectedCurrency
  <2> QED  BY <2>3, <2>4
<1> QED  BY <1>3, <1>4, <1>5 DEF AmountsInv

LEMMA AmountsStep == AmountsInv /\ [CheckoutNext]_checkoutvars => AmountsInv'
<1> SUFFICES ASSUME AmountsInv, [CheckoutNext]_checkoutvars PROVE AmountsInv'
  OBVIOUS
<1>1. CASE UNCHANGED checkoutvars
  BY <1>1 DEF AmountsInv, AmountTypes, CacheRecent, OnItsWay, Asked, RateFrom, Now, Reconciled,
              ExpectedCurrency, checkoutvars
<1>2. ASSUME NEW c \in Checkouts, NEW g \in Gateways, NEW i \in Items, Start(c, g, i)
      PROVE  AmountsInv'
  BY <1>2, StartKeeps
<1>3. ASSUME NEW c \in Checkouts,
             \/ Look(c) \/ Fetch(c) \/ FetchFails(c) \/ Store(c)
             \/ SaveSession(c) \/ Open(c) \/ OpenFails(c) \/ Verify(c)
      PROVE  AmountsInv'
  BY <1>3, LookKeeps, FetchKeeps, StoreKeeps, MoveKeeps, VerifyKeeps
<1>4. ASSUME NEW r \in Rates, Tick(r)
      PROVE  AmountsInv'
  BY <1>4, TickKeeps
<1>5. CASE Forget
  BY <1>5 DEF Forget, AmountsInv, AmountTypes, CacheRecent, NoCache, OnItsWay, Asked, RateFrom,
              Now, Reconciled, ExpectedCurrency
<1> QED  BY <1>1, <1>2, <1>3, <1>4, <1>5 DEF CheckoutNext

(* getRate: the rate of every priced checkout was the market's within the  *)
(* cache's time and the provider's timeout, for any number of requests     *)
(* that miss the cache together and store late, and any market.            *)
THEOREM RatesAreRecent == CheckoutSpec => []RateIsRecent
<1>1. AmountsInv => RateIsRecent
  BY DEF AmountsInv, Asked, RateFrom, RateIsRecent
<1> QED  BY <1>1, AmountsInitially, AmountsStep, PTL DEF CheckoutSpec

(* isReconciled: whoever pays the amount asked for, in the currency it was *)
(* asked in, is not refused: at any rate of a naira for a dollar or more.  *)
THEOREM FullPaymentsAreReconciled == CheckoutSpec => []FullPaymentIsReconciled
<1>1. AmountsInv => FullPaymentIsReconciled
  <2> SUFFICES ASSUME AmountsInv, NEW c \in Checkouts, checkout[c].at = "refused"
               PROVE  \/ checkout[c].report.amount \notin {0, checkout[c].asked}
                      \/ checkout[c].report.currency
                           \notin {"none", Currency(checkout[c].gateway)}
    BY DEF FullPaymentIsReconciled
  <2>1. checkout[c] \in Sessions /\ Asked(checkout[c])
    BY DEF AmountsInv, AmountTypes
  <2> QED  BY <2>1 DEF Asked, Reconciled, ExpectedCurrency, Sessions
<1> QED  BY <1>1, AmountsInitially, AmountsStep, PTL DEF CheckoutSpec
=============================================================================
