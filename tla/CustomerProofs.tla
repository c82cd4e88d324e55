--------------------------- MODULE CustomerProofs ---------------------------
(***************************************************************************)
(* Proofs about Subscriptions and Accounts, for any customers, events,     *)
(* subscriptions, requests and numbers of handlers at a time.              *)
(*                                                                         *)
(* A sync of RevenueCat's rows that was not overlapped fetched the         *)
(* customer after the last one that wrote: it saw every change whose event *)
(* is done (StoreSyncs), and the rows are as it wrote them (StoreRows).  A *)
(* rebuild of Paddle's entitlements that was not overlapped has the rows   *)
(* as they are, and has saved what it is through with (Rebuilds).          *)
(*                                                                         *)
(* A copy of the users row says verified only of a number that was         *)
(* confirmed, or handlers have mixed two copies (CopyConfirmed); and a     *)
(* token that was changed into another is revoked, so that a handler still *)
(* refreshing it overlapped the one that did (TokensOnce).                 *)
(***************************************************************************)
EXTENDS Accounts, Subscriptions, TLAPS

-----------------------------------------------------------------------------
(* The rows of RevenueCat.                                                 *)

Events == Users \X Nat

(* The record of a RevenueCat handler at each of its steps.                *)
Request ==
  {Idle} \cup [at : {"note", "fetch", "mark"}, event : Events]
         \cup [at : {"read"}, event : Events, of : Nat, alone : BOOLEAN]
         \cup [at : {"write"}, event : Events, of : Nat, alone : BOOLEAN,
               saw : SUBSET Entitlements]

StoreTypes ==
  /\ store \in [Users -> Seq(States)]
  /\ request \in [Requests -> Request]
  /\ active \in [Users -> SUBSET Entitlements]
  /\ record \in [Users -> [status : Statuses, isActive : BOOLEAN]]
  /\ asOf \in [Users -> Nat]
  /\ \A u \in Users : /\ asOf[u] <= Len(store[u])
                      /\ \A n \in Nat : Event(u, n) \in processed => n <= Len(store[u])

(* An event whose state is in the rows, or was before another's.           *)
Done(u, n) ==
  \/ Event(u, n) \in processed
  \/ \E q \in Requests : request[q].at = "mark" /\ request[q].event = Event(u, n)

Covers(u, n) == \A m \in Nat : Done(u, m) => m <= n

Syncing(r) == request[r].at \in {"read", "write"}

(* What a sync goes by; the event is of a change that it fetched.          *)
SyncRight(r) ==
  /\ request[r] # Idle => request[r].event[2] <= Len(store[UserOf(r)])
  /\ Syncing(r) => /\ request[r].event[2] <= request[r].of
                   /\ request[r].of <= Len(store[UserOf(r)])
  /\ Syncing(r) /\ request[r].alone => Covers(UserOf(r), request[r].of)
  /\ request[r].at = "write" /\ request[r].alone => request[r].saw = active[UserOf(r)]

StoreSyncs == \A r \in Requests : SyncRight(r)

AsWritten(u) ==
  /\ Covers(u, asOf[u])
  /\ asOf[u] >= 1 => active[u] = store[u][asOf[u]].active
  /\ record[u].isActive => active[u] # {}

StoreRows == \A u \in Users : u \notin torn => AsWritten(u)

StoreInv == StoreTypes /\ StoreSyncs /\ StoreRows

-----------------------------------------------------------------------------
(* The rows of Paddle.                                                     *)

Hook ==
  {Idle} \cup [at : {"note", "dedup", "find", "subs", "mark"}, event : PaddleEvents]
         \cup [at : {"save"}, event : PaddleEvents, row : Nat]
         \cup [at : {"rebuild"}, event : PaddleEvents, todo : SUBSET Entitlements,
               alone : BOOLEAN, backed : SUBSET Entitlements]

PaddleTypes ==
  /\ hook \in [Hooks -> Hook]
  /\ paddle \in [PaddleEvents -> {"new", "stored", "recorded", "processed"}]
  /\ granted \in [Users -> SUBSET Entitlements]
  /\ rows \in [Subs -> Seq([status : Statuses, isActive : BOOLEAN])]

(* A rebuild that is alone has the rows as they are, and what it is        *)
(* through with is saved.                                                  *)
RebuildRight(h) ==
  /\ hook[h].at = "mark" => hook[h].event \in rebuilt
  /\ hook[h].at = "rebuild" /\ hook[h].alone =>
       /\ hook[h].backed = Backed(BuyerOf(h))
       /\ \A e \in Entitlements \ hook[h].todo :
            e \in granted[BuyerOf(h)] <=> e \in hook[h].backed

Rebuilds == \A h \in Hooks : RebuildRight(h)

Applied == \A e \in PaddleEvents : paddle[e] = "processed" => e \in rebuilt

OnItsWayFor(u) == \E h \in Hooks : hook[h].at \in {"subs", "rebuild"} /\ BuyerOf(h) = u

GrantedTo(u) == u \in loose \/ OnItsWayFor(u) \/ granted[u] = Backed(u)

Granted == \A u \in Users : GrantedTo(u)

PaddleInv == PaddleTypes /\ Rebuilds /\ Applied /\ Granted

LEMMA HookShape ==
  ASSUME NEW q \in Hook
  PROVE  /\ q # Idle => q.event \in PaddleEvents
         /\ q = Idle <=> q.at = "idle"
         /\ q.at = "save" => q.row \in Nat
         /\ q.at = "rebuild" => /\ q.todo \in SUBSET Entitlements /\ q.alone \in BOOLEAN
                                /\ q.backed \in SUBSET Entitlements
BY DEF Hook, Idle

LEMMA BuyersAreUsers ==
  ASSUME NEW e \in PaddleEvents
  PROVE  e[1] \in Subs /\ Owner[e[1]] \in Users
BY SubscriptionsAssumption DEF PaddleEvents

LEMMA BackedType ==
  ASSUME NEW u
  PROVE  Backed(u) \in SUBSET Entitlements
BY SubscriptionsAssumption DEF Backed

LEMMA PaddleInitially == Init => PaddleInv
<1> SUFFICES ASSUME Init PROVE PaddleInv
  OBVIOUS
<1>1. PaddleTypes
  BY DEF Init, PaddleTypes, Hook
<1>2. Rebuilds /\ Applied
  BY DEF Init, Rebuilds, RebuildRight, Applied, Idle
<1>3. ASSUME NEW u \in Users PROVE GrantedTo(u)
  <2>1. Backed(u) = {}
    BY DEF Init, Backed
  <2> QED  BY <2>1 DEF Init, GrantedTo
<1> QED  BY <1>1, <1>2, <1>3 DEF PaddleInv, Granted

(* What a step of one handler may do to another: no more than overlap it.  *)
Unmoved(g) ==
  /\ hook'[g].at = hook[g].at
  /\ hook[g] # Idle => hook'[g].event = hook[g].event
  /\ hook[g].at = "rebuild" => /\ hook'[g].backed = hook[g].backed
                               /\ hook'[g].todo = hook[g].todo
                               /\ hook'[g].alone => hook[g].alone

SameFor(u) ==
  /\ granted'[u] = granted[u]
  /\ Backed(u)' = Backed(u)
  /\ u \in loose => u \in loose'

(* A step of handler h, which is about a subscription of user b.           *)
LEMMA HookMoves ==
  ASSUME PaddleInv, NEW h \in Hooks, NEW b \in Users,
         hook[h] # Idle => BuyerOf(h) = b,
         hook'[h] # Idle => Owner[hook'[h].event[1]] = b,
         PaddleTypes', Applied', rebuilt \subseteq rebuilt',
         \A g \in Hooks \ {h} : Unmoved(g),
         \A u \in Users \ {b} : SameFor(u),
         \/ SameFor(b)
         \/ \A g \in Hooks \ {h} : hook[g].at = "rebuild" /\ BuyerOf(g) = b => ~hook'[g].alone,
         RebuildRight(h)', GrantedTo(b)'
  PROVE  PaddleInv'
<1>1. ASSUME NEW g \in Hooks, g # h
      PROVE  RebuildRight(g)'
  <2>1. RebuildRight(g) /\ Unmoved(g) /\ hook[g] \in Hook
    BY <1>1 DEF PaddleInv, Rebuilds, PaddleTypes
  <2>2. hook'[g].at = "mark" => hook'[g].event \in rebuilt'
    BY <2>1, HookShape DEF RebuildRight, Unmoved, Idle
  <2>3. ASSUME hook'[g].at = "rebuild", hook'[g].alone
        PROVE  /\ hook'[g].backed = Backed(BuyerOf(g))'
               /\ \A e \in Entitlements \ hook'[g].todo :
                    e \in granted'[BuyerOf(g)'] <=> e \in hook'[g].backed
    <3>1. hook[g].at = "rebuild" /\ hook[g].alone /\ hook[g] # Idle
      <4>1. hook[g].at = "rebuild"
        BY <2>1, <2>3 DEF Unmoved
      <4>2. hook[g].alone
        BY <2>1, <2>3, <4>1, Zenon DEF Unmoved
      <4> QED  BY <4>1, <4>2 DEF Idle
    <3> DEFINE u == BuyerOf(g)
    <3>2. u' = u /\ u \in Users
      BY <2>1, <3>1, HookShape, BuyersAreUsers DEF Unmoved, BuyerOf, SubOf
    <3>3. SameFor(u)
      BY <1>1, <2>3, <3>1, <3>2
    <3>4. hook[g].backed = Backed(u)
      BY <2>1, <3>1 DEF RebuildRight
    <3>5. \A e \in Entitlements \ hook[g].todo : e \in granted[u] <=> e \in hook[g].backed
      BY <2>1, <3>1 DEF RebuildRight
    <3>6. Backed(u)' = Backed(u) /\ granted'[u] = granted[u]
      BY <3>3 DEF SameFor
    <3>7. hook'[g].backed = hook[g].backed /\ hook'[g].todo = hook[g].todo
      BY <2>1, <3>1 DEF Unmoved
    <3>8. Backed(BuyerOf(g))' = Backed(u)'
      BY <3>2 DEF Backed
    <3> HIDE DEF u
    <3> QED  BY <3>2, <3>4, <3>5, <3>6, <3>7, <3>8 DEF u
  <2> QED  BY <2>2, <2>3 DEF RebuildRight
<1>2. ASSUME NEW u \in Users, u # b
      PROVE  GrantedTo(u)'
  <2>1. GrantedTo(u) /\ SameFor(u)
    BY <1>2 DEF PaddleInv, Granted
  <2>2. CASE OnItsWayFor(u)
    <3>1. PICK g \in Hooks : hook[g].at \in {"subs", "rebuild"} /\ BuyerOf(g) = u
      BY <2>2 DEF OnItsWayFor
    <3>2. hook[g] # Idle /\ g # h
      BY <1>2, <3>1 DEF Idle
    <3>3. hook'[g].at \in {"subs", "rebuild"} /\ BuyerOf(g)' = u
      BY <3>1, <3>2 DEF Unmoved, BuyerOf, SubOf
    <3> QED  BY <3>3 DEF GrantedTo, OnItsWayFor
  <2>3. CASE u \in loose
    BY <2>1, <2>3 DEF GrantedTo, SameFor
  <2>4. CASE granted[u] = Backed(u)
    BY <2>1, <2>4 DEF GrantedTo, SameFor
  <2> QED  BY <2>1, <2>2, <2>3, <2>4 DEF GrantedTo
<1> QED  BY <1>1, <1>2 DEF PaddleInv, Rebuilds, Granted

(* The steps before the row is saved, and the last one.                    *)
LEMMA Quiet ==
  ASSUME PaddleInv, NEW h \in Hooks, NEW b \in Users, NEW k \in Hook,
         hook' = [hook EXCEPT ![h] = k], UNCHANGED <<rows, granted, rebuilt, loose>>,
         paddle' \in [PaddleEvents -> {"new", "stored", "recorded", "processed"}], Applied',
         hook[h] # Idle => BuyerOf(h) = b,
         k # Idle => Owner[k.event[1]] = b,
         hook[h].at \notin {"subs", "rebuild"}, k.at \notin {"subs", "rebuild", "mark"}
  PROVE  PaddleInv'
<1>1. PaddleTypes'
  BY DEF PaddleInv, PaddleTypes
<1>2. hook'[h] = k /\ \A g \in Hooks \ {h} : hook'[g] = hook[g]
  BY DEF PaddleInv, PaddleTypes
<1>3. \A g \in Hooks \ {h} : Unmoved(g)
  BY <1>2, Zenon DEF Unmoved
<1>4. \A u \in Users : SameFor(u)
  BY DEF SameFor, Backed
<1>5. RebuildRight(h)'
  BY <1>2 DEF RebuildRight
<1>6. GrantedTo(b)'
  <2>1. GrantedTo(b) /\ SameFor(b)
    BY <1>4 DEF PaddleInv, Granted
  <2>2. CASE OnItsWayFor(b)
    <3>1. PICK g \in Hooks : hook[g].at \in {"subs", "rebuild"} /\ BuyerOf(g) = b
      BY <2>2 DEF OnItsWayFor
    <3>2. hook'[g] = hook[g]
      BY <1>2, <3>1
    <3>3. hook'[g].at \in {"subs", "rebuild"} /\ BuyerOf(g)' = b
      BY <3>1, <3>2 DEF BuyerOf, SubOf
    <3> QED  BY <3>3 DEF GrantedTo, OnItsWayFor
  <2>3. CASE ~OnItsWayFor(b)
    BY <2>1, <2>3 DEF GrantedTo, SameFor
  <2> QED  BY <2>2, <2>3
<1> QED  BY <1>1, <1>2, <1>3, <1>4, <1>5, <1>6, HookMoves

LEMMA EarlyStep ==
  ASSUME PaddleInv, NEW h \in Hooks,
         \/ NoteHook(h) \/ Dedup(h) \/ Find(h) \/ MarkHook(h)
         \/ \E e \in PaddleEvents : ReceiveHook(h, e)
  PROVE  PaddleInv'
<1>1. /\ hook \in [Hooks -> Hook] /\ hook[h] \in Hook
      /\ paddle \in [PaddleEvents -> {"new", "stored", "recorded", "processed"}] /\ Applied
  BY DEF PaddleInv, PaddleTypes
<1>2. ASSUME NEW e \in PaddleEvents, ReceiveHook(h, e)
      PROVE  PaddleInv'
  <2> DEFINE k == [at |-> IF paddle[e] = "new" THEN "note" ELSE "dedup", event |-> e]
  <2>1. k \in Hook /\ k.event = e /\ k.at \notin {"subs", "rebuild", "mark"}
    BY DEF Hook
  <2>2. Owner[e[1]] \in Users
    BY BuyersAreUsers
  <2>3. /\ hook' = [hook EXCEPT ![h] = k] /\ UNCHANGED <<rows, granted, rebuilt, loose>>
        /\ UNCHANGED paddle /\ hook[h] = Idle /\ hook[h].at \notin {"subs", "rebuild"}
    BY <1>2 DEF ReceiveHook, Idle
  <2>4. Applied'
    BY <1>1, <2>3 DEF Applied
  <2> HIDE DEF k
  <2> QED  BY <1>1, <2>1, <2>2, <2>3, <2>4, Quiet
<1> DEFINE e == hook[h].event
           b == BuyerOf(h)
<1>3. ASSUME hook[h].at \in {"note", "dedup", "find", "mark"}
      PROVE  e \in PaddleEvents /\ b \in Users /\ b = Owner[e[1]]
  <2>1. hook[h] # Idle
    BY <1>3 DEF Idle
  <2> QED  BY <1>1, <2>1, HookShape, BuyersAreUsers DEF BuyerOf, SubOf
<1>4. Idle \in Hook /\ Idle.at = "idle"
  BY DEF Hook, Idle
<1>5. CASE NoteHook(h)
  <2>1. hook[h].at = "note" /\ UNCHANGED <<rows, granted, rebuilt, loose>>
    BY <1>5 DEF NoteHook
  <2> DEFINE k == IF paddle[e] = "new" THEN [hook[h] EXCEPT !.at = "dedup"] ELSE Idle
  <2>2. k \in Hook /\ (k # Idle => k.event = e) /\ k.at \notin {"subs", "rebuild", "mark"}
    BY <1>1, <1>4, <2>1 DEF Hook, Idle
  <2>3. hook' = [hook EXCEPT ![h] = k]
    BY <1>1, <1>5 DEF NoteHook, OnHook, Hang
  <2>4. paddle' = IF paddle[e] = "new" THEN [paddle EXCEPT ![e] = "stored"] ELSE paddle
    BY <1>5 DEF NoteHook, SetEvent
  <2>5. /\ paddle' \in [PaddleEvents -> {"new", "stored", "recorded", "processed"}]
        /\ Applied'
    BY <1>1, <1>3, <2>1, <2>4 DEF Applied
  <2> HIDE DEF k
  <2> QED  BY <1>3, <2>1, <2>2, <2>3, <2>5, Quiet
<1>6. CASE Dedup(h)
  <2>1. hook[h].at = "dedup" /\ UNCHANGED <<rows, granted, rebuilt, loose>>
    BY <1>6 DEF Dedup
  <2> DEFINE k == IF paddle[e] = "stored" THEN [hook[h] EXCEPT !.at = "find"] ELSE Idle
  <2>2. k \in Hook /\ (k # Idle => k.event = e) /\ k.at \notin {"subs", "rebuild", "mark"}
    BY <1>1, <1>4, <2>1 DEF Hook, Idle
  <2>3. hook' = [hook EXCEPT ![h] = k]
    BY <1>1, <1>6 DEF Dedup, OnHook, Hang
  <2>4. paddle' = IF paddle[e] = "stored" THEN [paddle EXCEPT ![e] = "recorded"] ELSE paddle
    BY <1>6 DEF Dedup, SetEvent
  <2>5. /\ paddle' \in [PaddleEvents -> {"new", "stored", "recorded", "processed"}]
        /\ Applied'
    BY <1>1, <1>3, <2>1, <2>4 DEF Applied
  <2> HIDE DEF k
  <2> QED  BY <1>3, <2>1, <2>2, <2>3, <2>5, Quiet
<1>7. CASE Find(h)
  <2>1. /\ hook[h].at = "find" /\ UNCHANGED <<rows, granted, rebuilt, loose>>
        /\ UNCHANGED paddle
    BY <1>7 DEF Find
  <2>2. PICK i \in IF rows[SubOf(h)] = <<>> THEN {0} ELSE DOMAIN rows[SubOf(h)] :
          hook' = [hook EXCEPT ![h] = [at |-> "save", event |-> e, row |-> i]]
    BY <1>1, <1>7 DEF Find
  <2> DEFINE k == [at |-> "save", event |-> e, row |-> i]
  <2>3. k \in Hook /\ k.event = e /\ k.at \notin {"subs", "rebuild", "mark"}
    <3>1. hook[h] # Idle /\ SubOf(h) \in Subs
      BY <1>1, <1>3, <2>1, BuyersAreUsers DEF SubOf, Idle
    <3>2. rows[SubOf(h)] \in Seq([status : Statuses, isActive : BOOLEAN])
      BY <3>1 DEF PaddleInv, PaddleTypes
    <3>3. i \in Nat
      BY <2>2, <3>2
    <3> QED  BY <1>3, <2>1, <3>3 DEF Hook
  <2>4. Applied'
    BY <1>1, <2>1 DEF Applied
  <2>5. hook' = [hook EXCEPT ![h] = k]
    BY <2>2
  <2> HIDE DEF k
  <2> QED  BY <1>1, <1>3, <2>1, <2>3, <2>4, <2>5, Quiet
<1>8. CASE MarkHook(h)
  <2>1. /\ hook[h].at = "mark" /\ UNCHANGED <<rows, granted, rebuilt, loose>>
        /\ hook' = [hook EXCEPT ![h] = Idle]
        /\ paddle' = [paddle EXCEPT ![e] = "processed"]
    BY <1>8 DEF MarkHook, SetEvent, Hang
  <2>2. e \in rebuilt
    BY <2>1 DEF PaddleInv, Rebuilds, RebuildRight
  <2>3. /\ paddle' \in [PaddleEvents -> {"new", "stored", "recorded", "processed"}]
        /\ Applied'
    BY <1>1, <1>3, <2>1, <2>2 DEF Applied
  <2> QED  BY <1>3, <1>4, <2>1, <2>3, Quiet
<1> QED  BY <1>2, <1>5, <1>6, <1>7, <1>8

(* What a writer leaves of the others.                                     *)
LEMMA DisturbedShape ==
  ASSUME PaddleTypes, NEW h \in Hooks, NEW mine \in Hook, hook' = Disturbed(h, mine)
  PROVE  /\ hook' \in [Hooks -> Hook] /\ hook'[h] = mine
         /\ \A g \in Hooks \ {h} :
              /\ Unmoved(g)
              /\ hook[g].at = "rebuild" /\ BuyerOf(g) = BuyerOf(h) => ~hook'[g].alone
<1>1. hook'[h] = mine
  BY DEF Disturbed
<1>2. ASSUME NEW g \in Hooks \ {h}
      PROVE  /\ hook'[g] \in Hook /\ Unmoved(g)
             /\ hook[g].at = "rebuild" /\ BuyerOf(g) = BuyerOf(h) => ~hook'[g].alone
  <2>1. hook[g] \in Hook
    BY DEF PaddleTypes
  <2>2. CASE hook[g].at = "rebuild" /\ BuyerOf(g) = BuyerOf(h)
    <3> DEFINE q == hook[g]
               p == [q EXCEPT !.alone = FALSE]
    <3>1. hook'[g] = p
      BY <2>2 DEF Disturbed
    <3>2. q \in [at : {"rebuild"}, event : PaddleEvents, todo : SUBSET Entitlements,
                 alone : BOOLEAN, backed : SUBSET Entitlements]
      BY <2>1, <2>2 DEF Hook, Idle
    <3> HIDE DEF q
    <3>3. /\ p \in Hook /\ p.at = q.at /\ p.event = q.event /\ p.todo = q.todo
          /\ p.backed = q.backed /\ p.alone = FALSE
      BY <3>2 DEF Hook
    <3> HIDE DEF p
    <3> QED  BY <3>1, <3>3 DEF Unmoved, q
  <2>3. CASE ~(hook[g].at = "rebuild" /\ BuyerOf(g) = BuyerOf(h))
    <3>1. hook'[g] = hook[g]
      BY <2>3 DEF Disturbed
    <3> QED  BY <2>1, <2>3, <3>1, Zenon DEF Unmoved
  <2> QED  BY <2>2, <2>3
<1>3. hook' \in [Hooks -> Hook]
  <2>1. \A g \in Hooks : hook'[g] \in Hook
    BY <1>1, <1>2
  <2> QED  BY <2>1 DEF Disturbed
<1> QED  BY <1>1, <1>2, <1>3

LEMMA SeqExcept ==
  ASSUME NEW S, NEW q \in Seq(S), NEW i \in Nat, NEW x \in S
  PROVE  [q EXCEPT ![i] = x] \in Seq(S)
<1>1. CASE i \in DOMAIN q
  BY <1>1
<1>2. CASE i \notin DOMAIN q
  <2>1. [q EXCEPT ![i] = x] = q
    BY <1>2
  <2> QED  BY <2>1
<1> QED  BY <1>1, <1>2

(* The row of a subscription is saved; the entitlements are now behind.    *)
LEMMA SaveStep ==
  ASSUME PaddleInv, NEW h \in Hooks, Save(h)
  PROVE  PaddleInv'
<1> DEFINE e == hook[h].event
           s == e[1]
           k == [at |-> "subs", event |-> e]
<1>1. /\ PaddleTypes /\ hook[h] \in Hook /\ hook[h].at = "save" /\ hook[h] # Idle
      /\ hook[h].row \in Nat
  BY HookShape DEF PaddleInv, PaddleTypes, Save, Idle
<1>b. PICK b \in Users : b = BuyerOf(h)
  BY <1>1, HookShape, BuyersAreUsers DEF BuyerOf, SubOf
<1>2. e \in PaddleEvents /\ s \in Subs /\ b = Owner[s] /\ SubOf(h) = s
  BY <1>1, <1>b, HookShape, BuyersAreUsers DEF BuyerOf, SubOf
<1>3. k \in Hook
  BY <1>2 DEF Hook
<1>4. hook' = Disturbed(h, k) /\ UNCHANGED <<paddle, granted, rebuilt, loose>>
  BY DEF Save
<1>5. /\ hook' \in [Hooks -> Hook] /\ hook'[h] = k
      /\ \A g \in Hooks \ {h} :
           /\ Unmoved(g)
           /\ hook[g].at = "rebuild" /\ BuyerOf(g) = b => ~hook'[g].alone
  BY <1>1, <1>b, <1>3, <1>4, DisturbedShape
<1>6. PICK row \in [status : Statuses, isActive : BOOLEAN] :
        rows' = [rows EXCEPT ![s] = IF hook[h].row = 0 THEN Append(@, row)
                                    ELSE [@ EXCEPT ![hook[h].row] = row]]
  <2>1. PICK paidFor \in BOOLEAN :
          rows' = [rows EXCEPT ![s] =
            IF hook[h].row = 0
            THEN Append(@, [status |-> Mapped[Told[s][e[2]]],
                            isActive |-> StillActive(Mapped[Told[s][e[2]]], paidFor)])
            ELSE [@ EXCEPT ![hook[h].row] =
                   [status |-> Mapped[Told[s][e[2]]],
                    isActive |-> StillActive(Mapped[Told[s][e[2]]], paidFor)]]]
    BY <1>2 DEF Save
  <2>2. Told[s][e[2]] \in Words
    <3>1. PICK t \in Subs : e \in {t} \X DOMAIN Told[t]
      BY <1>2 DEF PaddleEvents
    <3>2. e[1] = t /\ e[2] \in DOMAIN Told[t]
      BY <3>1
    <3> QED  BY <3>2, ToldAssumption
  <2>3. Mapped[Told[s][e[2]]] \in Statuses
    BY <2>2 DEF Mapped, Words, Statuses
  <2>4. StillActive(Mapped[Told[s][e[2]]], paidFor) \in BOOLEAN
    BY DEF StillActive
  <2> DEFINE row == [status |-> Mapped[Told[s][e[2]]],
                     isActive |-> StillActive(Mapped[Told[s][e[2]]], paidFor)]
  <2>5. row \in [status : Statuses, isActive : BOOLEAN]
    BY <2>3, <2>4
  <2>6. rows' = [rows EXCEPT ![s] = IF hook[h].row = 0 THEN Append(@, row)
                                    ELSE [@ EXCEPT ![hook[h].row] = row]]
    BY <2>1
  <2> HIDE DEF row
  <2> QED  BY <2>5, <2>6
<1>7. /\ rows' \in [Subs -> Seq([status : Statuses, isActive : BOOLEAN])]
      /\ \A t \in Subs \ {s} : rows'[t] = rows[t]
  <2>1. rows[s] \in Seq([status : Statuses, isActive : BOOLEAN])
    BY <1>1, <1>2 DEF PaddleTypes
  <2>2. Append(rows[s], row) \in Seq([status : Statuses, isActive : BOOLEAN])
    BY <2>1
  <2>3. [rows[s] EXCEPT ![hook[h].row] = row] \in Seq([status : Statuses, isActive : BOOLEAN])
    BY <1>1, <2>1, SeqExcept
  <2> QED  BY <1>1, <1>2, <1>6, <2>2, <2>3 DEF PaddleTypes
<1>8. PaddleTypes'
  BY <1>1, <1>4, <1>5, <1>7 DEF PaddleTypes
<1>9. Applied'
  BY <1>4 DEF PaddleInv, Applied
<1>10. ASSUME NEW u \in Users \ {b}
       PROVE  SameFor(u)
  <2>1. {t \in Subs : Owner[t] = u /\ \E i \in DOMAIN rows'[t] : rows'[t][i].isActive}
        = {t \in Subs : Owner[t] = u /\ \E i \in DOMAIN rows[t] : rows[t][i].isActive}
    BY <1>2, <1>7
  <2>2. Backed(u)' = Backed(u)
    BY <2>1 DEF Backed
  <2> QED  BY <1>4, <2>2 DEF SameFor
<1>11. RebuildRight(h)'
  BY <1>5 DEF RebuildRight
<1>12. GrantedTo(b)'
  <2>1. hook'[h].at = "subs" /\ Owner[hook'[h].event[1]] = b
    BY <1>2, <1>5
  <2> QED  BY <2>1 DEF GrantedTo, OnItsWayFor, BuyerOf, SubOf
<1>13. hook'[h] # Idle => Owner[hook'[h].event[1]] = b
  BY <1>2, <1>5
<1> HIDE DEF k
<1> QED
  BY <1>1, <1>b, <1>4, <1>5, <1>8, <1>9, <1>10, <1>11, <1>12, <1>13, HookMoves

LEMMA ReadStep ==
  ASSUME PaddleInv, NEW h \in Hooks, ReadAll(h)
  PROVE  PaddleInv'
<1> DEFINE e == hook[h].event
<1>1. /\ PaddleTypes /\ hook[h] \in Hook /\ hook[h].at = "subs" /\ hook[h] # Idle
      /\ UNCHANGED <<paddle, rows, granted, rebuilt, loose>>
  BY HookShape DEF PaddleInv, PaddleTypes, ReadAll, Idle
<1>2. PICK b \in Users : b = BuyerOf(h)
  BY <1>1, HookShape, BuyersAreUsers DEF BuyerOf, SubOf
<1>3. e \in PaddleEvents /\ b = Owner[e[1]]
  BY <1>1, <1>2, HookShape DEF BuyerOf, SubOf
<1> DEFINE k == [at |-> "rebuild", event |-> e, todo |-> Entitlements, alone |-> TRUE,
                 backed |-> Backed(b)]
<1>4. k \in Hook /\ k.at = "rebuild" /\ k.event = e /\ k.todo = Entitlements
      /\ k.backed = Backed(b)
  BY <1>3, BackedType DEF Hook
<1>5. hook' = [hook EXCEPT ![h] = k]
  BY <1>1, <1>2 DEF ReadAll, PaddleTypes
<1> HIDE DEF k
<1>6. PaddleTypes' /\ hook'[h] = k /\ \A g \in Hooks \ {h} : hook'[g] = hook[g]
  BY <1>1, <1>4, <1>5 DEF PaddleTypes
<1>7. \A g \in Hooks \ {h} : Unmoved(g)
  BY <1>6, Zenon DEF Unmoved
<1>8. \A u \in Users : SameFor(u)
  BY <1>1 DEF SameFor, Backed
<1>9. BuyerOf(h)' = b
  BY <1>3, <1>4, <1>6 DEF BuyerOf, SubOf
<1>10. RebuildRight(h)'
  <2>1. Backed(BuyerOf(h))' = Backed(b)'
    BY <1>9 DEF Backed
  <2>2. Backed(b)' = Backed(b)
    BY <1>8 DEF SameFor
  <2>3. hook'[h].backed = Backed(BuyerOf(h))'
    BY <1>4, <1>6, <2>1, <2>2
  <2> QED  BY <1>4, <1>6, <2>3 DEF RebuildRight
<1>11. GrantedTo(b)'
  BY <1>4, <1>6, <1>9 DEF GrantedTo, OnItsWayFor
<1>12. Applied' /\ rebuilt \subseteq rebuilt'
  BY <1>1 DEF PaddleInv, Applied
<1>13. hook'[h] # Idle => Owner[hook'[h].event[1]] = b
  BY <1>3, <1>4, <1>6
<1> QED
  BY <1>2, <1>6, <1>7, <1>8, <1>10, <1>11, <1>12, <1>13, HookMoves

(* An entitlement is saved; the last one ends the rebuild.                 *)
LEMMA RebuildStep ==
  ASSUME PaddleInv, NEW h \in Hooks, Rebuild(h)
  PROVE  PaddleInv'
<1> DEFINE q == hook[h]
<1>1. /\ PaddleTypes /\ q \in Hook /\ q.at = "rebuild" /\ q # Idle
      /\ UNCHANGED <<paddle, rows>>
  BY HookShape DEF PaddleInv, PaddleTypes, Rebuild, Idle
<1>2. PICK b \in Users : b = BuyerOf(h)
  BY <1>1, HookShape, BuyersAreUsers DEF BuyerOf, SubOf
<1>3. /\ q \in [at : {"rebuild"}, event : PaddleEvents, todo : SUBSET Entitlements,
                alone : BOOLEAN, backed : SUBSET Entitlements]
      /\ b = Owner[q.event[1]]
  BY <1>1, <1>2 DEF BuyerOf, SubOf, Hook, Idle
<1>4. PICK x \in q.todo :
        /\ granted' = [granted EXCEPT ![b] = IF x \in q.backed THEN @ \cup {x} ELSE @ \ {x}]
        /\ IF q.todo = {x}
           THEN /\ hook' = Disturbed(h, [at |-> "mark", event |-> q.event])
                /\ rebuilt' = rebuilt \cup {q.event}
                /\ loose' = IF q.alone THEN loose \ {b} ELSE loose \cup {b}
           ELSE /\ hook' = Disturbed(h, [q EXCEPT !.todo = @ \ {x}])
                /\ UNCHANGED <<rebuilt, loose>>
  BY <1>2 DEF Rebuild
<1> DEFINE more == [q EXCEPT !.todo = q.todo \ {x}]
           last == [at |-> "mark", event |-> q.event]
           k == IF q.todo = {x} THEN last ELSE more
<1>5. RebuildRight(h)
  BY DEF PaddleInv, Rebuilds
<1> HIDE DEF q
<1>6. more \in Hook /\ last \in Hook /\ more.at = "rebuild" /\ more.event = q.event
      /\ more.todo = q.todo \ {x} /\ more.alone = q.alone /\ more.backed = q.backed
  BY <1>3 DEF Hook
<1>7. last.at = "mark" /\ last.event = q.event
  OBVIOUS
<1> HIDE DEF more, last
<1>8. k \in Hook /\ k.event = q.event
  BY <1>6, <1>7
<1>9. hook' = Disturbed(h, k)
  BY <1>3, <1>4 DEF more, last
<1>10. /\ hook' \in [Hooks -> Hook] /\ hook'[h] = k
       /\ \A g \in Hooks \ {h} :
            /\ Unmoved(g)
            /\ hook[g].at = "rebuild" /\ BuyerOf(g) = b => ~hook'[g].alone
  BY <1>1, <1>2, <1>8, <1>9, DisturbedShape
<1>11. /\ granted' \in [Users -> SUBSET Entitlements]
       /\ granted'[b] = IF x \in q.backed THEN granted[b] \cup {x} ELSE granted[b] \ {x}
       /\ \A u \in Users \ {b} : granted'[u] = granted[u]
  BY <1>1, <1>3, <1>4 DEF PaddleTypes
<1>12. PaddleTypes'
  BY <1>1, <1>10, <1>11 DEF PaddleTypes
<1>13. \A u \in Users : Backed(u)' = Backed(u)
  BY <1>1 DEF Backed
<1>14. \A u \in Users \ {b} : SameFor(u)
  BY <1>4, <1>11, <1>13 DEF SameFor
<1>15. rebuilt \subseteq rebuilt'
  BY <1>4
<1>16. Applied'
  BY <1>1, <1>15 DEF PaddleInv, Applied
<1>17. BuyerOf(h)' = b
  BY <1>3, <1>8, <1>10 DEF BuyerOf, SubOf
<1>18. ASSUME q.alone
       PROVE  /\ q.backed = Backed(b)
              /\ \A y \in Entitlements \ (q.todo \ {x}) :
                   y \in granted'[b] <=> y \in q.backed
  BY <1>1, <1>2, <1>5, <1>11, <1>18 DEF RebuildRight, q
<1>19. Backed(BuyerOf(h))' = Backed(b)
  <2>1. Backed(BuyerOf(h))' = Backed(b)'
    BY <1>17 DEF Backed
  <2> QED  BY <1>13, <2>1
<1>20. CASE q.todo = {x}
  <2>1. k.at = "mark" /\ q.event \in rebuilt'
    BY <1>4, <1>7, <1>20
  <2>2. RebuildRight(h)'
    BY <1>8, <1>10, <2>1 DEF RebuildRight
  <2>3. GrantedTo(b)'
    <3>1. CASE q.alone
      <4>1. granted'[b] = q.backed
        <5>1. granted'[b] \subseteq Entitlements /\ q.backed \subseteq Entitlements
          BY <1>3, <1>11
        <5>2. \A y \in Entitlements : y \in granted'[b] <=> y \in q.backed
          BY <1>18, <1>20, <3>1
        <5> QED  BY <5>1, <5>2
      <4>2. granted'[b] = Backed(b)'
        BY <1>13, <1>18, <3>1, <4>1
      <4> QED  BY <4>2 DEF GrantedTo
    <3>2. CASE ~q.alone
      BY <1>4, <1>20, <3>2 DEF GrantedTo
    <3> QED  BY <3>1, <3>2
  <2>4. hook'[h] # Idle => Owner[hook'[h].event[1]] = b
    BY <1>3, <1>8, <1>10
  <2> HIDE DEF k
  <2> QED  BY <1>2, <1>10, <1>12, <1>14, <1>15, <1>16, <2>2, <2>3, <2>4, HookMoves
<1>21. CASE q.todo # {x}
  <2>1. k = more
    BY <1>21
  <2>2. RebuildRight(h)'
    <3>1. hook'[h] = more
      BY <1>10, <2>1
    <3>2. ASSUME more.alone
          PROVE  /\ more.backed = Backed(BuyerOf(h))'
                 /\ \A y \in Entitlements \ more.todo :
                      y \in granted'[BuyerOf(h)'] <=> y \in more.backed
      BY <1>6, <1>17, <1>18, <1>19, <3>2
    <3> QED  BY <1>6, <3>1, <3>2 DEF RebuildRight
  <2>3. GrantedTo(b)'
    BY <1>6, <1>10, <1>17, <2>1 DEF GrantedTo, OnItsWayFor
  <2>4. hook'[h] # Idle => Owner[hook'[h].event[1]] = b
    BY <1>3, <1>8, <1>10
  <2> HIDE DEF k
  <2> QED  BY <1>2, <1>10, <1>12, <1>14, <1>15, <1>16, <2>2, <2>3, <2>4, HookMoves
<1> QED  BY <1>20, <1>21

LEMMA FailStep ==
  ASSUME PaddleInv, NEW h \in Hooks, FailHook(h)
  PROVE  PaddleInv'
<1>1. /\ PaddleTypes /\ hook[h] \in Hook /\ hook[h] # Idle
      /\ hook' = [hook EXCEPT ![h] = Idle] /\ UNCHANGED <<paddle, rows, granted, rebuilt>>
      /\ loose' = IF hook[h].at \in {"subs", "rebuild"} THEN loose \cup {BuyerOf(h)} ELSE loose
  BY DEF PaddleInv, PaddleTypes, FailHook, Hang
<1>2. PICK b \in Users : b = BuyerOf(h)
  BY <1>1, HookShape, BuyersAreUsers DEF BuyerOf, SubOf
<1>3. Idle \in Hook /\ Idle.at = "idle"
  BY DEF Hook, Idle
<1>4. /\ Applied' /\ PaddleTypes'
      /\ paddle' \in [PaddleEvents -> {"new", "stored", "recorded", "processed"}]
  BY <1>1, <1>3 DEF PaddleInv, PaddleTypes, Applied
<1>5. CASE hook[h].at \notin {"subs", "rebuild"}
  BY <1>1, <1>2, <1>3, <1>4, <1>5, Quiet
<1>6. CASE hook[h].at \in {"subs", "rebuild"}
  <2>1. hook'[h] = Idle /\ \A g \in Hooks \ {h} : hook'[g] = hook[g]
    BY <1>1 DEF PaddleTypes
  <2>2. \A g \in Hooks \ {h} : Unmoved(g)
    BY <2>1, Zenon DEF Unmoved
  <2>3. \A u \in Users : SameFor(u)
    BY <1>1 DEF SameFor, Backed
  <2>4. RebuildRight(h)'
    BY <1>3, <2>1 DEF RebuildRight
  <2>5. GrantedTo(b)'
    BY <1>1, <1>2, <1>6 DEF GrantedTo
  <2> QED  BY <1>1, <1>2, <1>4, <2>1, <2>2, <2>3, <2>4, <2>5, HookMoves
<1> QED  BY <1>5, <1>6

(* The rest of the steps are the store's.                                  *)
LEMMA PaddleStays ==
  ASSUME PaddleInv, UNCHANGED paddleVars
  PROVE  PaddleInv'
<1>1. UNCHANGED <<hook, paddle, rows, granted, rebuilt, loose>>
  BY DEF paddleVars
<1>2. PaddleTypes' /\ Applied'
  BY <1>1 DEF PaddleInv, PaddleTypes, Applied
<1>3. \A h \in Hooks : RebuildRight(h)'
  BY <1>1 DEF PaddleInv, Rebuilds, RebuildRight, Backed, BuyerOf, SubOf
<1>4. \A u \in Users : GrantedTo(u)'
  BY <1>1 DEF PaddleInv, Granted, GrantedTo, OnItsWayFor, Backed, BuyerOf, SubOf
<1> QED  BY <1>2, <1>3, <1>4 DEF PaddleInv, Rebuilds, Granted

LEMMA StoreKeepsPaddle == StoreNext => UNCHANGED paddleVars
BY DEF StoreNext, RequestStep, Change, AskToRefresh, Receive, Note, Fetch, Read, Write, Mark,
       Fail, frame

LEMMA PaddleStep == PaddleInv /\ [Next]_vars => PaddleInv'
<1> SUFFICES ASSUME PaddleInv, [Next]_vars PROVE PaddleInv'
  OBVIOUS
<1>1. CASE UNCHANGED vars
  BY <1>1, PaddleStays DEF vars
<1>2. CASE StoreNext
  BY <1>2, PaddleStays, StoreKeepsPaddle
<1>3. CASE PaddleNext
  <2>1. PICK h \in Hooks :
          HookStep(h) \/ FailHook(h) \/ \E e \in PaddleEvents : ReceiveHook(h, e)
    BY <1>3 DEF PaddleNext
  <2> QED  BY <2>1, EarlyStep, SaveStep, ReadStep, RebuildStep, FailStep DEF HookStep
<1> QED  BY <1>1, <1>2, <1>3 DEF Next

(* rebuildPaddleEntitlements: unless a handler is on its way, failed on    *)
(* its way or overlapped another, a user is shown, beyond what RevenueCat  *)
(* grants, what all active subscriptions of the user grant; for any        *)
(* products, events and order of them.                                     *)
THEOREM SubscriptionsAreGranted == Spec => []GrantsAreBacked
<1>1. PaddleInv => GrantsAreBacked
  <2> SUFFICES ASSUME PaddleInv, NEW u \in Users, u \notin loose, ~OnItsWayFor(u)
               PROVE  Shown(u) \ active[u] = Backed(u) \ active[u]
    BY DEF GrantsAreBacked, OnItsWayFor
  <2>1. granted[u] = Backed(u)
    BY DEF PaddleInv, Granted, GrantedTo
  <2> QED  BY <2>1 DEF Shown
<1> QED  BY <1>1, PaddleInitially, PaddleStep, PTL DEF Spec

-----------------------------------------------------------------------------
(* The steps of the RevenueCat handlers.                                   *)

LEMMA RequestShape ==
  ASSUME NEW q \in Request
  PROVE  /\ q # Idle => q.event \in Events /\ q.event[1] \in Users /\ q.event[2] \in Nat
         /\ q = Idle <=> q.at = "idle"
         /\ q.at \in {"read", "write"} => q.of \in Nat /\ q.alone \in BOOLEAN
         /\ q.at = "write" => q.saw \in SUBSET Entitlements
BY DEF Request, Idle, Events

LEMMA StoreInitially == Init => StoreInv
<1> SUFFICES ASSUME Init PROVE StoreInv
  OBVIOUS
<1>1. StoreTypes
  BY DEF Init, StoreTypes, Request, NoRecord, Statuses
<1>2. StoreSyncs
  BY DEF Init, StoreSyncs, SyncRight, Syncing, Idle
<1>3. StoreRows
  <2>1. \A u \in Users, m \in Nat : ~Done(u, m)
    BY DEF Init, Done, Idle
  <2> QED  BY <2>1 DEF Init, StoreRows, AsWritten, Covers, NoRecord
<1> QED  BY <1>1, <1>2, <1>3 DEF StoreInv

(* A customer's state changes: the event is still to come.                 *)
LEMMA ChangeStep ==
  ASSUME StoreInv, NEW u \in Users, Change(u)
  PROVE  StoreInv'
<1>1. PICK s \in States : store' = [store EXCEPT ![u] = Append(@, s)]
  BY DEF Change
<1>2. UNCHANGED <<request, processed, record, active, asOf, torn>> /\ StoreTypes
  BY DEF Change, StoreInv
<1>3. ASSUME NEW v \in Users
      PROVE  /\ Len(store[v]) \in Nat /\ Len(store'[v]) \in Nat
             /\ store'[v] \in Seq(States) /\ Len(store[v]) <= Len(store'[v])
             /\ \A n \in 1..Len(store[v]) : store'[v][n] = store[v][n]
  <2>1. store[v] \in Seq(States)
    BY <1>2 DEF StoreTypes
  <2>2. store'[v] = IF v = u THEN Append(store[v], s) ELSE store[v]
    BY <1>1, <1>2 DEF StoreTypes
  <2> QED  BY <2>1, <2>2
<1>4. StoreTypes'
  <2>1. store' \in [Users -> Seq(States)]
    BY <1>1, <1>2, <1>3 DEF StoreTypes
  <2>2. ASSUME NEW v \in Users
        PROVE  /\ asOf'[v] <= Len(store'[v])
               /\ \A n \in Nat : Event(v, n) \in processed' => n <= Len(store'[v])
    <3>1. /\ asOf[v] \in Nat /\ asOf[v] <= Len(store[v])
          /\ \A n \in Nat : Event(v, n) \in processed => n <= Len(store[v])
      BY <1>2 DEF StoreTypes
    <3> QED  BY <1>2, <1>3, <3>1
  <2> QED  BY <1>2, <2>1, <2>2 DEF StoreTypes, Event
<1>5. ASSUME NEW v \in Users, NEW n PROVE Covers(v, n)' <=> Covers(v, n)
  BY <1>2 DEF Covers, Done, Event
<1>6. ASSUME NEW r \in Requests
      PROVE  SyncRight(r)'
  <2>1. SyncRight(r) /\ request[r] \in Request
    BY DEF StoreInv, StoreSyncs, StoreTypes
  <2>2. CASE request[r] = Idle
    BY <1>2, <2>2 DEF SyncRight, Syncing, Idle
  <2>3. CASE request[r] # Idle
    <3> DEFINE v == UserOf(r)
    <3>1. v \in Users /\ v' = v /\ request[r].event[2] \in Nat
      BY <1>2, <2>1, <2>3, RequestShape DEF UserOf
    <3>2. Syncing(r) => request[r].of \in Nat
      BY <2>1, RequestShape DEF Syncing
    <3>3. Len(store[v]) \in Nat /\ Len(store'[v]) \in Nat /\ Len(store[v]) <= Len(store'[v])
      BY <1>3, <3>1
    <3>4. request[r].event[2] <= Len(store'[v'])
      BY <2>1, <2>3, <3>1, <3>3 DEF SyncRight
    <3>5. Syncing(r) => /\ request[r].event[2] <= request[r].of
                        /\ request[r].of <= Len(store'[v'])
      BY <2>1, <3>1, <3>2, <3>3 DEF SyncRight
    <3>6. Syncing(r) /\ request[r].alone => Covers(v, request[r].of)'
      BY <1>5, <2>1, <3>1, <1>2 DEF SyncRight, Covers, Done, Event
    <3>7. request[r].at = "write" /\ request[r].alone => request[r].saw = active[v]
      BY <2>1 DEF SyncRight
    <3> QED  BY <1>2, <3>1, <3>4, <3>5, <3>6, <3>7 DEF SyncRight, Syncing
  <2> QED  BY <2>2, <2>3
<1>7. ASSUME NEW v \in Users, v \notin torn
      PROVE  AsWritten(v)'
  <2>1. AsWritten(v) /\ asOf[v] \in Nat /\ asOf[v] <= Len(store[v])
    BY <1>7, <1>2 DEF StoreInv, StoreRows, StoreTypes
  <2>2. Covers(v, asOf[v])'
    BY <1>2, <2>1 DEF AsWritten, Covers, Done, Event
  <2>3. asOf[v] >= 1 => store'[v][asOf[v]] = store[v][asOf[v]]
    BY <1>3, <2>1
  <2> QED  BY <1>2, <2>1, <2>2, <2>3 DEF AsWritten
<1> QED  BY <1>2, <1>4, <1>6, <1>7 DEF StoreInv, StoreSyncs, StoreRows

(* A step of one handler that writes none of the rows.                     *)
LEMMA OneRequest ==
  ASSUME StoreInv, NEW r \in Requests, NEW k \in Request,
         request' = [request EXCEPT ![r] = k],
         UNCHANGED <<store, record, active, asOf, torn>>,
         \A u \in Users, n \in Nat : Done(u, n)' => Done(u, n),
         \A u \in Users, n \in Nat : Event(u, n) \in processed' => Done(u, n),
         SyncRight(r)'
  PROVE  StoreInv'
<1>1. /\ StoreTypes /\ request' \in [Requests -> Request]
      /\ \A q \in Requests \ {r} : request'[q] = request[q]
  BY DEF StoreInv, StoreTypes
<1>2. ASSUME NEW u \in Users, NEW n \in Nat, Done(u, n)
      PROVE  n <= Len(store[u])
  <2>1. CASE Event(u, n) \in processed
    BY <1>1, <2>1 DEF StoreTypes
  <2>2. ASSUME NEW q \in Requests, request[q].at = "mark", request[q].event = Event(u, n)
        PROVE  n <= Len(store[u])
    BY <2>2 DEF StoreInv, StoreSyncs, SyncRight, UserOf, Event, Idle
  <2> QED  BY <1>2, <2>1, <2>2 DEF Done
<1>3. StoreTypes'
  BY <1>1, <1>2 DEF StoreTypes, Event
<1>4. ASSUME NEW u \in Users, NEW n, Covers(u, n) PROVE Covers(u, n)'
  BY <1>4 DEF Covers
<1>5. ASSUME NEW q \in Requests, q # r
      PROVE  SyncRight(q)'
  <2>1. SyncRight(q) /\ request[q] \in Request /\ request'[q] = request[q]
    BY <1>1, <1>5 DEF StoreInv, StoreSyncs, StoreTypes
  <2>2. CASE request[q] = Idle
    BY <2>1, <2>2 DEF SyncRight, Syncing, Idle
  <2>3. CASE request[q] # Idle
    <3>1. UserOf(q) \in Users /\ UserOf(q)' = UserOf(q)
      BY <2>1, <2>3, RequestShape DEF UserOf
    <3>2. Syncing(q) /\ request[q].alone => Covers(UserOf(q), request[q].of)'
      BY <1>4, <2>1, <3>1 DEF SyncRight, Covers
    <3> QED  BY <2>1, <3>1, <3>2 DEF SyncRight, Syncing
  <2> QED  BY <2>2, <2>3
<1>6. ASSUME NEW u \in Users, u \notin torn
      PROVE  AsWritten(u)'
  BY <1>4, <1>6 DEF StoreInv, StoreRows, AsWritten, Covers
<1> QED  BY <1>3, <1>5, <1>6 DEF StoreInv, StoreSyncs, StoreRows

(* An event that is done is of a change that was made.                     *)
LEMMA DoneIsTold ==
  ASSUME StoreInv, NEW u \in Users, NEW n \in Nat, Done(u, n)
  PROVE  n <= Len(store[u])
<1>1. CASE Event(u, n) \in processed
  BY <1>1 DEF StoreInv, StoreTypes
<1>2. ASSUME NEW q \in Requests, request[q].at = "mark", request[q].event = Event(u, n)
      PROVE  n <= Len(store[u])
  BY <1>2 DEF StoreInv, StoreSyncs, SyncRight, UserOf, Event, Idle
<1> QED  BY <1>1, <1>2 DEF Done

(* The handler was not marking, and is not; nothing more is done.          *)
LEMMA NothingDone ==
  ASSUME StoreInv, NEW r \in Requests, NEW k \in Request,
         request' = [request EXCEPT ![r] = k], k.at # "mark", UNCHANGED processed
  PROVE  /\ \A u \in Users, n \in Nat : Done(u, n)' => Done(u, n)
         /\ \A u \in Users, n \in Nat : Event(u, n) \in processed' => Done(u, n)
<1>1. \A q \in Requests : request'[q] = IF q = r THEN k ELSE request[q]
  BY DEF StoreInv, StoreTypes
<1> QED  BY <1>1 DEF Done, Event

LEMMA ReceiveStep ==
  ASSUME StoreInv, NEW r \in Requests, NEW u \in Users,
         AskToRefresh(r, u) \/ \E n \in Started(u) : Receive(r, u, n)
  PROVE  StoreInv'
<1>1. ASSUME NEW at \in {"note", "fetch"}, NEW n \in Nat, n <= Len(store[u]),
             request' = [request EXCEPT ![r] = [at |-> at, event |-> <<u, n>>]],
             UNCHANGED <<store, processed, record, active, asOf, torn>>
      PROVE  StoreInv'
  <2> DEFINE k == [at |-> at, event |-> <<u, n>>]
  <2>1. k \in Request /\ k.at = at /\ k.event = <<u, n>>
    BY DEF Request, Events
  <2>2. request' = [request EXCEPT ![r] = k] /\ k.at # "mark"
    BY <1>1
  <2> HIDE DEF k
  <2>3. request'[r] = k
    BY <2>2 DEF StoreInv, StoreTypes
  <2>4. SyncRight(r)'
    BY <1>1, <2>1, <2>3 DEF SyncRight, Syncing, UserOf
  <2> QED  BY <1>1, <2>1, <2>2, <2>4, NothingDone, OneRequest
<1>2. CASE AskToRefresh(r, u)
  <2>1. 0 <= Len(store[u])
    BY DEF StoreInv, StoreTypes
  <2> QED  BY <1>1, <1>2, <2>1 DEF AskToRefresh, Refresh, frame
<1>3. ASSUME NEW n \in Started(u), Receive(r, u, n)
      PROVE  StoreInv'
  <2>1. n \in Nat /\ n <= Len(store[u])
    BY DEF Started
  <2> QED  BY <1>1, <1>3, <2>1 DEF Receive, Event, frame
<1> QED  BY <1>2, <1>3

LEMMA HandlerStep ==
  ASSUME StoreInv, NEW r \in Requests, Note(r) \/ Fetch(r) \/ Read(r) \/ Mark(r) \/ Fail(r)
  PROVE  StoreInv'
<1> DEFINE q == request[r]
           u == UserOf(r)
<1>1. request \in [Requests -> Request] /\ q \in Request /\ SyncRight(r)
  BY DEF StoreInv, StoreTypes, StoreSyncs
<1>2. /\ UNCHANGED <<store, record, active, asOf, torn>> /\ q # Idle
      /\ q.event \in Events /\ u \in Users /\ u = q.event[1] /\ q.event[2] \in Nat
      /\ q.event[2] <= Len(store[u]) /\ Len(store[u]) \in Nat
  <2>1. q # Idle /\ UNCHANGED <<store, record, active, asOf, torn>>
    BY DEF Note, Fetch, Read, Mark, Fail, frame, Idle
  <2>2. q.event \in Events /\ u \in Users /\ u = q.event[1] /\ q.event[2] \in Nat
    BY <1>1, <2>1, RequestShape DEF UserOf
  <2> QED  BY <1>1, <2>1, <2>2 DEF SyncRight, StoreInv, StoreTypes
<1>3. Idle \in Request /\ Idle.at = "idle"
  BY DEF Request, Idle
<1>4. ASSUME NEW k \in Request, k = Idle \/ (k.at \in {"fetch"} /\ k.event = q.event),
             request' = [request EXCEPT ![r] = k],
             \A v \in Users, n \in Nat : Done(v, n)' => Done(v, n),
             \A v \in Users, n \in Nat : Event(v, n) \in processed' => Done(v, n)
      PROVE  StoreInv'
  <2>1. request'[r] = k
    BY <1>1, <1>4
  <2>2. SyncRight(r)'
    BY <1>2, <1>3, <1>4, <2>1 DEF SyncRight, Syncing, UserOf
  <2> QED  BY <1>2, <1>4, <2>2, OneRequest
<1>5. CASE Note(r)
  <2> DEFINE k == IF q.event \in known THEN Idle ELSE [q EXCEPT !.at = "fetch"]
  <2>1. q.at = "note" /\ request' = [request EXCEPT ![r] = k] /\ UNCHANGED processed
    BY <1>1, <1>5 DEF Note, End, Goto
  <2>2. k \in Request /\ (k = Idle \/ (k.at = "fetch" /\ k.event = q.event))
    BY <1>1, <1>3, <2>1 DEF Request, Idle
  <2>3. k.at # "mark"
    BY <1>3, <2>2
  <2> HIDE DEF k, q
  <2> QED  BY <1>4, <2>1, <2>2, <2>3, NothingDone
<1>6. CASE Fail(r)
  <2>1. request' = [request EXCEPT ![r] = Idle] /\ UNCHANGED processed
    BY <1>6 DEF Fail, End
  <2> QED  BY <1>3, <1>4, <2>1, NothingDone
<1>7. CASE Mark(r)
  <2>1. q.at = "mark" /\ request' = [request EXCEPT ![r] = Idle]
        /\ processed' = processed \cup {q.event}
    BY <1>7 DEF Mark, End
  <2>2. ASSUME NEW v \in Users, NEW n \in Nat, Event(v, n) \in processed'
        PROVE  Done(v, n)
    BY <2>1, <2>2 DEF Done
  <2>3. ASSUME NEW v \in Users, NEW n \in Nat, Done(v, n)'
        PROVE  Done(v, n)
    <3>1. \A p \in Requests : request'[p].at = "mark" => request'[p] = request[p]
      BY <1>1, <1>3, <2>1
    <3>2. CASE Event(v, n) \in processed'
      BY <2>2, <3>2
    <3>3. CASE Event(v, n) \notin processed'
      BY <2>3, <3>1, <3>3 DEF Done, Event
    <3> QED  BY <3>2, <3>3
  <2> QED  BY <1>3, <1>4, <2>1, <2>2, <2>3
<1>8. CASE Fetch(r)
  <2> DEFINE k == [at |-> "read", event |-> q.event, of |-> Len(store[u]), alone |-> TRUE]
  <2>1. request' = [request EXCEPT ![r] = k] /\ UNCHANGED processed
    BY <1>1, <1>8 DEF Fetch
  <2>2. k \in Request /\ k.at = "read" /\ k.event = q.event /\ k.of = Len(store[u])
    BY <1>2 DEF Request
  <2> HIDE DEF k
  <2>3. request'[r] = k
    BY <1>1, <2>1
  <2>4. /\ \A v \in Users, n \in Nat : Done(v, n)' => Done(v, n)
        /\ \A v \in Users, n \in Nat : Event(v, n) \in processed' => Done(v, n)
    BY <2>1, <2>2, NothingDone
  <2>5. PICK v \in Users : v = u
    BY <1>2
  <2>6. UserOf(r)' = v
    BY <1>2, <2>2, <2>3, <2>5 DEF UserOf
  <2>7. Covers(UserOf(r), request[r].of)'
    <3>1. \A n \in Nat : Done(v, n)' => n <= Len(store[v])
      BY <2>4, DoneIsTold
    <3>2. \A n \in Nat : Done(UserOf(r), n)' <=> Done(v, n)'
      BY <2>6 DEF Done, Event
    <3> QED  BY <2>2, <2>3, <2>5, <3>1, <3>2 DEF Covers
  <2>8. SyncRight(r)'
    BY <1>2, <2>2, <2>3, <2>5, <2>6, <2>7 DEF SyncRight, Syncing
  <2> QED  BY <1>2, <2>1, <2>2, <2>4, <2>8, OneRequest
<1>9. CASE Read(r)
  <2> DEFINE k == [at |-> "write", event |-> q.event, of |-> q.of, alone |-> q.alone,
                   saw |-> active[u]]
  <2>1. request' = [request EXCEPT ![r] = k] /\ UNCHANGED processed /\ q.at = "read"
    BY <1>1, <1>9 DEF Read
  <2>2. q.of \in Nat /\ q.alone \in BOOLEAN /\ active[u] \in SUBSET Entitlements
    BY <1>1, <1>2, <2>1, RequestShape DEF StoreInv, StoreTypes
  <2>3. k \in Request /\ k.at = "write" /\ k.event = q.event /\ k.of = q.of
        /\ k.alone = q.alone /\ k.saw = active[u]
    BY <1>2, <2>2 DEF Request
  <2> HIDE DEF k
  <2>4. request'[r] = k
    BY <1>1, <2>1
  <2>5. /\ \A v \in Users, n \in Nat : Done(v, n)' => Done(v, n)
        /\ \A v \in Users, n \in Nat : Event(v, n) \in processed' => Done(v, n)
    BY <2>1, <2>3, NothingDone
  <2>6. PICK v \in Users : v = u
    BY <1>2
  <2>7. UserOf(r)' = v
    BY <1>2, <2>3, <2>4, <2>6 DEF UserOf
  <2>8. q.alone => Covers(UserOf(r), request[r].of)'
    <3>1. q.alone => Covers(v, q.of)
      BY <1>1, <2>1, <2>6 DEF SyncRight, Syncing
    <3>2. \A n \in Nat : Done(UserOf(r), n)' <=> Done(v, n)'
      BY <2>7 DEF Done, Event
    <3> QED  BY <2>3, <2>4, <2>5, <3>1, <3>2 DEF Covers
  <2>9. q.event[2] <= q.of /\ q.of <= Len(store[v])
    BY <1>1, <2>1, <2>6 DEF SyncRight, Syncing
  <2>10. SyncRight(r)'
    BY <1>2, <2>3, <2>4, <2>6, <2>7, <2>8, <2>9 DEF SyncRight, Syncing
  <2> QED  BY <1>2, <2>1, <2>3, <2>5, <2>10, OneRequest
<1> QED  BY <1>5, <1>6, <1>7, <1>8, <1>9

(* A write's row of subscriptions: active only if the customer has         *)
(* something.                                                              *)
LEMMA WrittenRecord ==
  ASSUME NEW r \in Requests
  PROVE  /\ [status |-> StatusOf(EventOf(r).kind, Has(r)), isActive |-> Has(r)]
              \in [status : Statuses, isActive : BOOLEAN]
         /\ Has(r) => Fetched(r) # {}
<1>1. Has(r) \in BOOLEAN /\ (Has(r) => Fetched(r) # {})
  BY DEF Has
<1>2. ASSUME NEW kind, NEW has \in BOOLEAN PROVE StatusOf(kind, has) \in Statuses
  BY DEF StatusOf, Statuses
<1> QED  BY <1>1, <1>2

LEMMA WriteStep ==
  ASSUME StoreInv, NEW r \in Requests, Write(r)
  PROVE  StoreInv'
<1>1. PICK q \in Request : q = request[r]
  BY DEF StoreInv, StoreTypes
<1>2. /\ StoreTypes /\ SyncRight(r) /\ request \in [Requests -> Request]
      /\ q.at = "write" /\ UNCHANGED <<known, processed, store>>
  BY <1>1 DEF StoreInv, StoreSyncs, StoreTypes, Write, frame
<1>3. PICK u \in Users : u = UserOf(r)
  BY <1>1, <1>2, RequestShape DEF UserOf, Idle
<1>4. /\ q # Idle /\ q.event \in Events /\ q.event[1] = u /\ q.event[2] \in Nat
      /\ q.of \in Nat /\ q.alone \in BOOLEAN /\ q.saw \in SUBSET Entitlements
  BY <1>1, <1>2, <1>3, RequestShape DEF UserOf, Idle
<1>5. /\ q.event[2] <= q.of /\ q.of <= Len(store[u])
      /\ q.alone => Covers(u, q.of)
      /\ q.alone => q.saw = active[u]
  BY <1>1, <1>2, <1>3 DEF SyncRight, Syncing
<1>6. PICK early \in SUBSET Entitlements :
        active' = [active EXCEPT ![u] =
          {e \in Entitlements : IF e \in early /\ (e \in Fetched(r)) = (e \in q.saw)
                                THEN e \in active[u] ELSE e \in Fetched(r)}]
  BY <1>1, <1>2, <1>3 DEF Write, StoreTypes
<1>7. /\ record' = [record EXCEPT ![u] =
           [status |-> StatusOf(EventOf(r).kind, Has(r)), isActive |-> Has(r)]]
      /\ asOf' = [asOf EXCEPT ![u] = q.of]
      /\ torn' = IF q.alone THEN torn \ {u} ELSE torn \cup {u}
      /\ request' = Committed(r, u)
  BY <1>1, <1>3 DEF Write
<1>8. ASSUME NEW p \in Requests
      PROVE  /\ request'[p] \in Request
             /\ p = r => request'[p] = Idle \/ (/\ request'[p].at = "mark"
                                               /\ request'[p].event = q.event)
             /\ p # r /\ ~(Syncing(p) /\ UserOf(p) = u) => request'[p] = request[p]
             /\ p # r /\ Syncing(p) /\ UserOf(p) = u =>
                  /\ request'[p].at = request[p].at /\ request'[p].event = request[p].event
                  /\ request'[p].of = request[p].of /\ ~request'[p].alone
  <2>1. request[p] \in Request
    BY <1>2
  <2>2. CASE p = r
    <3>1. request'[p] = IF q.event = Refresh(u) THEN Idle
                        ELSE [at |-> "mark", event |-> q.event]
      BY <1>1, <1>7, <2>2 DEF Committed
    <3> QED  BY <1>4, <2>2, <3>1 DEF Request
  <2>3. CASE p # r /\ ~(Syncing(p) /\ UserOf(p) = u)
    BY <1>7, <2>1, <2>3 DEF Committed, Syncing
  <2>4. CASE p # r /\ Syncing(p) /\ UserOf(p) = u
    <3>1. request'[p] = [request[p] EXCEPT !.alone = FALSE]
      BY <1>7, <2>4 DEF Committed, Syncing
    <3>2. CASE request[p].at = "read"
      <4>1. request[p] \in [at : {"read"}, event : Events, of : Nat, alone : BOOLEAN]
        BY <2>1, <3>2 DEF Request, Idle
      <4> HIDE DEF Events
      <4> QED  BY <2>4, <3>1, <4>1 DEF Request
    <3>3. CASE request[p].at = "write"
      <4>1. request[p] \in [at : {"write"}, event : Events, of : Nat, alone : BOOLEAN,
                            saw : SUBSET Entitlements]
        BY <2>1, <3>3 DEF Request, Idle
      <4> HIDE DEF Events
      <4> QED  BY <2>4, <3>1, <4>1 DEF Request
    <3> QED  BY <2>4, <3>2, <3>3 DEF Syncing
  <2> QED  BY <2>2, <2>3, <2>4
<1>9. ASSUME NEW v \in Users, NEW n \in Nat, Done(v, n)'
      PROVE  Done(v, n) \/ (v = u /\ n = q.event[2])
  <2>1. CASE Event(v, n) \in processed'
    BY <1>2, <2>1 DEF Done
  <2>2. ASSUME NEW p \in Requests, request'[p].at = "mark", request'[p].event = Event(v, n)
        PROVE  Done(v, n) \/ (v = u /\ n = q.event[2])
    <3>1. CASE p = r
      BY <1>4, <1>8, <2>2, <3>1 DEF Idle, Event
    <3>2. CASE p # r
      <4>1. ~Syncing(p)
        BY <1>8, <2>2, <3>2 DEF Syncing
      <4> QED  BY <1>8, <2>2, <3>2, <4>1 DEF Done
    <3> QED  BY <3>1, <3>2
  <2> QED  BY <1>9, <2>1, <2>2 DEF Done, Event
<1>10. ASSUME NEW v \in Users, NEW n \in Nat, Covers(v, n), v = u => q.event[2] <= n
       PROVE  \A m \in Nat : Done(v, m)' => m <= n
  BY <1>9, <1>10 DEF Covers
<1>11. /\ active'[u] = {e \in Entitlements :
             IF e \in early /\ (e \in Fetched(r)) = (e \in q.saw)
             THEN e \in active[u] ELSE e \in Fetched(r)}
       /\ \A v \in Users \ {u} : active'[v] = active[v] /\ record'[v] = record[v]
                                 /\ asOf'[v] = asOf[v] /\ (v \notin torn' <=> v \notin torn)
       /\ asOf'[u] = q.of /\ record'[u].isActive = Has(r)
       /\ u \notin torn' => q.alone
  BY <1>2, <1>6, <1>7 DEF StoreTypes
<1>12. StoreTypes'
  <2>1. request' \in [Requests -> Request]
    BY <1>7, <1>8 DEF Committed
  <2>2. active' \in [Users -> SUBSET Entitlements]
    BY <1>2, <1>6 DEF StoreTypes
  <2>3. record' \in [Users -> [status : Statuses, isActive : BOOLEAN]]
    BY <1>2, <1>7, WrittenRecord DEF StoreTypes
  <2>4. asOf' \in [Users -> Nat] /\ \A v \in Users : asOf'[v] <= Len(store[v])
    BY <1>2, <1>4, <1>5, <1>7 DEF StoreTypes
  <2> QED  BY <1>2, <2>1, <2>2, <2>3, <2>4 DEF StoreTypes, Event
<1>13. ASSUME NEW p \in Requests
       PROVE  SyncRight(p)'
  <2>1. SyncRight(p) /\ request[p] \in Request /\ request'[p] \in Request
    BY <1>8 DEF StoreInv, StoreSyncs, StoreTypes
  <2>2. CASE p = r
    <3>1. ~Syncing(p)'
      BY <1>8, <2>2 DEF Syncing, Idle
    <3>2. request'[p] # Idle => request'[p].event[2] <= Len(store'[UserOf(p)'])
      BY <1>2, <1>4, <1>5, <1>8, <2>2 DEF UserOf, StoreTypes
    <3> QED  BY <3>1, <3>2 DEF SyncRight, Syncing
  <2>3. CASE p # r /\ Syncing(p) /\ UserOf(p) = u
    <3>1. /\ request'[p].at = request[p].at /\ request'[p].event = request[p].event
          /\ request'[p].of = request[p].of /\ ~request'[p].alone
      BY <1>8, <2>3
    <3>2. request[p] # Idle /\ UserOf(p)' = u
      BY <2>3, <3>1 DEF Syncing, UserOf, Idle
    <3> QED  BY <1>2, <2>1, <2>3, <3>1, <3>2 DEF SyncRight, Syncing
  <2>4. CASE p # r /\ ~(Syncing(p) /\ UserOf(p) = u)
    <3>1. request'[p] = request[p]
      BY <1>8, <2>4
    <3>2. CASE request[p] = Idle
      BY <3>1, <3>2 DEF SyncRight, Syncing, Idle
    <3>3. CASE request[p] # Idle
      <4>1. PICK v \in Users : v = UserOf(p)
        BY <2>1, <3>3, RequestShape DEF UserOf
      <4>2. UserOf(p)' = v
        BY <3>1, <4>1 DEF UserOf
      <4>3. Syncing(p) => v # u /\ request[p].of \in Nat
        BY <2>1, <2>4, <4>1, RequestShape DEF Syncing
      <4>4. Syncing(p) /\ request[p].alone => Covers(v, request[p].of)'
        <5>1. SUFFICES ASSUME Syncing(p), request[p].alone
                       PROVE  \A m \in Nat : Done(v, m)' => m <= request[p].of
          BY <3>1 DEF Covers
        <5>2. Covers(v, request[p].of)
          BY <2>1, <4>1, <5>1 DEF SyncRight
        <5> QED  BY <1>10, <4>3, <5>1, <5>2
      <4>5. request[p].at = "write" => active'[v] = active[v]
        BY <1>11, <4>3 DEF Syncing
      <4>6. \A m : Done(UserOf(p), m)' <=> Done(v, m)'
        BY <4>2 DEF Done, Event
      <4> QED  BY <1>2, <2>1, <3>1, <4>1, <4>2, <4>4, <4>5, <4>6 DEF SyncRight, Syncing, Covers
    <3> QED  BY <3>2, <3>3
  <2> QED  BY <2>2, <2>3, <2>4
<1>14. ASSUME NEW v \in Users, v \notin torn'
       PROVE  AsWritten(v)'
  <2>1. CASE v # u
    <3>1. AsWritten(v) /\ asOf[v] \in Nat
      BY <1>2, <1>11, <1>14, <2>1 DEF StoreInv, StoreRows, StoreTypes
    <3>2. \A m \in Nat : Done(v, m)' => m <= asOf[v]
      BY <1>10, <2>1, <3>1 DEF AsWritten
    <3> QED  BY <1>2, <1>11, <2>1, <3>1, <3>2 DEF AsWritten, Covers
  <2>2. CASE v = u
    <3>1. q.alone
      BY <1>11, <1>14, <2>2
    <3>2. active[u] \subseteq Entitlements
      BY <1>2 DEF StoreTypes
    <3>3. Fetched(r) \subseteq Entitlements
      BY <1>1, <1>2, <1>3, <1>4, <1>5, StatesAssumption DEF Fetched, StoreTypes
    <3>4. active'[u] = Fetched(r)
      BY <1>5, <1>11, <3>1, <3>2, <3>3
    <3>5. \A m \in Nat : Done(u, m)' => m <= q.of
      BY <1>4, <1>5, <1>10, <3>1
    <3>6. q.of >= 1 => Fetched(r) = store[u][q.of].active
      BY <1>1, <1>3, <1>4 DEF Fetched
    <3>7. Has(r) => Fetched(r) # {}
      BY WrittenRecord
    <3> QED  BY <1>2, <1>11, <2>2, <3>4, <3>5, <3>6, <3>7 DEF AsWritten, Covers
  <2> QED  BY <2>1, <2>2
<1> QED  BY <1>12, <1>13, <1>14 DEF StoreInv, StoreSyncs, StoreRows

LEMMA StoreStays == StoreInv /\ UNCHANGED storeVars => StoreInv'
BY DEF storeVars, StoreInv, StoreTypes, StoreSyncs, SyncRight, Syncing, UserOf, StoreRows,
       AsWritten, Covers, Done, Event

LEMMA PaddleKeepsStore == PaddleNext => UNCHANGED storeVars
BY DEF PaddleNext, HookStep, FailHook, ReceiveHook, NoteHook, Dedup, Find, Save, ReadAll,
       Rebuild, MarkHook, pframe

LEMMA StoreStep == StoreInv /\ [Next]_vars => StoreInv'
<1> SUFFICES ASSUME StoreInv, [Next]_vars PROVE StoreInv'
  OBVIOUS
<1>1. CASE UNCHANGED vars
  BY <1>1, StoreStays DEF vars
<1>2. CASE PaddleNext
  BY <1>2, StoreStays, PaddleKeepsStore
<1>3. CASE StoreNext
  BY <1>3, ChangeStep, ReceiveStep, HandlerStep, WriteStep DEF StoreNext, RequestStep
<1> QED  BY <1>1, <1>2, <1>3 DEF Next

(* syncCustomerInternal and handlePaddleWebhook: what is marked processed  *)
(* was applied.  RevenueCat's rows are those of the event or of a later    *)
(* state of the customer, and not active without an entitlement, unless    *)
(* two syncs that overlapped wrote them; Paddle's entitlements were        *)
(* rebuilt.  For any number of handlers, events and failures.              *)
THEOREM ProcessedEventsAreApplied == Spec => []ProcessedIsApplied
<1>1. StoreInv /\ PaddleInv => ProcessedIsApplied
  <2> SUFFICES ASSUME StoreInv, Applied PROVE ProcessedIsApplied
    BY DEF PaddleInv
  <2>1. ASSUME NEW u \in Users, NEW n \in Started(u), Event(u, n) \in processed, u \notin torn
        PROVE  /\ asOf[u] >= n /\ active[u] = store[u][asOf[u]].active
               /\ record[u].isActive => active[u] # {}
    <3>1. AsWritten(u) /\ Done(u, n) /\ n \in Nat /\ n >= 1 /\ asOf[u] \in Nat
      BY <2>1, SubscriptionsAssumption DEF StoreInv, StoreRows, StoreTypes, Done, Started
    <3>2. n <= asOf[u]
      BY <3>1 DEF AsWritten, Covers
    <3> QED  BY <3>1, <3>2 DEF AsWritten
  <2> QED  BY <2>1 DEF ProcessedIsApplied, Applied
<1> QED  BY <1>1, StoreInitially, StoreStep, PaddleInitially, PaddleStep, PTL DEF Spec

-----------------------------------------------------------------------------
(* The account: the users row, its copies, and the tokens.                 *)

Numbers == Phones \cup {NoPhone}

UserRow ==
  [status : {"pending", "active", "suspended"}, terms : BOOLEAN, phone : Numbers,
   verified : BOOLEAN, two : BOOLEAN, wrong : Nat, shut : BOOLEAN]

NewRows ==
  [status : {"pending", "active"}, terms : BOOLEAN, phone : Numbers, verified : BOOLEAN]

MaybeRow == UserRow \cup {NoAccount}

(* The record of a request at each of its steps.                           *)
SigningUp == [at : {"signUp", "saveNew"}, errand : {"register"}, copy : MaybeRow,
              phone : Phones]
AtPassword == [at : {"password"}, errand : {"login"}, copy : MaybeRow, phone : {NoPhone}]
AtSync == [at : {"sync"}, errand : {"login"}, copy : MaybeRow, phone : Numbers]
AtFind == [at : {"find"}, errand : {"exchange"}, phone : Numbers, marked : BOOLEAN]
AtProfile == [at : {"profile"}, errand : {"exchange"}, copy : MaybeRow, phone : Numbers,
              marked : BOOLEAN]
Switching == [at : {"setup", "enable", "disable"}, errand : {"setup", "enable", "disable"},
              copy : UserRow, phone : {NoPhone}]
Claiming == [at : {"claim"}, errand : {"send", "verify"}, phone : Phones, copy : UserRow]
SavingSignIn == [at : {"save"}, errand : {"register", "login", "exchange"}, phone : Numbers,
                 copy : UserRow \cup NewRows, row : MaybeRow]
SavingPhone == [at : {"save"}, errand : {"send", "verify"}, phone : Phones, copy : UserRow,
                row : MaybeRow]
AtSecret == [at : {"authenticator"}, errand : {"login", "exchange"}, two : BOOLEAN]
Welcomed == [at : {"welcome"}, errand : {"login"}]
Issuing == [at : {"issue"}, errand : {"register", "login", "exchange"}]
Renewing == [at : {"block", "refresh", "issue"}, errand : {"refresh"}, token : Tokens]
Leaving == [at : {"block", "logout"}, errand : {"logout"}, token : Tokens]
Asking == [at : {"send", "sent", "verify"}, phone : Phones]

OfVisit(q) ==
  \/ q = Rest
  \/ q.at \in {"signUp", "saveNew"} /\ q \in SigningUp
  \/ q.at = "password" /\ q \in AtPassword
  \/ q.at = "sync" /\ q \in AtSync
  \/ q.at = "find" /\ q \in AtFind
  \/ q.at = "profile" /\ q \in AtProfile
  \/ q.at \in {"setup", "enable", "disable"} /\ q \in Switching
  \/ q.at = "claim" /\ q \in Claiming
  \/ q.at = "save" /\ q \in SavingSignIn \cup SavingPhone
  \/ q.at = "authenticator" /\ q \in AtSecret
  \/ q.at = "welcome" /\ q \in Welcomed
  \/ q.at = "issue" /\ q \in Issuing \cup Renewing
  \/ q.at \in {"block", "refresh"} /\ q \in Renewing
  \/ q.at \in {"block", "logout"} /\ q \in Leaving
  \/ q.at \in {"send", "sent", "verify"} /\ q \in Asking
  \/ /\ q.at \in {"check", "approve", "confirm"}
     /\ DOMAIN q = {"at", "phone", "index", "found"} /\ q.phone \in Phones

SupabaseUser == [known : BOOLEAN, phone : Numbers]

AccountTypes ==
  /\ metadata \in Numbers /\ supabase \in SupabaseUser
  /\ account \in MaybeRow
  /\ session \in [Tokens -> {"none", "live", "revoked"}]
  /\ clock \in Tokens
  /\ DOMAIN visit = Visits /\ \A v \in Visits : OfVisit(visit[v])
  /\ confirmed \subseteq Phones /\ borrowed \subseteq Phones /\ mixed \in BOOLEAN
  /\ issued \subseteq Tokens \X Tokens

(* A request that read the row, or went on from one it saved, has found    *)
(* the account.                                                            *)
Found(v) ==
  \/ visit[v].at \in {"password", "sync", "profile"} /\ visit[v].copy # NoAccount
  \/ visit[v].at \in {"setup", "enable", "disable", "claim", "authenticator", "welcome",
                      "send", "sent", "verify", "check", "approve", "confirm"}
  \/ visit[v].at = "save" /\ visit[v].row # NoAccount

(* A row, or a copy of it, is verified only if its number was confirmed,   *)
(* or a login marked it for another.                                       *)
Honest(r) == r.verified /\ ~mixed => r.phone \in confirmed \cup borrowed

CopyRight(v) ==
  /\ Found(v) => account # NoAccount
  /\ visit[v].at \in {"password", "sync", "profile", "claim"} /\ visit[v].copy # NoAccount =>
       Honest(visit[v].copy)
  /\ visit[v].at = "save" => Honest(visit[v].copy)
  /\ visit[v].at = "sync" /\ visit[v].phone # NoPhone => visit[v].phone \in confirmed
  /\ visit[v].at \in {"find", "profile"} /\ visit[v].marked => visit[v].phone \in confirmed
  /\ visit[v].at \in {"approve", "confirm"} => visit[v].phone \in confirmed

CopyConfirmed ==
  /\ supabase.phone # NoPhone => supabase.phone \in confirmed
  /\ account # NoAccount => Honest(account)
  /\ \A v \in Visits : CopyRight(v)

(* What a token was changed into, and who is changing it.                  *)
Renews(q) == q.at \in {"block", "refresh", "issue"} /\ q.errand = "refresh"

RefreshedInto(t) == {n \in Tokens : <<t, n>> \in issued}

TokenRight(t) ==
  /\ RefreshedInto(t) # {} => session[t] = "revoked"
  /\ \A v \in Refreshing(t) : visit[v].at = "issue" => session[t] = "revoked"
  /\ t \notin crossed =>
       /\ \A v, w \in Refreshing(t) : v = w
       /\ \A m, n \in RefreshedInto(t) : m = n
       /\ Refreshing(t) # {} => RefreshedInto(t) = {}

TokensOnce == \A t \in Tokens : TokenRight(t)

AccountInv == AccountTypes /\ CopyConfirmed /\ TokensOnce

LEMMA AccountInitially == AccountInit => AccountInv
<1> SUFFICES ASSUME AccountInit PROVE AccountInv
  OBVIOUS
<1>1. AccountTypes
  <2>1. 0 \in Tokens
    BY AccountsAssumption DEF Tokens
  <2>2. DOMAIN visit = Visits /\ \A v \in Visits : OfVisit(visit[v])
    BY DEF AccountInit, OfVisit
  <2>3. account \in MaybeRow /\ metadata \in Numbers
    BY DEF AccountInit, MaybeRow, Numbers
  <2>4. supabase \in SupabaseUser
    <3>1. PICK b \in BOOLEAN : supabase = [known |-> b, phone |-> NoPhone]
      BY Zenon DEF AccountInit
    <3> QED  BY <3>1 DEF SupabaseUser, Numbers
  <2> QED  BY <2>1, <2>2, <2>3, <2>4 DEF AccountInit, AccountTypes
<1>2. CopyConfirmed
  BY DEF AccountInit, CopyConfirmed, CopyRight, Found, Rest
<1>3. ASSUME NEW t \in Tokens PROVE TokenRight(t)
  <2>1. Refreshing(t) = {} /\ RefreshedInto(t) = {}
    BY DEF AccountInit, Refreshing, RefreshedInto, Rest
  <2> QED  BY <2>1 DEF TokenRight
<1> QED  BY <1>1, <1>2, <1>3 DEF AccountInv, TokensOnce

(* A step that issues no token and takes up none.                          *)
LEMMA TokensKept ==
  ASSUME TokensOnce, UNCHANGED <<issued, crossed>>,
         \A t \in Tokens : session[t] = "revoked" => session'[t] = "revoked",
         \A w \in Visits : Renews(visit'[w]) =>
           /\ Renews(visit[w]) /\ visit'[w].token = visit[w].token
           /\ visit'[w].at = "issue" =>
                visit[w].at = "issue" \/ session'[visit'[w].token] = "revoked"
  PROVE  TokensOnce'
<1> SUFFICES ASSUME NEW t \in Tokens PROVE TokenRight(t)'
  BY DEF TokensOnce
<1>1. TokenRight(t) /\ RefreshedInto(t)' = RefreshedInto(t) /\ (t \in crossed' <=> t \in crossed)
  BY DEF TokensOnce, RefreshedInto
<1>2. ASSUME NEW w \in Refreshing(t)'
      PROVE  w \in Refreshing(t) /\ (visit'[w].at = "issue" => session'[t] = "revoked")
  <2>1. w \in Visits /\ Renews(visit'[w]) /\ visit'[w].token = t
    BY <1>2 DEF Refreshing, Renews
  <2>2. w \in Refreshing(t)
    BY <2>1 DEF Refreshing, Renews
  <2> QED  BY <1>1, <2>1, <2>2 DEF TokenRight
<1> QED  BY <1>1, <1>2 DEF TokenRight

(* The rows are left alone, or a request's copy is as it must be.          *)
LEMMA CopiesKept ==
  ASSUME CopyConfirmed,
         account # NoAccount => account' # NoAccount,
         account' # NoAccount => Honest(account)',
         supabase'.phone # NoPhone => supabase'.phone \in confirmed',
         confirmed \subseteq confirmed', borrowed \subseteq borrowed', mixed => mixed',
         \A w \in Visits : visit'[w] = visit[w] \/ CopyRight(w)'
  PROVE  CopyConfirmed'
<1> SUFFICES ASSUME NEW w \in Visits, visit'[w] = visit[w]
             PROVE  CopyRight(w)'
  BY DEF CopyConfirmed
<1>1. CopyRight(w)
  BY DEF CopyConfirmed
<1> QED  BY <1>1 DEF CopyRight, Found, Honest

(* What Supabase has confirmed stays, and more numbers may be borrowed.    *)
SupabaseKept == supabase' = supabase \/ supabase' = [supabase EXCEPT !.known = TRUE]
BorrowedGrows ==
  borrowed' = borrowed \/ (borrowed \subseteq borrowed' /\ borrowed' \subseteq Phones)

LEMMA SupabaseStays ==
  ASSUME AccountInv, SupabaseKept, confirmed \subseteq confirmed'
  PROVE  /\ supabase' \in SupabaseUser
         /\ supabase'.phone # NoPhone => supabase'.phone \in confirmed'
<1>1. /\ supabase \in SupabaseUser
      /\ supabase.phone # NoPhone => supabase.phone \in confirmed
  BY DEF AccountInv, AccountTypes, CopyConfirmed
<1>2. supabase' \in SupabaseUser /\ supabase'.phone = supabase.phone
  BY <1>1 DEF SupabaseKept, SupabaseUser
<1> QED  BY <1>1, <1>2

(* A step that has nothing to do with tokens.                              *)
LEMMA RowStep ==
  ASSUME AccountInv, UNCHANGED <<metadata, session, clock, issued, crossed>>,
         DOMAIN visit' = Visits,
         \A w \in Visits :
           visit'[w] = visit[w] \/ (OfVisit(visit'[w]) /\ CopyRight(w)' /\ ~Renews(visit'[w])),
         account' \in MaybeRow,
         account # NoAccount => account' # NoAccount,
         account' # NoAccount => Honest(account)',
         supabase' \in SupabaseUser,
         supabase'.phone # NoPhone => supabase'.phone \in confirmed',
         confirmed \subseteq confirmed', confirmed' \subseteq Phones, BorrowedGrows,
         mixed' \in BOOLEAN, mixed => mixed'
  PROVE  AccountInv'
<1>0. borrowed \subseteq borrowed' /\ borrowed' \subseteq Phones
  BY DEF AccountInv, AccountTypes, BorrowedGrows
<1>1. AccountTypes'
  BY <1>0 DEF AccountInv, AccountTypes
<1>2. CopyConfirmed'
  BY <1>0, CopiesKept DEF AccountInv
<1>3. TokensOnce'
  <2>1. \A t \in Tokens : session[t] = "revoked" => session'[t] = "revoked"
    OBVIOUS
  <2>2. ASSUME NEW w \in Visits, Renews(visit'[w])
        PROVE  visit'[w] = visit[w]
    BY <2>2
  <2> QED  BY <2>1, <2>2, TokensKept DEF AccountInv
<1> QED  BY <1>1, <1>2, <1>3 DEF AccountInv

RowKept ==
  /\ UNCHANGED <<metadata, account, session, clock, confirmed, mixed, issued, crossed>>
  /\ SupabaseKept /\ BorrowedGrows

(* ... nor with the row.                                                   *)
LEMMA VisitStep ==
  ASSUME AccountInv, RowKept, NEW v \in Visits, NEW k, visit' = [visit EXCEPT ![v] = k],
         OfVisit(k), ~Renews(k), CopyRight(v)'
  PROVE  AccountInv'
<1>1. /\ DOMAIN visit = Visits /\ account \in MaybeRow /\ confirmed \subseteq Phones
      /\ mixed \in BOOLEAN /\ (account # NoAccount => Honest(account))
  BY DEF AccountInv, AccountTypes, CopyConfirmed
<1>2. DOMAIN visit' = Visits /\ visit'[v] = k /\ \A w \in Visits \ {v} : visit'[w] = visit[w]
  BY <1>1
<1>3. account' # NoAccount => Honest(account)'
  BY <1>1 DEF RowKept, BorrowedGrows, Honest
<1>4. /\ UNCHANGED <<metadata, session, clock, issued, crossed, account, confirmed, mixed>>
      /\ BorrowedGrows /\ supabase' \in SupabaseUser
      /\ supabase'.phone # NoPhone => supabase'.phone \in confirmed'
  BY SupabaseStays DEF RowKept
<1>5. \A w \in Visits :
        visit'[w] = visit[w] \/ (OfVisit(visit'[w]) /\ CopyRight(w)' /\ ~Renews(visit'[w]))
  BY <1>2
<1> QED  BY <1>1, <1>2, <1>3, <1>4, <1>5, RowStep

LEMMA AtRest == OfVisit(Rest) /\ ~Renews(Rest) /\ Rest.at = "rest"
BY DEF OfVisit, Renews, Rest

(* A request that is through, with the row as it has left it.              *)
LEMMA DepartStep ==
  ASSUME AccountInv, NEW v \in Visits, Depart(v), SupabaseKept,
         UNCHANGED <<metadata, session, clock, confirmed, borrowed, mixed, issued, crossed>>,
         \/ account' = account
         \/ /\ account' \in UserRow
            /\ Honest(account)'
  PROVE  AccountInv'
<1>1. /\ DOMAIN visit = Visits /\ account \in MaybeRow /\ confirmed \subseteq Phones
      /\ mixed \in BOOLEAN /\ (account # NoAccount => Honest(account))
  BY DEF AccountInv, AccountTypes, CopyConfirmed
<1>2. /\ DOMAIN visit' = Visits /\ visit'[v] = Rest
      /\ \A w \in Visits \ {v} : visit'[w] = visit[w]
  BY <1>1 DEF Depart
<1>3. CopyRight(v)'
  BY <1>2, AtRest DEF CopyRight, Found
<1>4. \A w \in Visits :
        visit'[w] = visit[w] \/ (OfVisit(visit'[w]) /\ CopyRight(w)' /\ ~Renews(visit'[w]))
  BY <1>2, <1>3, AtRest
<1>5. NoAccount \notin UserRow
  BY DEF NoAccount, UserRow
<1>6. /\ account' \in MaybeRow
      /\ account # NoAccount => account' # NoAccount
      /\ account' # NoAccount => Honest(account)'
  BY <1>1, <1>5 DEF MaybeRow, Honest
<1>7. /\ supabase' \in SupabaseUser /\ BorrowedGrows
      /\ supabase'.phone # NoPhone => supabase'.phone \in confirmed'
  BY SupabaseStays DEF BorrowedGrows
<1> QED  BY <1>1, <1>2, <1>4, <1>6, <1>7, RowStep

-----------------------------------------------------------------------------
(* The steps of the requests that read and save the row.                   *)

(* A request that has just read the row.                                   *)
LEMMA EnterStep ==
  ASSUME AccountInv, NEW v \in Visits, NEW errand, NEW step, NEW phone,
         Enter(v, errand, step, phone),
         OfVisit([at |-> step, errand |-> errand, copy |-> account, phone |-> phone]),
         \/ step \in {"signUp", "password"}
         \/ step \in {"setup", "enable", "disable"} /\ account # NoAccount
  PROVE  AccountInv'
<1>1. PICK k : k = [at |-> step, errand |-> errand, copy |-> account, phone |-> phone]
  OBVIOUS
<1>2. visit' = [visit EXCEPT ![v] = k] /\ RowKept /\ visit'[v] = k
  BY <1>1 DEF Enter, RowKept, SupabaseKept, BorrowedGrows, keptByRow, tokens, history,
              AccountInv, AccountTypes
<1>3. k.at = step /\ k.copy = account /\ OfVisit(k) /\ ~Renews(k)
  BY <1>1 DEF Renews
<1>4. account # NoAccount => Honest(account)
  BY DEF AccountInv, CopyConfirmed
<1>5. CopyRight(v)'
  <2>1. visit'[v].at = step /\ visit'[v].copy = account /\ account' = account
    BY <1>2, <1>3 DEF RowKept
  <2>2. step \notin {"approve", "confirm", "save", "claim", "sync", "find", "profile"}
    OBVIOUS
  <2>3. Found(v)' => account' # NoAccount
    BY <2>1, <2>2 DEF Found
  <2>4. account # NoAccount => Honest(visit[v].copy)'
    BY <1>2, <1>4, <2>1 DEF Honest, RowKept, BorrowedGrows
  <2> QED  BY <2>1, <2>2, <2>3, <2>4 DEF CopyRight
<1> QED  BY <1>2, <1>3, <1>5, VisitStep

LEMMA Reading ==
  ASSUME AccountInv, NEW v \in Visits,
         \/ AskToRegister(v) \/ Login(v) \/ SetupTwoFactor(v)
         \/ \E errand \in {"enable", "disable"} : SwitchTwoFactor(v, errand)
  PROVE  AccountInv'
<1>1. account \in MaybeRow /\ metadata \in Numbers
  BY DEF AccountInv, AccountTypes
<1>2. CASE AskToRegister(v)
  <2>1. OfVisit([at |-> "signUp", errand |-> "register", copy |-> account, phone |-> metadata])
    BY <1>1, <1>2 DEF AskToRegister, OfVisit, SigningUp, Numbers
  <2> QED  BY <1>2, <2>1, EnterStep DEF AskToRegister
<1>3. CASE Login(v)
  <2>1. OfVisit([at |-> "password", errand |-> "login", copy |-> account, phone |-> NoPhone])
    BY <1>1 DEF OfVisit, AtPassword
  <2> QED  BY <1>3, <2>1, EnterStep DEF Login
<1>4. ASSUME NEW step \in {"setup", "enable", "disable"}, account # NoAccount,
             Enter(v, step, step, NoPhone)
      PROVE  AccountInv'
  <2>1. OfVisit([at |-> step, errand |-> step, copy |-> account, phone |-> NoPhone])
    BY <1>1, <1>4 DEF OfVisit, Switching, MaybeRow
  <2> QED  BY <1>4, <2>1, EnterStep
<1> QED  BY <1>2, <1>3, <1>4 DEF SetupTwoFactor, SwitchTwoFactor

(* What Supabase says of the customer is taken along.                      *)
LEMMA ToldBySupabase ==
  ASSUME AccountInv, NEW v \in Visits, RightPassword(v) \/ Exchange(v) \/ FindUser(v)
  PROVE  AccountInv'
<1>1. PICK q : q = visit[v]
  OBVIOUS
<1>2. /\ OfVisit(q) /\ CopyRight(v) /\ account \in MaybeRow /\ DOMAIN visit = Visits
      /\ metadata \in Numbers /\ supabase \in SupabaseUser
      /\ supabase.phone # NoPhone => supabase.phone \in confirmed
      /\ (account # NoAccount => Honest(account))
  BY <1>1 DEF AccountInv, AccountTypes, CopyConfirmed
<1>3. RowKept /\ UNCHANGED <<supabase, borrowed>>
  BY DEF RightPassword, Exchange, FindUser, RowKept, SupabaseKept, BorrowedGrows, keptByRow,
         tokens, history
<1>4. supabase.phone \in Numbers
  BY <1>2 DEF SupabaseUser
<1>5. CASE RightPassword(v)
  <2>1. q \in AtPassword /\ q.at = "password"
    BY <1>1, <1>2, <1>5 DEF RightPassword, OnVisit, OfVisit, Rest
  <2>2. PICK k : k = [at |-> "sync", errand |-> q.errand, copy |-> q.copy,
                      phone |-> supabase.phone]
    OBVIOUS
  <2>3. visit' = [visit EXCEPT ![v] = k] /\ visit'[v] = k
    BY <1>1, <1>2, <1>5, <2>2 DEF RightPassword
  <2>4. k \in AtSync /\ k.at = "sync" /\ k.copy = q.copy /\ k.phone = supabase.phone
    BY <1>4, <2>1, <2>2 DEF AtPassword, AtSync
  <2>5. CopyRight(v)'
    <3>1. k.copy # NoAccount => account # NoAccount /\ Honest(k.copy)
      BY <1>1, <1>2, <2>1, <2>4 DEF CopyRight, Found
    <3> QED  BY <1>2, <1>3, <2>3, <2>4, <3>1 DEF CopyRight, Found, Honest, RowKept
  <2> QED  BY <1>3, <2>3, <2>4, <2>5, VisitStep DEF OfVisit, Renews
<1>6. CASE Exchange(v)
  <2>1. PICK given \in Numbers :
          /\ supabase.phone # NoPhone => given = supabase.phone
          /\ visit' = [visit EXCEPT ![v] =
               [at |-> "find", errand |-> "exchange", phone |-> given,
                marked |-> supabase.phone # NoPhone]]
    BY <1>2, <1>4, <1>6 DEF Exchange, Numbers
  <2>2. PICK k : k = [at |-> "find", errand |-> "exchange", phone |-> given,
                      marked |-> supabase.phone # NoPhone]
    OBVIOUS
  <2>3. visit' = [visit EXCEPT ![v] = k] /\ visit'[v] = k
    BY <1>2, <2>1, <2>2
  <2>4. k \in AtFind /\ k.at = "find"
    BY <2>2 DEF AtFind
  <2>5. k.marked => k.phone \in confirmed
    BY <1>2, <2>1, <2>2
  <2>6. CopyRight(v)'
    BY <1>3, <2>3, <2>4, <2>5 DEF CopyRight, Found, RowKept
  <2> QED  BY <1>3, <2>3, <2>4, <2>6, VisitStep DEF OfVisit, Renews
<1>7. CASE FindUser(v)
  <2>1. q \in AtFind /\ q.at = "find"
    BY <1>1, <1>2, <1>7 DEF FindUser, OnVisit, OfVisit, Rest
  <2>2. CASE Depart(v)
    BY <1>3, <2>2, DepartStep DEF RowKept
  <2>3. CASE ~(account # NoAccount /\ account.status = "suspended")
    <3>1. PICK k : k = [at |-> "profile", errand |-> q.errand, copy |-> account,
                        phone |-> q.phone, marked |-> q.marked]
      OBVIOUS
    <3>2. visit' = [visit EXCEPT ![v] = k] /\ visit'[v] = k
      BY <1>1, <1>2, <1>7, <2>3, <3>1 DEF FindUser
    <3>3. /\ k \in AtProfile /\ k.at = "profile" /\ k.copy = account
          /\ k.phone = q.phone /\ k.marked = q.marked
      BY <1>2, <2>1, <3>1 DEF AtFind, AtProfile
    <3>4. q.marked => q.phone \in confirmed
      BY <1>1, <1>2, <2>1 DEF CopyRight
    <3>5. CopyRight(v)'
      BY <1>2, <1>3, <3>2, <3>3, <3>4 DEF CopyRight, Found, Honest, RowKept
    <3> QED  BY <1>3, <3>2, <3>3, <3>5, VisitStep DEF OfVisit, Renews
  <2> QED  BY <1>7, <2>2, <2>3 DEF FindUser
<1> QED  BY <1>5, <1>6, <1>7

(* Supabase confirms a number.                                             *)
LEMMA SupabaseStep ==
  ASSUME AccountInv, NEW phone \in Phones, ConfirmAtSupabase(phone)
  PROVE  AccountInv'
<1>1. /\ account \in MaybeRow /\ DOMAIN visit = Visits /\ confirmed \subseteq Phones
      /\ supabase \in SupabaseUser /\ mixed \in BOOLEAN
      /\ (account # NoAccount => Honest(account))
  BY DEF AccountInv, AccountTypes, CopyConfirmed
<1>2. /\ UNCHANGED <<metadata, account, session, clock, visit, borrowed, mixed, issued, crossed>>
      /\ supabase' = [supabase EXCEPT !.phone = phone] /\ confirmed' = confirmed \cup {phone}
  BY DEF ConfirmAtSupabase, tokens
<1>3. supabase' \in SupabaseUser /\ supabase'.phone \in confirmed'
  BY <1>1, <1>2 DEF SupabaseUser, Numbers
<1>4. account' # NoAccount => Honest(account)'
  BY <1>1, <1>2 DEF Honest
<1> QED  BY <1>1, <1>2, <1>3, <1>4, RowStep DEF BorrowedGrows

(* A request that compares what it is to save with the row.                *)
LEMMA CompareStep ==
  ASSUME AccountInv, NEW v \in Visits, NEW r, Compare(v, r), BorrowedGrows,
         UNCHANGED <<metadata, supabase, account, session, clock, confirmed, mixed, issued,
                     crossed>>,
         r.verified /\ ~mixed => r.phone \in confirmed \cup borrowed',
         \/ /\ visit[v].errand \in {"register", "login", "exchange"}
            /\ visit[v].phone \in Numbers /\ r \in UserRow \cup NewRows
         \/ /\ visit[v].errand \in {"send", "verify"}
            /\ visit[v].phone \in Phones /\ r \in UserRow
  PROVE  AccountInv'
<1>1. PICK k : k = [at |-> "save", errand |-> visit[v].errand, phone |-> visit[v].phone,
                    copy |-> r, row |-> account]
  OBVIOUS
<1>2. visit' = [visit EXCEPT ![v] = k] /\ RowKept /\ visit'[v] = k
  BY <1>1 DEF Compare, RowKept, SupabaseKept, AccountInv, AccountTypes
<1>3. k.at = "save" /\ k.copy = r /\ k.row = account /\ ~Renews(k)
  BY <1>1 DEF Renews
<1>4. OfVisit(k)
  <2>1. account \in MaybeRow
    BY DEF AccountInv, AccountTypes
  <2> QED  BY <1>1, <1>3, <2>1 DEF OfVisit, SavingSignIn, SavingPhone
<1>5. CopyRight(v)'
  BY <1>2, <1>3 DEF CopyRight, Found, Honest, RowKept
<1> QED  BY <1>2, <1>3, <1>4, <1>5, VisitStep

LEMMA NewRowType ==
  ASSUME NEW phone \in Numbers, NEW verified \in BOOLEAN, NEW terms \in BOOLEAN,
         NEW status \in {"pending", "active"}
  PROVE  /\ NewRow(phone, verified, terms, status) \in NewRows
         /\ NewRow(phone, verified, terms, status).phone = phone
         /\ NewRow(phone, verified, terms, status).verified = verified
BY DEF NewRow, NewRows

(* What a sign-in makes of the row it has, and which number it borrows the *)
(* mark for: the number is taken over only if there was none, and such a   *)
(* row is not verified.                                                    *)
LEMMA SyncedRow ==
  ASSUME AccountInv, NEW copy \in MaybeRow, NEW given \in Numbers, NEW terms \in BOOLEAN,
         NEW names \in BOOLEAN, copy # NoAccount => Honest(copy),
         given # NoPhone => given \in confirmed
  PROVE  /\ Synced(copy, given, terms, names) \in UserRow \cup NewRows
         /\ Synced(copy, given, terms, names).verified /\ ~mixed =>
              \/ Synced(copy, given, terms, names).phone \in confirmed \cup borrowed
              \/ /\ Borrows(copy, given)
                 /\ Synced(copy, given, terms, names).phone = copy.phone
<1> DEFINE r == Synced(copy, given, terms, names)
<1>1. /\ metadata \in Numbers /\ confirmed \cup borrowed \subseteq Phones
      /\ NoPhone \notin Phones
  BY AccountsAssumption DEF AccountInv, AccountTypes
<1>2. PICK number \in Numbers : number = IF given = NoPhone THEN metadata ELSE given
  BY <1>1
<1>3. CASE copy = NoAccount
  <2>1. PICK verified \in BOOLEAN : verified = (given # NoPhone)
    OBVIOUS
  <2>2. PICK status \in {"pending", "active"} :
          r = NewRow(number, verified, terms, status)
    BY <1>2, <1>3, <2>1 DEF Synced
  <2>3. r \in NewRows /\ r.phone = number /\ r.verified = verified
    BY <2>2, NewRowType
  <2>4. verified => given \in confirmed /\ number = given
    BY <1>2, <2>1
  <2> HIDE DEF r
  <2>5. r.verified => r.phone \in confirmed
    BY <2>3, <2>4
  <2> QED  BY <2>3, <2>5 DEF r
<1>4. CASE copy # NoAccount
  <2>1. copy \in UserRow /\ Honest(copy)
    BY <1>4 DEF MaybeRow
  <2>2. r = [copy EXCEPT !.phone = IF copy.phone = NoPhone THEN number ELSE copy.phone,
                         !.verified = copy.verified \/ given # NoPhone,
                         !.terms = terms \/ copy.terms,
                         !.status = IF (terms \/ copy.terms) /\ names THEN "active"
                                    ELSE copy.status]
    BY <1>2, <1>4 DEF Synced
  <2>3. r \in UserRow
    BY <1>2, <2>1, <2>2 DEF UserRow
  <2>4. /\ r.verified <=> copy.verified \/ given # NoPhone
        /\ r.phone = IF copy.phone = NoPhone THEN number ELSE copy.phone
    BY <2>1, <2>2 DEF UserRow
  <2>5. CASE copy.verified
    BY <1>1, <2>1, <2>3, <2>4, <2>5 DEF Honest
  <2>6. CASE ~copy.verified
    BY <1>2, <1>4, <2>3, <2>4, <2>6 DEF Borrows
  <2> QED  BY <2>5, <2>6
<1> QED  BY <1>3, <1>4

(* ... and an exchange of a session: another number is to be verified,     *)
(* unless Supabase has confirmed it.                                       *)
LEMMA ProfiledRow ==
  ASSUME AccountInv, NEW copy \in MaybeRow, NEW given \in Numbers, NEW marked \in BOOLEAN,
         NEW terms \in BOOLEAN, NEW names \in BOOLEAN, copy # NoAccount => Honest(copy),
         marked => given \in confirmed
  PROVE  /\ Profiled(copy, given, marked, terms, names) \in UserRow \cup NewRows
         /\ Honest(Profiled(copy, given, marked, terms, names))
<1> DEFINE r == Profiled(copy, given, marked, terms, names)
<1>1. confirmed \cup borrowed \subseteq Phones /\ NoPhone \notin Phones
  BY AccountsAssumption DEF AccountInv, AccountTypes
<1>2. CASE copy = NoAccount
  <2>1. PICK status \in {"pending", "active"} : r = NewRow(given, marked, terms, status)
    BY <1>2 DEF Profiled
  <2> QED  BY <2>1, NewRowType DEF Honest
<1>3. CASE copy # NoAccount
  <2>1. copy \in UserRow /\ Honest(copy)
    BY <1>3 DEF MaybeRow
  <2>2. r = [copy EXCEPT !.phone = IF given = NoPhone THEN copy.phone ELSE given,
                         !.verified = \/ marked
                                      \/ /\ copy.verified
                                         /\ \/ given = NoPhone
                                            \/ copy.phone \in {NoPhone, given},
                         !.terms = terms \/ copy.terms,
                         !.status = IF (terms \/ copy.terms) /\ names THEN "active"
                                    ELSE copy.status]
    BY <1>3 DEF Profiled
  <2>3. r \in UserRow
    BY <1>1, <2>1, <2>2 DEF UserRow
  <2>4. /\ r.verified =>
             \/ marked
             \/ copy.verified /\ (given = NoPhone \/ copy.phone \in {NoPhone, given})
        /\ r.phone = IF given = NoPhone THEN copy.phone ELSE given
    BY <2>1, <2>2 DEF UserRow
  <2> QED  BY <1>1, <2>1, <2>3, <2>4 DEF Honest
<1> QED  BY <1>2, <1>3

(* The saves.                                                              *)
LEMMA Savers ==
  ASSUME AccountInv, NEW v \in Visits,
         SaveNew(v) \/ Sync(v) \/ SaveProfile(v) \/ Claim(v)
  PROVE  AccountInv'
<1>1. /\ metadata \in Numbers /\ OfVisit(visit[v]) /\ CopyRight(v)
      /\ borrowed \subseteq Phones
  BY DEF AccountInv, AccountTypes, CopyConfirmed
<1>2. Phones \subseteq Numbers
  BY DEF Numbers
<1>3. CASE SaveNew(v)
  <2>1. visit[v] \in SigningUp
    BY <1>1, <1>3 DEF SaveNew, OnVisit, OfVisit, Rest
  <2>2. visit[v].errand = "register" /\ visit[v].phone \in Numbers
    BY <1>2, <2>1 DEF SigningUp
  <2>3. PICK r : r = NewRow(metadata, FALSE, TRUE, "pending")
    OBVIOUS
  <2>4. r \in NewRows /\ ~r.verified
    BY <1>1, <2>3, NewRowType
  <2>5. /\ Compare(v, r) /\ BorrowedGrows
        /\ UNCHANGED <<metadata, supabase, account, session, clock, confirmed, mixed, issued,
                       crossed>>
    BY <1>3, <2>3 DEF SaveNew, BorrowedGrows, keptByRow, tokens, history
  <2> QED  BY <2>2, <2>4, <2>5, CompareStep
<1>4. CASE Sync(v)
  <2>1. visit[v] \in AtSync /\ visit[v].at = "sync"
    BY <1>1, <1>4 DEF Sync, OnVisit, OfVisit, Rest
  <2>2. PICK copy \in MaybeRow, given \in Numbers :
          copy = visit[v].copy /\ given = visit[v].phone
    BY <2>1 DEF AtSync
  <2>3. visit[v].errand = "login"
    BY <2>1 DEF AtSync
  <2>4. /\ copy # NoAccount => Honest(copy)
        /\ given # NoPhone => given \in confirmed
    BY <1>1, <2>1, <2>2 DEF CopyRight
  <2>5. PICK terms \in BOOLEAN, names \in BOOLEAN :
          Compare(v, Synced(copy, given, terms, names))
    BY <1>4, <2>2 DEF Sync
  <2>6. PICK r : r = Synced(copy, given, terms, names)
    OBVIOUS
  <2>7. borrowed' = borrowed \cup (IF Borrows(copy, given) THEN {copy.phone} ELSE {})
    BY <1>4, <2>2 DEF Sync
  <2>8. Borrows(copy, given) => copy.phone \in Phones
    BY DEF Borrows, MaybeRow, UserRow, Numbers
  <2>9. BorrowedGrows
    BY <1>1, <2>7, <2>8 DEF BorrowedGrows
  <2>10. /\ r \in UserRow \cup NewRows
         /\ r.verified /\ ~mixed => r.phone \in confirmed \cup borrowed'
    BY <2>4, <2>6, <2>7, SyncedRow
  <2>11. UNCHANGED <<metadata, supabase, account, session, clock, confirmed, mixed, issued,
                     crossed>>
    BY <1>4 DEF Sync, tokens
  <2>12. Compare(v, r) /\ visit[v].phone \in Numbers
    BY <2>2, <2>5, <2>6
  <2> QED  BY <2>3, <2>9, <2>10, <2>11, <2>12, CompareStep
<1>5. CASE SaveProfile(v)
  <2>1. visit[v] \in AtProfile /\ visit[v].at = "profile"
    BY <1>1, <1>5 DEF SaveProfile, OnVisit, OfVisit, Rest
  <2>2. PICK copy \in MaybeRow, given \in Numbers, marked \in BOOLEAN :
          copy = visit[v].copy /\ given = visit[v].phone /\ marked = visit[v].marked
    BY <2>1 DEF AtProfile
  <2>3. visit[v].errand = "exchange"
    BY <2>1 DEF AtProfile
  <2>4. /\ copy # NoAccount => Honest(copy)
        /\ marked => given \in confirmed
    BY <1>1, <2>1, <2>2 DEF CopyRight
  <2>5. PICK terms \in BOOLEAN, names \in BOOLEAN :
          Compare(v, Profiled(copy, given, marked, terms, names))
    BY <1>5, <2>2 DEF SaveProfile
  <2>6. PICK r : r = Profiled(copy, given, marked, terms, names)
    OBVIOUS
  <2>7. r \in UserRow \cup NewRows /\ Honest(r)
    BY <2>4, <2>6, ProfiledRow
  <2>8. /\ BorrowedGrows /\ UNCHANGED borrowed
        /\ UNCHANGED <<metadata, supabase, account, session, clock, confirmed, mixed, issued,
                       crossed>>
    BY <1>5 DEF SaveProfile, BorrowedGrows, keptByRow, tokens, history
  <2>9. Compare(v, r) /\ visit[v].phone \in Numbers
    BY <2>2, <2>5, <2>6
  <2> QED  BY <2>3, <2>7, <2>8, <2>9, CompareStep DEF Honest
<1>6. CASE Claim(v)
  <2>1. visit[v] \in Claiming
    BY <1>1, <1>6 DEF Claim, OnVisit, OfVisit, Rest
  <2>2. /\ visit[v].errand \in {"send", "verify"} /\ visit[v].phone \in Phones
        /\ visit[v].copy \in UserRow
    BY <2>1 DEF Claiming
  <2> DEFINE r == [visit[v].copy EXCEPT !.phone = visit[v].phone, !.verified = FALSE]
  <2>3. r \in UserRow /\ ~r.verified
    BY <1>2, <2>2 DEF UserRow
  <2>4. /\ BorrowedGrows
        /\ UNCHANGED <<metadata, supabase, account, session, clock, confirmed, mixed, issued,
                       crossed>>
    BY <1>6 DEF Claim, BorrowedGrows, keptByRow, tokens, history
  <2>5. Compare(v, r)
    BY <1>6 DEF Claim
  <2> HIDE DEF r
  <2> QED  BY <2>2, <2>3, <2>4, <2>5, CompareStep
<1> QED  BY <1>3, <1>4, <1>5, <1>6

(* What a row is inserted as, and what of it is written over another.      *)
LEMMA CompletedRow ==
  ASSUME NEW r \in UserRow \cup NewRows
  PROVE  /\ Completed(r) \in UserRow
         /\ Completed(r).phone = r.phone /\ Completed(r).verified = r.verified
<1>1. DOMAIN Fresh = {"status", "terms", "phone", "verified", "two", "wrong", "shut"}
  BY DEF Fresh
<1>2. CASE r \in UserRow
  <2>1. DOMAIN r = DOMAIN Fresh
    BY <1>1, <1>2 DEF UserRow
  <2>2. Completed(r) = r
    BY <1>2, <2>1 DEF Completed, UserRow
  <2> QED  BY <1>2, <2>2
<1>3. CASE r \in NewRows
  <2>1. DOMAIN r = {"status", "terms", "phone", "verified"}
    BY <1>3 DEF NewRows
  <2> DEFINE w == Completed(r)
  <2>2. w = [status |-> w.status, terms |-> w.terms, phone |-> w.phone,
             verified |-> w.verified, two |-> w.two, wrong |-> w.wrong, shut |-> w.shut]
    BY <1>1 DEF Completed
  <2>3. /\ w.status = r.status /\ w.terms = r.terms /\ w.phone = r.phone
        /\ w.verified = r.verified
    BY <1>1, <2>1 DEF Completed
  <2>4. w.two = FALSE /\ w.wrong = 0 /\ w.shut = FALSE
    BY <1>1, <2>1 DEF Completed, Fresh
  <2>5. /\ r.status \in {"pending", "active", "suspended"} /\ r.terms \in BOOLEAN
        /\ r.phone \in Numbers /\ r.verified \in BOOLEAN
    BY <1>3 DEF NewRows
  <2> HIDE DEF w
  <2>6. w.two \in BOOLEAN /\ w.wrong \in Nat /\ w.shut \in BOOLEAN
    <3>1. w.two \in BOOLEAN /\ w.shut \in BOOLEAN
      BY <2>4, Zenon
    <3> QED  BY <2>4, <3>1
  <2>7. /\ w.status \in {"pending", "active", "suspended"} /\ w.terms \in BOOLEAN
        /\ w.phone \in Numbers /\ w.verified \in BOOLEAN
    BY <2>3, <2>5
  <2>8. w \in UserRow
    BY <2>2, <2>6, <2>7 DEF UserRow
  <2> QED  BY <2>3, <2>8 DEF w
<1> QED  BY <1>2, <1>3

Written(r, row, now) ==
  [c \in DOMAIN Fresh |-> IF c \in DOMAIN r THEN IF r[c] # row[c] THEN r[c] ELSE now[c]
                          ELSE now[c]]

LEMMA WrittenRow ==
  ASSUME NEW r \in UserRow \cup NewRows, NEW row, NEW now \in UserRow
  PROVE  Written(r, row, now) \in UserRow
<1> DEFINE w == Written(r, row, now)
<1>1. DOMAIN Fresh = {"status", "terms", "phone", "verified", "two", "wrong", "shut"}
  BY DEF Fresh
<1>2. \A c \in DOMAIN Fresh : w[c] = now[c] \/ (c \in DOMAIN r /\ w[c] = r[c])
  BY DEF Written
<1>3. \/ DOMAIN r = DOMAIN Fresh
      \/ DOMAIN r = {"status", "terms", "phone", "verified"}
  BY <1>1 DEF UserRow, NewRows
<1>4. /\ w.status \in {"pending", "active", "suspended"} /\ w.terms \in BOOLEAN
      /\ w.phone \in Numbers /\ w.verified \in BOOLEAN
  <2>1. CASE r \in UserRow
    BY <1>1, <1>2, <2>1 DEF UserRow
  <2>2. CASE r \in NewRows
    BY <1>1, <1>2, <2>2 DEF UserRow, NewRows
  <2> QED  BY <2>1, <2>2
<1>5. w.two \in BOOLEAN /\ w.wrong \in Nat /\ w.shut \in BOOLEAN
  <2>1. CASE r \in UserRow
    BY <1>1, <1>2, <2>1 DEF UserRow
  <2>2. CASE r \in NewRows
    <3>1. DOMAIN r = {"status", "terms", "phone", "verified"}
      BY <2>2 DEF NewRows
    <3> QED  BY <1>1, <1>2, <3>1 DEF UserRow
  <2> QED  BY <2>1, <2>2
<1>6. w = [status |-> w.status, terms |-> w.terms, phone |-> w.phone, verified |-> w.verified,
           two |-> w.two, wrong |-> w.wrong, shut |-> w.shut]
  BY <1>1 DEF Written
<1> HIDE DEF w
<1>7. w \in UserRow
  BY <1>4, <1>5, <1>6 DEF UserRow
<1> QED  BY <1>7 DEF w

(* What a request that has saved the row goes on with.                     *)
LEMMA ResumedVisit ==
  ASSUME NEW v \in Visits, OfVisit(visit[v]), visit[v].at = "save", NEW r \in UserRow
  PROVE  /\ OfVisit(Resumed(v, r)) /\ ~Renews(Resumed(v, r))
         /\ Resumed(v, r).at \in {"issue", "authenticator", "send", "verify"}
<1>1. PICK q : q = visit[v]
  OBVIOUS
<1>2. q \in SavingSignIn \cup SavingPhone
  BY <1>1 DEF OfVisit, Rest
<1>3. CASE q.errand = "register"
  <2>1. Resumed(v, r) = [at |-> "issue", errand |-> q.errand]
    BY <1>1, <1>3 DEF Resumed
  <2> QED  BY <1>3, <2>1 DEF OfVisit, Issuing, Renews
<1>4. CASE q.errand \in {"login", "exchange"}
  <2>1. Resumed(v, r) = [at |-> "authenticator", errand |-> q.errand, two |-> r.two]
    BY <1>1, <1>4 DEF Resumed
  <2>2. r.two \in BOOLEAN
    BY DEF UserRow
  <2> QED  BY <1>4, <2>1, <2>2 DEF OfVisit, AtSecret, Renews
<1>5. CASE q.errand \in {"send", "verify"}
  <2>1. q.phone \in Phones
    BY <1>2, <1>5 DEF SavingSignIn, SavingPhone
  <2>2. Resumed(v, r) = [at |-> q.errand, phone |-> q.phone]
    BY <1>1, <1>5 DEF Resumed
  <2> QED  BY <1>5, <2>1, <2>2 DEF OfVisit, Asking, Renews
<1>6. q.errand \in {"register", "login", "exchange", "send", "verify"}
  BY <1>2 DEF SavingSignIn, SavingPhone
<1> QED  BY <1>3, <1>4, <1>5, <1>6

(* A request that changes the row and goes on.                             *)
LEMMA GoOnStep ==
  ASSUME AccountInv, NEW v \in Visits, NEW k, visit' = [visit EXCEPT ![v] = k],
         UNCHANGED <<metadata, supabase, session, clock, confirmed, borrowed, issued, crossed>>,
         account' \in UserRow, Honest(account)', mixed' \in BOOLEAN, mixed => mixed',
         OfVisit(k), ~Renews(k), k.at \in {"issue", "authenticator", "send", "verify"}
  PROVE  AccountInv'
<1>1. DOMAIN visit = Visits /\ account \in MaybeRow /\ confirmed \subseteq Phones
  BY DEF AccountInv, AccountTypes
<1>2. /\ DOMAIN visit' = Visits /\ visit'[v] = k
      /\ \A w \in Visits \ {v} : visit'[w] = visit[w]
  BY <1>1
<1>3. NoAccount \notin UserRow
  BY DEF NoAccount, UserRow
<1>4. CopyRight(v)'
  BY <1>2, <1>3 DEF CopyRight, Found
<1>5. \A w \in Visits :
        visit'[w] = visit[w] \/ (OfVisit(visit'[w]) /\ CopyRight(w)' /\ ~Renews(visit'[w]))
  BY <1>2, <1>4
<1>6. account' \in MaybeRow /\ account' # NoAccount
  BY <1>3 DEF MaybeRow
<1>7. /\ supabase' \in SupabaseUser /\ BorrowedGrows
      /\ supabase'.phone # NoPhone => supabase'.phone \in confirmed'
  BY SupabaseStays DEF SupabaseKept, BorrowedGrows
<1> QED  BY <1>1, <1>2, <1>5, <1>6, <1>7, RowStep

LEMMA InsertStep ==
  ASSUME AccountInv, NEW v \in Visits, Insert(v)
  PROVE  AccountInv'
<1> DEFINE r == Completed(visit[v].copy)
<1>1. visit[v].at = "save" /\ OfVisit(visit[v]) /\ CopyRight(v)
  BY DEF Insert, OnVisit, AccountInv, AccountTypes, CopyConfirmed
<1>2. visit[v].copy \in UserRow \cup NewRows
  <2>1. visit[v] \in SavingSignIn \cup SavingPhone
    BY <1>1 DEF OfVisit, Rest
  <2> QED  BY <2>1 DEF SavingSignIn, SavingPhone
<1>3. r \in UserRow /\ Honest(r)
  BY <1>1, <1>2, CompletedRow DEF CopyRight, Honest
<1>4. UNCHANGED <<metadata, supabase, session, clock, confirmed, borrowed, mixed, issued, crossed>>
  BY DEF Insert, keptByRow, tokens, history
<1> DEFINE k == Resumed(v, r)
<1>5. OfVisit(k) /\ ~Renews(k) /\ k.at \in {"issue", "authenticator", "send", "verify"}
  BY <1>1, <1>3, ResumedVisit
<1> HIDE DEF r, k
<1>6. CASE account = NoAccount
  <2>1. account' = r /\ visit' = [visit EXCEPT ![v] = k]
    BY <1>6 DEF Insert, r, k
  <2>2. Honest(account)'
    BY <1>3, <1>4, <2>1 DEF Honest
  <2>3. mixed' \in BOOLEAN /\ (mixed => mixed')
    BY <1>4 DEF AccountInv, AccountTypes
  <2> QED  BY <1>3, <1>4, <1>5, <2>1, <2>2, <2>3, GoOnStep
<1>7. CASE account # NoAccount
  <2>1. UNCHANGED account /\ Depart(v)
    BY <1>7 DEF Insert
  <2> QED  BY <1>4, <2>1, DepartStep DEF SupabaseKept
<1> QED  BY <1>6, <1>7

(* A save writes the columns that differ; with the number of one copy and  *)
(* the mark of another the row is mixed.                                   *)
LEMMA UpdateStep ==
  ASSUME AccountInv, NEW v \in Visits, Update(v)
  PROVE  AccountInv'
<1> DEFINE r == visit[v].copy
           row == visit[v].row
<1>1. visit[v].at = "save" /\ OfVisit(visit[v]) /\ CopyRight(v) /\ row # NoAccount
  BY DEF Update, OnVisit, AccountInv, AccountTypes, CopyConfirmed
<1>2. r \in UserRow \cup NewRows
  <2>1. visit[v] \in SavingSignIn \cup SavingPhone
    BY <1>1 DEF OfVisit, Rest
  <2> QED  BY <2>1 DEF SavingSignIn, SavingPhone
<1>3. account \in UserRow /\ Honest(account) /\ Honest(r)
  BY <1>1 DEF CopyRight, Found, AccountInv, AccountTypes, CopyConfirmed, MaybeRow
<1>4. PICK w \in UserRow : w = Written(r, row, account)
  BY <1>2, <1>3, WrittenRow
<1>5. /\ account' = w
      /\ mixed' = (mixed \/ NumberOf(w) \notin {NumberOf(r), NumberOf(account)})
      /\ visit' = [visit EXCEPT ![v] = Resumed(v, Completed(r))]
      /\ UNCHANGED <<metadata, supabase, session, clock, confirmed, borrowed, issued, crossed>>
  BY <1>4 DEF Update, tokens, Written
<1>6. /\ OfVisit(Resumed(v, Completed(r))) /\ ~Renews(Resumed(v, Completed(r)))
      /\ Resumed(v, Completed(r)).at \in {"issue", "authenticator", "send", "verify"}
  BY <1>1, <1>2, CompletedRow, ResumedVisit
<1> HIDE DEF r, row
<1>7. mixed' \in BOOLEAN /\ (mixed => mixed')
  BY <1>5 DEF AccountInv, AccountTypes
<1>8. Honest(w)'
  <2>1. SUFFICES ASSUME w.verified, ~mixed'
                 PROVE  w.phone \in confirmed \cup borrowed
    BY <1>5 DEF Honest
  <2>2. ~mixed /\ NumberOf(w) \in {NumberOf(r), NumberOf(account)}
    BY <1>5, <2>1
  <2> QED  BY <1>3, <2>1, <2>2 DEF Honest, NumberOf
<1>9. Honest(account)'
  BY <1>5, <1>8 DEF Honest
<1> QED  BY <1>4, <1>5, <1>6, <1>7, <1>9, GoOnStep

-----------------------------------------------------------------------------
(* The other steps of the requests about the row.                          *)

LEMMA OtherColumns ==
  ASSUME AccountInv, account # NoAccount, UNCHANGED <<confirmed, borrowed, mixed>>,
         account'.phone = account.phone, account'.verified = account.verified
  PROVE  Honest(account)'
BY DEF AccountInv, CopyConfirmed, Honest

(* A request that goes on, and leaves the row alone.                       *)
LEMMA OnwardStep ==
  ASSUME AccountInv, RowKept, NEW v \in Visits, NEW k, visit' = [visit EXCEPT ![v] = k],
         OfVisit(k), ~Renews(k),
         k.at \in {"saveNew", "issue"} \/ account # NoAccount,
         k.at \notin {"save", "password", "sync", "find", "profile", "claim", "approve", "confirm"}
  PROVE  AccountInv'
<1>1. visit'[v] = k
  BY DEF AccountInv, AccountTypes
<1>2. CopyRight(v)'
  BY <1>1 DEF CopyRight, Found, RowKept
<1> QED  BY <1>2, VisitStep

LEMMA SignInStep ==
  ASSUME AccountInv, NEW v \in Visits,
         \/ SignUp(v) \/ WrongPassword(v) \/ RightNumbers(v) \/ Refused(v) \/ Welcome(v)
  PROVE  AccountInv'
<1>1. PICK q : q = visit[v]
  OBVIOUS
<1>2. /\ OfVisit(q) /\ CopyRight(v) /\ account \in MaybeRow /\ DOMAIN visit = Visits
  BY <1>1 DEF AccountInv, AccountTypes, CopyConfirmed
<1>3. CASE SignUp(v)
  <2>1. q \in SigningUp
    BY <1>1, <1>2, <1>3 DEF SignUp, OnVisit, OfVisit, Rest
  <2>2. RowKept
    BY <1>3 DEF SignUp, RowKept, SupabaseKept, BorrowedGrows, tokens, history
  <2>3. CASE Depart(v)
    BY <1>3, <2>2, <2>3, DepartStep DEF RowKept, SignUp, history
  <2>4. CASE Go(v, "saveNew")
    <3>1. visit' = [visit EXCEPT ![v] = [q EXCEPT !.at = "saveNew"]]
      BY <1>1, <2>4 DEF Go
    <3>2. PICK k : k = [q EXCEPT !.at = "saveNew"]
      OBVIOUS
    <3>3. k \in SigningUp /\ k.at = "saveNew"
      BY <2>1, <3>2 DEF SigningUp
    <3> QED  BY <2>2, <3>1, <3>2, <3>3, OnwardStep DEF OfVisit, Renews
  <2> QED  BY <1>3, <2>3, <2>4 DEF SignUp
<1>4. CASE WrongPassword(v)
  <2>1. /\ Depart(v) /\ q.at = "password"
        /\ UNCHANGED <<metadata, session, clock, confirmed, borrowed, mixed, issued, crossed>>
        /\ SupabaseKept
    BY <1>1, <1>4 DEF WrongPassword, OnVisit, SupabaseKept, keptByRow, tokens, history
  <2>2. CASE q.copy = NoAccount
    BY <1>1, <1>4, <2>1, <2>2, DepartStep DEF WrongPassword
  <2>3. CASE q.copy # NoAccount
    <3>1. account # NoAccount /\ account \in UserRow
      BY <1>1, <1>2, <2>1, <2>3 DEF CopyRight, Found, MaybeRow
    <3>2. q \in AtPassword
      BY <1>2, <2>1 DEF OfVisit, Rest
    <3>3. q.copy \in UserRow
      BY <2>3, <3>2 DEF AtPassword, MaybeRow
    <3>4. q.copy.wrong + 1 \in Nat
      BY <3>3 DEF UserRow
    <3>5. \/ account' = [account EXCEPT !.wrong = 0, !.shut = TRUE]
          \/ account' = [account EXCEPT !.wrong = q.copy.wrong + 1]
      BY <1>1, <1>4, <2>3 DEF WrongPassword
    <3>6. /\ account' \in UserRow /\ account'.phone = account.phone
          /\ account'.verified = account.verified
      <4>1. CASE account' = [account EXCEPT !.wrong = 0, !.shut = TRUE]
        BY <3>1, <4>1 DEF UserRow
      <4>2. PICK n \in Nat : n = q.copy.wrong + 1
        BY <3>4
      <4>3. CASE account' = [account EXCEPT !.wrong = n]
        BY <3>1, <4>3 DEF UserRow
      <4> QED  BY <3>5, <4>1, <4>2, <4>3
    <3> QED  BY <2>1, <3>1, <3>6, OtherColumns, DepartStep
  <2> QED  BY <2>2, <2>3
<1>5. ASSUME RightNumbers(v) \/ Refused(v) \/ Welcome(v)
      PROVE  account # NoAccount
  BY <1>1, <1>2, <1>5 DEF RightNumbers, Refused, Welcome, OnVisit, CopyRight, Found
<1>6. CASE RightNumbers(v)
  <2>1. q \in AtSecret
    BY <1>1, <1>2, <1>6 DEF RightNumbers, OnVisit, OfVisit, Rest
  <2>2. PICK k : k = [at |-> IF q.errand = "login" THEN "welcome" ELSE "issue",
                      errand |-> q.errand]
    OBVIOUS
  <2>3. visit' = [visit EXCEPT ![v] = k] /\ RowKept
    BY <1>1, <1>6, <2>2 DEF RightNumbers, RowKept, SupabaseKept, BorrowedGrows, keptByRow,
                            tokens, history
  <2>4. OfVisit(k) /\ ~Renews(k) /\ k.at \in {"welcome", "issue"}
    BY <2>1, <2>2 DEF AtSecret, OfVisit, Welcomed, Issuing, Renews
  <2> QED  BY <1>5, <1>6, <2>3, <2>4, OnwardStep
<1>7. CASE Refused(v)
  BY <1>7, DepartStep DEF Refused, SupabaseKept, keptByRow, tokens, history
<1>8. CASE Welcome(v)
  <2>1. q \in Welcomed
    BY <1>1, <1>2, <1>8 DEF Welcome, OnVisit, OfVisit, Rest
  <2>2. PICK k : k = [q EXCEPT !.at = "issue"]
    OBVIOUS
  <2>3. /\ visit' = [visit EXCEPT ![v] = k]
        /\ account' = [account EXCEPT !.wrong = 0, !.shut = FALSE]
        /\ UNCHANGED <<metadata, supabase, session, clock, confirmed, borrowed, mixed, issued,
                       crossed>>
    BY <1>1, <1>8, <2>2 DEF Welcome, Go, keptByRow, tokens, history
  <2>4. OfVisit(k) /\ ~Renews(k) /\ k.at = "issue"
    BY <2>1, <2>2 DEF Welcomed, OfVisit, Issuing, Renews
  <2>5. account \in UserRow
    BY <1>2, <1>5, <1>8 DEF MaybeRow
  <2>6. /\ account' \in UserRow /\ account'.phone = account.phone
        /\ account'.verified = account.verified
    BY <2>3, <2>5 DEF UserRow
  <2>7. Honest(account)'
    BY <1>5, <1>8, <2>3, <2>6, OtherColumns
  <2>8. mixed' \in BOOLEAN /\ (mixed => mixed')
    BY <2>3 DEF AccountInv, AccountTypes
  <2> QED  BY <2>3, <2>4, <2>6, <2>7, <2>8, GoOnStep
<1> QED  BY <1>3, <1>4, <1>6, <1>7, <1>8

LEMMA SecretStep ==
  ASSUME AccountInv, NEW v \in Visits,
         StoreSecret(v) \/ EnableTwoFactor(v) \/ DisableTwoFactor(v)
  PROVE  AccountInv'
<1>1. CASE StoreSecret(v)
  BY <1>1, DepartStep DEF StoreSecret, SupabaseKept, keptBySecret, tokens, history
<1>2. ASSUME NEW two \in BOOLEAN, account' = [account EXCEPT !.two = two], Depart(v),
             visit[v].at \in {"enable", "disable"},
             SupabaseKept,
             UNCHANGED <<metadata, session, clock, confirmed, borrowed, mixed, issued, crossed>>
      PROVE  AccountInv'
  <2>1. account \in UserRow /\ account # NoAccount
    BY <1>2 DEF AccountInv, AccountTypes, CopyConfirmed, CopyRight, Found, MaybeRow
  <2>2. /\ account' \in UserRow /\ account'.phone = account.phone
        /\ account'.verified = account.verified
    BY <1>2, <2>1 DEF UserRow
  <2> QED  BY <1>2, <2>1, <2>2, OtherColumns, DepartStep
<1>3. CASE EnableTwoFactor(v)
  BY <1>2, <1>3 DEF EnableTwoFactor, OnVisit, SupabaseKept, keptBySecret, tokens, history
<1>4. CASE DisableTwoFactor(v)
  BY <1>2, <1>4 DEF DisableTwoFactor, OnVisit, SupabaseKept, keptBySecret, tokens, history
<1> QED  BY <1>1, <1>3, <1>4

(* An administrator's change, and the end of a lock.                       *)
LEMMA ColumnStep ==
  ASSUME AccountInv, Lapses \/ \E status \in {"active", "suspended"} : UpdateUserStatus(status)
  PROVE  AccountInv'
<1>1. /\ account # NoAccount /\ UNCHANGED visit
      /\ UNCHANGED <<metadata, supabase, session, clock, confirmed, borrowed, mixed, issued, crossed>>
      /\ \/ account' = [account EXCEPT !.shut = FALSE]
         \/ \E status \in {"active", "suspended"} : account' = [account EXCEPT !.status = status]
  BY DEF Lapses, UpdateUserStatus, keptByRow, tokens, history
<1>2. /\ account \in UserRow /\ DOMAIN visit = Visits /\ confirmed \subseteq Phones
      /\ mixed \in BOOLEAN
  BY <1>1 DEF AccountInv, AccountTypes, MaybeRow
<1>3. /\ account' \in UserRow /\ account'.phone = account.phone
      /\ account'.verified = account.verified
  BY <1>1, <1>2 DEF UserRow
<1>4. Honest(account)'
  BY <1>1, <1>3, OtherColumns
<1>5. account' \in MaybeRow /\ account' # NoAccount
  BY <1>3 DEF MaybeRow, UserRow, NoAccount
<1>6. /\ supabase' \in SupabaseUser /\ BorrowedGrows
      /\ supabase'.phone # NoPhone => supabase'.phone \in confirmed'
  BY <1>1, SupabaseStays DEF SupabaseKept, BorrowedGrows
<1> QED  BY <1>1, <1>2, <1>4, <1>5, <1>6, RowStep

-----------------------------------------------------------------------------
(* The steps of the verification of a number.                              *)

LEMMA CodeStep ==
  ASSUME AccountInv, NEW v \in Visits,
         \/ CountSends(v) \/ StoreCode(v) \/ FindCode(v) \/ WrongCode(v)
         \/ \E errand \in {"send", "verify"}, phone \in Phones : AskForCode(v, errand, phone)
  PROVE  AccountInv'
<1>1. PICK q : q = visit[v]
  OBVIOUS
<1>2. /\ OfVisit(q) /\ CopyRight(v) /\ account \in MaybeRow /\ DOMAIN visit = Visits
      /\ (account # NoAccount => Honest(account))
  BY <1>1 DEF AccountInv, AccountTypes, CopyConfirmed
<1>3. RowKept /\ UNCHANGED borrowed
  BY DEF CountSends, StoreCode, FindCode, WrongCode, AskForCode, RowKept, SupabaseKept,
         BorrowedGrows, keptByRow, keptByCode, tokens, history
<1>4. ASSUME Depart(v) PROVE AccountInv'
  BY <1>3, <1>4, DepartStep DEF RowKept
<1>5. CASE CountSends(v)
  <2>1. q.at = "send"
    BY <1>1, <1>5 DEF CountSends, OnVisit
  <2>2. q \in Asking /\ account # NoAccount
    BY <1>1, <1>2, <2>1 DEF OfVisit, Rest, CopyRight, Found
  <2>3. CASE Go(v, "sent")
    <3>1. PICK k : k = [q EXCEPT !.at = "sent"]
      OBVIOUS
    <3>2. visit' = [visit EXCEPT ![v] = k]
      BY <1>1, <2>3, <3>1 DEF Go
    <3>3. k \in Asking /\ k.at = "sent"
      BY <2>2, <3>1 DEF Asking
    <3> QED  BY <1>3, <2>2, <3>2, <3>3, OnwardStep DEF OfVisit, Renews
  <2> QED  BY <1>4, <1>5, <2>3 DEF CountSends
<1>6. CASE StoreCode(v) \/ WrongCode(v)
  BY <1>4, <1>6 DEF StoreCode, WrongCode
<1>7. CASE FindCode(v)
  <2>1. q.at = "verify"
    BY <1>1, <1>7 DEF FindCode, OnVisit
  <2>2. q \in Asking /\ account # NoAccount
    BY <1>1, <1>2, <2>1 DEF OfVisit, Rest, CopyRight, Found
  <2>3. ASSUME NEW i, visit' = [visit EXCEPT ![v] =
                 [at |-> "check", phone |-> visit[v].phone, index |-> i, found |-> code[i]]]
        PROVE  AccountInv'
    <3>1. PICK k : k = [at |-> "check", phone |-> q.phone, index |-> i, found |-> code[i]]
      OBVIOUS
    <3>2. visit' = [visit EXCEPT ![v] = k]
      BY <1>1, <2>3, <3>1
    <3>3. k.at = "check" /\ OfVisit(k)
      BY <2>2, <3>1 DEF Asking, OfVisit
    <3> QED  BY <1>3, <2>2, <3>2, <3>3, OnwardStep DEF Renews
  <2> QED  BY <1>2, <1>4, <1>7, <2>3 DEF FindCode
<1>8. ASSUME NEW errand \in {"send", "verify"}, NEW phone \in Phones,
             AskForCode(v, errand, phone)
      PROVE  AccountInv'
  <2>1. account \in UserRow /\ account # NoAccount /\ Honest(account)
    BY <1>2, <1>8 DEF AskForCode, MaybeRow
  <2>2. CASE account.phone = NoPhone
    <3>1. PICK k : k = [at |-> "claim", errand |-> errand, phone |-> phone, copy |-> account]
      OBVIOUS
    <3>2. visit' = [visit EXCEPT ![v] = k] /\ visit'[v] = k
      BY <1>2, <1>8, <2>2, <3>1 DEF AskForCode
    <3>3. k \in Claiming /\ k.at = "claim" /\ k.copy = account
      BY <2>1, <3>1 DEF Claiming
    <3>4. CopyRight(v)'
      BY <1>3, <2>1, <3>2, <3>3 DEF CopyRight, Found, Honest, RowKept
    <3> QED  BY <1>3, <3>2, <3>3, <3>4, VisitStep DEF OfVisit, Renews
  <2>3. CASE account.phone # NoPhone
    <3>1. PICK k : k = [at |-> errand, phone |-> phone]
      OBVIOUS
    <3>2. visit' = [visit EXCEPT ![v] = k]
      BY <1>8, <2>3, <3>1 DEF AskForCode
    <3>3. k \in Asking /\ k.at \in {"send", "verify"}
      BY <3>1 DEF Asking
    <3> QED  BY <1>3, <2>1, <3>2, <3>3, OnwardStep DEF OfVisit, Renews
  <2> QED  BY <2>2, <2>3
<1> QED  BY <1>5, <1>6, <1>7, <1>8

(* A number is confirmed by a right code, and only then is a row verified. *)
LEMMA ConfirmStep ==
  ASSUME AccountInv, NEW v \in Visits, RightCode(v) \/ Approve(v) \/ Confirm(v)
  PROVE  AccountInv'
<1>1. PICK q : q = visit[v]
  OBVIOUS
<1>2. /\ OfVisit(q) /\ CopyRight(v) /\ account \in MaybeRow /\ DOMAIN visit = Visits
      /\ (account # NoAccount => Honest(account)) /\ confirmed \subseteq Phones
      /\ mixed \in BOOLEAN
  BY <1>1 DEF AccountInv, AccountTypes, CopyConfirmed
<1>3. q.at \in {"check", "approve", "confirm"}
  BY <1>1 DEF RightCode, Approve, Confirm, OnVisit
<1>4. /\ DOMAIN q = {"at", "phone", "index", "found"} /\ q.phone \in Phones
      /\ account # NoAccount /\ (q.at # "check" => q.phone \in confirmed)
  BY <1>1, <1>2, <1>3 DEF OfVisit, Rest, CopyRight, Found
<1>5. ASSUME NEW step \in {"approve", "confirm"}, Go(v, step),
             UNCHANGED <<metadata, supabase, account, session, clock, borrowed, mixed, issued,
                         crossed>>,
             confirmed \subseteq confirmed', confirmed' \subseteq Phones,
             q.phone \in confirmed'
      PROVE  AccountInv'
  <2>1. PICK k : k = [q EXCEPT !.at = step]
    OBVIOUS
  <2>2. /\ DOMAIN visit' = Visits /\ visit'[v] = k
        /\ \A w \in Visits \ {v} : visit'[w] = visit[w]
    BY <1>1, <1>2, <1>5, <2>1 DEF Go
  <2>3. /\ k.at = step /\ k.phone = q.phone
        /\ DOMAIN k = {"at", "phone", "index", "found"}
    BY <1>4, <2>1
  <2>4. OfVisit(k) /\ ~Renews(k)
    BY <1>4, <2>3 DEF OfVisit, Renews
  <2>5. CopyRight(v)'
    BY <1>4, <1>5, <2>2, <2>3 DEF CopyRight, Found
  <2>6. Honest(account)'
    BY <1>2, <1>4, <1>5 DEF Honest
  <2>7. \A w \in Visits :
          visit'[w] = visit[w] \/ (OfVisit(visit'[w]) /\ CopyRight(w)' /\ ~Renews(visit'[w]))
    BY <2>2, <2>4, <2>5
  <2>8. /\ supabase' \in SupabaseUser /\ BorrowedGrows
        /\ supabase'.phone # NoPhone => supabase'.phone \in confirmed'
    BY <1>5, SupabaseStays DEF SupabaseKept, BorrowedGrows
  <2> QED  BY <1>2, <1>5, <2>2, <2>6, <2>7, <2>8, RowStep
<1>6. CASE RightCode(v)
  <2>1. confirmed' = confirmed \cup {q.phone}
    BY <1>1, <1>6 DEF RightCode
  <2> QED  BY <1>2, <1>4, <1>5, <1>6, <2>1 DEF RightCode, keptByCode, tokens
<1>7. CASE Approve(v)
  BY <1>1, <1>2, <1>4, <1>5, <1>7 DEF Approve, OnVisit, keptByCode, tokens
<1>8. CASE Confirm(v)
  <2>1. /\ Depart(v) /\ q.at = "confirm"
        /\ UNCHANGED <<metadata, session, clock, confirmed, borrowed, mixed, issued, crossed>>
        /\ SupabaseKept
    BY <1>1, <1>8 DEF Confirm, OnVisit, SupabaseKept, keptByRow, tokens, history
  <2>2. CASE account.phone = q.phone
    <3>1. account' = [account EXCEPT !.verified = TRUE] /\ account \in UserRow
      BY <1>1, <1>2, <1>4, <1>8, <2>2 DEF Confirm, MaybeRow
    <3>2. account' \in UserRow /\ account'.phone = account.phone
      BY <3>1 DEF UserRow
    <3>3. Honest(account)'
      BY <1>4, <2>1, <2>2, <3>2 DEF Honest
    <3> QED  BY <2>1, <3>2, <3>3, DepartStep
  <2>3. CASE account.phone # q.phone
    BY <1>1, <1>8, <2>1, <2>3, DepartStep DEF Confirm
  <2> QED  BY <2>2, <2>3
<1> QED  BY <1>6, <1>7, <1>8

-----------------------------------------------------------------------------
(* The steps of the sessions and their tokens.                             *)

LEMMA TokenFrame ==
  ASSUME AccountInv, UNCHANGED <<metadata, supabase, account, confirmed, borrowed, mixed>>,
         DOMAIN visit' = Visits,
         \A w \in Visits :
           \/ visit'[w] = visit[w]
           \/ /\ OfVisit(visit'[w])
              /\ visit'[w].at \in {"rest", "block", "refresh", "logout", "issue"},
         session' \in [Tokens -> {"none", "live", "revoked"}], clock' \in Tokens,
         issued' \subseteq Tokens \X Tokens, TokensOnce'
  PROVE  AccountInv'
<1>1. AccountTypes'
  BY DEF AccountInv, AccountTypes
<1>2. ASSUME NEW w \in Visits, visit'[w] # visit[w]
      PROVE  CopyRight(w)'
  BY <1>2 DEF CopyRight, Found
<1>3. account # NoAccount => Honest(account)'
  BY DEF AccountInv, CopyConfirmed, Honest
<1>4. CopyConfirmed'
  <2>1. supabase'.phone # NoPhone => supabase'.phone \in confirmed'
    BY DEF AccountInv, CopyConfirmed
  <2> QED  BY <1>2, <1>3, <2>1, CopiesKept DEF AccountInv
<1> QED  BY <1>1, <1>4 DEF AccountInv

LEMMA RevokingStep ==
  ASSUME AccountInv,
         \/ RevokeAllSessions \/ Tick \/ \E t \in Tokens : RevokeSession(t)
  PROVE  AccountInv'
<1>1. /\ session \in [Tokens -> {"none", "live", "revoked"}] /\ clock \in Tokens
      /\ DOMAIN visit = Visits /\ issued \subseteq Tokens \X Tokens /\ TokensOnce
  BY DEF AccountInv, AccountTypes
<1>2. UNCHANGED <<metadata, supabase, account, confirmed, borrowed, mixed, visit, issued, crossed>>
  BY DEF RevokeAllSessions, Tick, RevokeSession, keptByToken, history
<1>3. clock' \in Tokens
  BY <1>1, AccountsAssumption DEF RevokeAllSessions, Tick, RevokeSession, keptByToken, Tokens
<1>4. /\ session' \in [Tokens -> {"none", "live", "revoked"}]
      /\ \A t \in Tokens : session[t] = "revoked" => session'[t] = "revoked"
  BY <1>1 DEF RevokeAllSessions, Tick, RevokeSession
<1>5. TokensOnce'
  BY <1>1, <1>2, <1>4, TokensKept
<1> QED  BY <1>1, <1>2, <1>3, <1>4, <1>5, TokenFrame

LEMMA TokenVisit ==
  ASSUME AccountInv, NEW v \in Visits, Block(v) \/ Use(v) \/ SignOut(v)
  PROVE  AccountInv'
<1>1. PICK q : q = visit[v]
  OBVIOUS
<1>2. /\ session \in [Tokens -> {"none", "live", "revoked"}] /\ clock \in Tokens
      /\ DOMAIN visit = Visits /\ issued \subseteq Tokens \X Tokens /\ TokensOnce
      /\ OfVisit(q)
  BY <1>1 DEF AccountInv, AccountTypes
<1>3. UNCHANGED <<metadata, supabase, account, confirmed, borrowed, mixed, clock, issued, crossed>>
  BY DEF Block, Use, SignOut, keptByToken
<1>4. q.at \in {"block", "refresh", "logout"}
  BY <1>1 DEF Block, Use, SignOut, OnVisit
<1>5. q \in Renewing \cup Leaving
  BY <1>2, <1>4 DEF OfVisit, Rest
<1>6. q.token \in Tokens /\ (q.at = "refresh" => q \in Renewing)
  BY <1>4, <1>5 DEF Renewing, Leaving
<1>7. /\ session' \in [Tokens -> {"none", "live", "revoked"}]
      /\ \A t \in Tokens : session[t] = "revoked" => session'[t] = "revoked"
  BY <1>1, <1>2, <1>6 DEF Block, Use, SignOut
<1>8. ASSUME NEW k, visit' = [visit EXCEPT ![v] = k], OfVisit(k),
             k.at \in {"rest", "block", "refresh", "logout", "issue"},
             Renews(k) => /\ Renews(q) /\ k.token = q.token
                          /\ k.at = "issue" => session'[q.token] = "revoked"
      PROVE  AccountInv'
  <2>1. /\ DOMAIN visit' = Visits /\ visit'[v] = k
        /\ \A w \in Visits \ {v} : visit'[w] = visit[w]
    BY <1>2, <1>8
  <2>2. TokensOnce'
    <3>1. \A w \in Visits : Renews(visit'[w]) =>
            /\ Renews(visit[w]) /\ visit'[w].token = visit[w].token
            /\ visit'[w].at = "issue" =>
                 visit[w].at = "issue" \/ session'[visit'[w].token] = "revoked"
      BY <1>1, <1>8, <2>1
    <3> QED  BY <1>2, <1>3, <1>7, <3>1, TokensKept
  <2>3. \A w \in Visits :
          \/ visit'[w] = visit[w]
          \/ /\ OfVisit(visit'[w])
             /\ visit'[w].at \in {"rest", "block", "refresh", "logout", "issue"}
    BY <1>8, <2>1
  <2> QED  BY <1>2, <1>3, <1>7, <2>1, <2>2, <2>3, TokenFrame
<1>9. CASE Block(v)
  <2>1. PICK k : k = [q EXCEPT !.at = q.errand]
    OBVIOUS
  <2>2. visit' = [visit EXCEPT ![v] = k] /\ q.at = "block"
    BY <1>1, <1>9, <2>1 DEF Block, Go, OnVisit
  <2>3. CASE q \in Renewing
    <3>1. k \in Renewing /\ k.at = "refresh" /\ k.token = q.token /\ Renews(q)
      BY <2>1, <2>2, <2>3 DEF Renewing, Renews
    <3> QED  BY <1>8, <2>2, <3>1 DEF OfVisit
  <2>4. CASE q \in Leaving
    <3>1. k \in Leaving /\ k.at = "logout"
      BY <2>1, <2>2, <2>4 DEF Leaving
    <3> QED  BY <1>8, <2>2, <3>1 DEF OfVisit, Renews
  <2> QED  BY <1>5, <2>3, <2>4
<1>10. CASE Use(v)
  <2>1. PICK k : k = [q EXCEPT !.at = "issue"]
    OBVIOUS
  <2>2. /\ visit' = [visit EXCEPT ![v] = k] /\ q.at = "refresh"
        /\ session' = [session EXCEPT ![q.token] = "revoked"]
    BY <1>1, <1>10, <2>1 DEF Use, Go, OnVisit
  <2>3. k \in Renewing /\ k.at = "issue" /\ k.token = q.token /\ Renews(q)
    BY <1>6, <2>1, <2>2 DEF Renewing, Renews
  <2>4. session'[q.token] = "revoked"
    BY <1>2, <1>6, <2>2
  <2> QED  BY <1>8, <2>2, <2>3, <2>4 DEF OfVisit
<1>11. CASE SignOut(v)
  BY <1>8, <1>11, AtRest DEF SignOut, Depart
<1> QED  BY <1>9, <1>10, <1>11

(* A token is taken up while its session is live: it was not changed yet.  *)
LEMMA TakeUpStep ==
  ASSUME AccountInv, NEW v \in Visits, NEW t \in Tokens, RefreshTokens(v, t) \/ Logout(v, t)
  PROVE  AccountInv'
<1>1. /\ session \in [Tokens -> {"none", "live", "revoked"}] /\ clock \in Tokens
      /\ DOMAIN visit = Visits /\ issued \subseteq Tokens \X Tokens /\ TokensOnce
  BY DEF AccountInv, AccountTypes
<1>2. UNCHANGED <<metadata, supabase, account, confirmed, borrowed, mixed, clock, issued, session>>
  BY DEF RefreshTokens, Logout, keptByToken
<1>3. ASSUME NEW k, visit' = [visit EXCEPT ![v] = k], OfVisit(k), k.at = "block", TokensOnce'
      PROVE  AccountInv'
  <2>1. /\ DOMAIN visit' = Visits /\ visit'[v] = k
        /\ \A w \in Visits \ {v} : visit'[w] = visit[w]
    BY <1>1, <1>3
  <2>2. \A w \in Visits :
          \/ visit'[w] = visit[w]
          \/ /\ OfVisit(visit'[w])
             /\ visit'[w].at \in {"rest", "block", "refresh", "logout", "issue"}
    BY <1>3, <2>1
  <2> QED  BY <1>1, <1>2, <1>3, <2>1, <2>2, TokenFrame
<1>4. CASE Logout(v, t)
  <2>1. PICK k : k = [at |-> "block", errand |-> "logout", token |-> t]
    OBVIOUS
  <2>2. k \in Leaving /\ k.at = "block" /\ ~Renews(k)
    BY <2>1 DEF Leaving, Renews
  <2>3. visit' = [visit EXCEPT ![v] = k] /\ UNCHANGED crossed
    BY <1>4, <2>1 DEF Logout
  <2>4. visit'[v] = k /\ \A w \in Visits \ {v} : visit'[w] = visit[w]
    BY <1>1, <2>3
  <2>5. \A w \in Visits : Renews(visit'[w]) => visit'[w] = visit[w]
    BY <2>2, <2>4
  <2>6. TokensOnce'
    BY <1>1, <1>2, <2>3, <2>5, TokensKept
  <2> QED  BY <1>3, <2>2, <2>3, <2>6 DEF OfVisit
<1>5. CASE RefreshTokens(v, t)
  <2>1. PICK k : k = [at |-> "block", errand |-> "refresh", token |-> t]
    OBVIOUS
  <2>2. k \in Renewing /\ k.at = "block" /\ Renews(k) /\ k.token = t
    BY <2>1 DEF Renewing, Renews
  <2>3. /\ visit' = [visit EXCEPT ![v] = k] /\ session[t] = "live" /\ visit[v].at = "rest"
        /\ crossed' = IF Refreshing(t) = {} THEN crossed ELSE crossed \cup {t}
    BY <1>5, <2>1 DEF RefreshTokens, OnVisit
  <2>4. visit'[v] = k /\ \A w \in Visits \ {v} : visit'[w] = visit[w]
    BY <1>1, <2>3
  <2>5. ASSUME NEW s \in Tokens PROVE TokenRight(s)'
    <3>1. /\ TokenRight(s) /\ RefreshedInto(s)' = RefreshedInto(s)
      BY <1>1, <1>2 DEF TokensOnce, RefreshedInto
    <3>2. Refreshing(s)' = IF s = t THEN Refreshing(s) \cup {v} ELSE Refreshing(s)
      BY <2>2, <2>3, <2>4 DEF Refreshing, Renews
    <3>3. \A w \in Refreshing(s) : visit'[w] = visit[w]
      BY <2>3, <2>4 DEF Refreshing
    <3>4. CASE s # t
      BY <1>2, <2>3, <3>1, <3>2, <3>3, <3>4 DEF TokenRight
    <3>5. CASE s = t
      <4>1. RefreshedInto(s) = {}
        BY <2>3, <3>1, <3>5 DEF TokenRight
      <4>2. \A w \in Refreshing(s)' : visit'[w].at = "issue" => session'[s] = "revoked"
        BY <1>2, <2>2, <2>4, <3>1, <3>2, <3>3, <3>5 DEF TokenRight
      <4>3. s \notin crossed' => \A w, x \in Refreshing(s)' : w = x
        BY <2>3, <3>2, <3>5
      <4> QED  BY <3>1, <4>1, <4>2, <4>3 DEF TokenRight
    <3> QED  BY <3>4, <3>5
  <2>6. TokensOnce'
    BY <2>5 DEF TokensOnce
  <2> QED  BY <1>3, <2>2, <2>3, <2>6 DEF OfVisit
<1> QED  BY <1>4, <1>5

(* A token is issued for another: it is the first, or the two crossed.     *)
LEMMA IssueStep ==
  ASSUME AccountInv, NEW v \in Visits, Issue(v)
  PROVE  AccountInv'
<1>1. PICK q : q = visit[v]
  OBVIOUS
<1>2. /\ session \in [Tokens -> {"none", "live", "revoked"}] /\ clock \in Tokens
      /\ DOMAIN visit = Visits /\ issued \subseteq Tokens \X Tokens /\ TokensOnce
      /\ OfVisit(q)
  BY <1>1 DEF AccountInv, AccountTypes
<1>3. /\ UNCHANGED <<metadata, supabase, account, confirmed, borrowed, mixed, clock, crossed>>
      /\ Depart(v)
      /\ q.at = "issue"
  BY <1>1 DEF Issue, OnVisit, keptByToken
<1>4. /\ DOMAIN visit' = Visits /\ visit'[v] = Rest
      /\ \A w \in Visits \ {v} : visit'[w] = visit[w]
  BY <1>2, <1>3 DEF Depart
<1>5. q \in Issuing \cup Renewing
  BY <1>2, <1>3 DEF OfVisit, Rest
<1>6. q.errand = "refresh" => q.token \in Tokens
  BY <1>5 DEF Issuing, Renewing
<1>7. CASE session[clock] # "none"
  BY <1>1, <1>3, <1>7, DepartStep DEF Issue, SupabaseKept
<1>8. CASE session[clock] = "none"
  <2>1. /\ session' = [session EXCEPT ![clock] = "live"]
        /\ issued' = IF q.errand = "refresh" THEN issued \cup {<<q.token, clock>>} ELSE issued
    BY <1>1, <1>8 DEF Issue
  <2>2. /\ session' \in [Tokens -> {"none", "live", "revoked"}]
        /\ \A t \in Tokens : session[t] = "revoked" => session'[t] = "revoked"
    BY <1>2, <1>8, <2>1
  <2>3. issued' \subseteq Tokens \X Tokens
    BY <1>2, <1>6, <2>1
  <2>4. ASSUME NEW t \in Tokens PROVE TokenRight(t)'
    <3>1. TokenRight(t)
      BY <1>2 DEF TokensOnce
    <3>2. Refreshing(t)' = Refreshing(t) \ {v}
      BY <1>4 DEF Refreshing, Rest
    <3>3. \A w \in Refreshing(t)' : visit'[w] = visit[w] /\ w \in Refreshing(t)
      <4>1. Refreshing(t) \subseteq Visits
        BY DEF Refreshing
      <4> QED  BY <1>4, <3>2, <4>1
    <3>4. CASE v \notin Refreshing(t)
      <4>1. RefreshedInto(t)' = RefreshedInto(t)
        <5>1. q.errand = "refresh" => q.token # t
          BY <1>1, <1>3, <3>4 DEF Refreshing
        <5> QED  BY <2>1, <5>1 DEF RefreshedInto
      <4> QED  BY <1>3, <2>2, <3>1, <3>2, <3>3, <4>1 DEF TokenRight
    <3>5. CASE v \in Refreshing(t)
      <4>1. q.errand = "refresh" /\ q.token = t
        BY <1>1, <3>5 DEF Refreshing
      <4>2. RefreshedInto(t)' = RefreshedInto(t) \cup {clock}
        BY <1>2, <2>1, <4>1 DEF RefreshedInto
      <4>3. session'[t] = "revoked"
        BY <1>1, <1>3, <2>2, <3>1, <3>5 DEF TokenRight
      <4>4. t \notin crossed => RefreshedInto(t) = {} /\ Refreshing(t)' = {}
        BY <3>1, <3>2, <3>5 DEF TokenRight
      <4> QED  BY <1>3, <4>2, <4>3, <4>4 DEF TokenRight
    <3> QED  BY <3>4, <3>5
  <2>5. TokensOnce'
    BY <2>4 DEF TokensOnce
  <2>6. \A w \in Visits :
          \/ visit'[w] = visit[w]
          \/ /\ OfVisit(visit'[w])
             /\ visit'[w].at \in {"rest", "block", "refresh", "logout", "issue"}
    BY <1>4, AtRest
  <2> QED  BY <1>2, <1>3, <1>4, <2>2, <2>3, <2>5, <2>6, TokenFrame
<1> QED  BY <1>7, <1>8

LEMMA AccountStep == AccountInv /\ [AccountNext]_accountvars => AccountInv'
<1> SUFFICES ASSUME AccountInv, [AccountNext]_accountvars PROVE AccountInv'
  OBVIOUS
<1>1. CASE UNCHANGED accountvars
  <2>1. AccountTypes'
    BY <1>1 DEF accountvars, AccountInv, AccountTypes
  <2>2. CopyConfirmed'
    BY <1>1 DEF accountvars, AccountInv, CopyConfirmed, CopyRight, Found, Honest
  <2>3. TokensOnce'
    BY <1>1 DEF accountvars, AccountInv, TokensOnce, TokenRight, Refreshing, RefreshedInto
  <2> QED  BY <2>1, <2>2, <2>3 DEF AccountInv
<1>2. ASSUME NEW v \in Visits,
             \/ SaveNext(v) \/ SignInNext(v) \/ TokenNext(v) \/ SecretNext(v)
             \/ PhoneNext(v) \/ Stop(v)
      PROVE  AccountInv'
  <2>1. CASE SaveNext(v)
    BY <2>1, InsertStep, UpdateStep DEF SaveNext
  <2>2. CASE SignInNext(v)
    BY <2>2, Reading, ToldBySupabase, Savers, SignInStep, IssueStep DEF SignInNext
  <2>3. CASE TokenNext(v)
    BY <2>3, TokenVisit, TakeUpStep DEF TokenNext
  <2>4. CASE SecretNext(v)
    BY <2>4, Reading, SecretStep DEF SecretNext
  <2>5. CASE PhoneNext(v)
    BY <2>5, Savers, CodeStep, ConfirmStep DEF PhoneNext
  <2>6. CASE Stop(v)
    BY <2>6, DepartStep DEF Stop, SupabaseKept, keptByRow, tokens, history
  <2> QED  BY <1>2, <2>1, <2>2, <2>3, <2>4, <2>5, <2>6
<1> QED  BY <1>1, <1>2, RevokingStep, ColumnStep, SupabaseStep DEF AccountNext

(* login, exchangeSupabaseSession, assertUserCanVerifyPhone and verifyOtp: *)
(* a number shown as verified is one that a right code was given for, here *)
(* or at Supabase, unless a login put on it the mark of another number     *)
(* that Supabase has confirmed (syncLocalUserFromSupabaseAuthUser) or the  *)
(* halves of two saves made up the row; for any number of requests,        *)
(* numbers and codes.                                                      *)
THEOREM VerifiedNumbersWereConfirmed == AccountSpec => []VerifiedWasConfirmed
<1>1. AccountInv => VerifiedWasConfirmed
  BY DEF AccountInv, CopyConfirmed, Honest, VerifiedWasConfirmed
<1> QED  BY <1>1, AccountInitially, AccountStep, PTL DEF AccountSpec

(* refreshTokens: a refresh token is changed into at most one other,       *)
(* whatever Redis keeps and however many are refreshed, unless two         *)
(* refreshes of it overlap.                                                *)
THEOREM TokensAreRefreshedOnce == AccountSpec => []RefreshedOnce
<1>1. AccountInv => RefreshedOnce
  <2> SUFFICES ASSUME AccountInv, NEW a \in issued, NEW b \in issued, a[1] = b[1],
                      a[1] \notin crossed
               PROVE  a = b
    BY DEF RefreshedOnce
  <2>1. PICK t \in Tokens, m \in Tokens, n \in Tokens : a = <<t, m>> /\ b = <<t, n>>
    BY DEF AccountInv, AccountTypes
  <2>2. TokenRight(t) /\ m \in RefreshedInto(t) /\ n \in RefreshedInto(t)
    BY <2>1 DEF AccountInv, TokensOnce, RefreshedInto
  <2> QED  BY <2>1, <2>2 DEF TokenRight
<1> QED  BY <1>1, AccountInitially, AccountStep, PTL DEF AccountSpec
=============================================================================
