---------------------------- MODULE WebhookProofs ----------------------------
(***************************************************************************)
(* Proofs about Messaging and the delivery of its events to developers'    *)
(* webhooks: one run of the job works on a delivery at a time, a settled   *)
(* row is true, a callback leaves one message, and the status of a text    *)
(* is told.                                                                *)
(*                                                                         *)
(* A run owns what it claimed by the status of the row alone, which no     *)
(* other run, no queueing and no back-off takes away; the deletion of the  *)
(* webhook does, and nothing is written then.  The counts of the lists are *)
(* stale, but never above the number of posts made.                        *)
(*                                                                         *)
(* So no row of delivery is ever undone, and what a text's handlers queued *)
(* stays queued.                                                           *)
(***************************************************************************)
EXTENDS Messaging, TLAPS

Rows == [status : DeliveryStatuses, attempts : 0..MaxAttempts, due : BOOLEAN]
RunRows == [at : {"list"} \cup Busy, todo : SUBSET Picks, now : SUBSET Picks]
PostRows == [took : BOOLEAN, times : 0..MaxAttempts]

(* What a row may say when n posts were made.                              *)
TrueRow(row, n) ==
  /\ row.attempts <= n.times
  /\ row.status = "pending" => row.attempts < MaxAttempts
  /\ row.status = "delivered" => n.took
  /\ row.status = "failed" => n.times = MaxAttempts

(* What a run may have in hand: nothing at its list, else one delivery; no *)
(* count above the posts made, and below them once the post is made.       *)
TrueHand(x, n) ==
  /\ x.at = "list" => x.now = {}
  /\ x.at # "list" => \E p \in Picks : x.now = {p}
  /\ \A p \in x.todo \cup x.now : p.attempts <= n[p.of].times
  /\ \A p \in x.now :
       /\ x.at \in {"took", "count", "refused"} => p.attempts + 1 <= n[p.of].times
       /\ x.at \in {"took", "count"} => n[p.of].took

Owns(x, d) == \E p \in x.now : p.of = d

(* The row of a delivery that a run holds.                                 *)
HeldRow(row, at) ==
  \/ row.status \in {"delivering", "deleted"}
  \/ row.status = "delivered" /\ at \in {"count", "refused"}

HooksInv ==
  /\ HooksTypeOK
  /\ \A d \in Deliveries : TrueRow(delivery[d], posts[d])
  /\ \A r \in Runs : TrueHand(run[r], posts)
  /\ \A d \in Deliveries : \A r \in Runs :
       Owns(run[r], d) => /\ HeldRow(delivery[d], run[r].at)
                          /\ \A q \in Runs \ {r} : ~Owns(run[q], d)

-----------------------------------------------------------------------------
LEMMA Types ==
  ASSUME HooksInv
  PROVE  /\ delivery \in [Deliveries -> Rows] /\ run \in [Runs -> RunRows]
         /\ posts \in [Deliveries -> PostRows] /\ MaxAttempts \in Nat
         /\ \A d \in Deliveries : posts[d].times \in Nat /\ delivery[d].attempts \in Nat
  BY WebhooksAssumption DEF HooksInv, HooksTypeOK, Rows, RunRows, PostRows

(* Posts are only added.                                                   *)
PostsGrow ==
  /\ posts' \in [Deliveries -> PostRows]
  /\ \A d \in Deliveries :
       posts'[d].times >= posts[d].times /\ (posts[d].took => posts'[d].took)

LEMMA PostsSame ==
  ASSUME HooksInv, UNCHANGED posts
  PROVE  PostsGrow
  BY Types DEF PostsGrow

LEMMA HandKept ==
  ASSUME HooksInv, PostsGrow, NEW x \in RunRows, TrueHand(x, posts)
  PROVE  TrueHand(x, posts')
<1>1. \A d \in Deliveries : posts[d].times \in Nat /\ posts'[d].times \in Nat
  BY Types DEF PostsGrow, PostRows
<1>2. \A p \in x.todo \cup x.now : p.of \in Deliveries /\ p.attempts \in Nat
  BY DEF RunRows, Picks
<1> QED
  BY <1>1, <1>2 DEF TrueHand, PostsGrow

LEMMA RowKept ==
  ASSUME HooksInv, PostsGrow, NEW d \in Deliveries
  PROVE  TrueRow(delivery[d], posts'[d])
<1>1. /\ posts[d].times \in 0..MaxAttempts /\ posts'[d].times \in 0..MaxAttempts
      /\ delivery[d].attempts \in Nat /\ MaxAttempts \in Nat
      /\ posts'[d].times >= posts[d].times /\ (posts[d].took => posts'[d].took)
  BY Types DEF PostsGrow, PostRows
<1>2. TrueRow(delivery[d], posts[d])
  BY DEF HooksInv
<1> QED
  BY <1>1, <1>2 DEF TrueRow

-----------------------------------------------------------------------------
(* A step of a run that claims nothing: it writes rows it holds only, and  *)
(* keeps what it holds or goes back to its list.                           *)
LEMMA OwnStep ==
  ASSUME HooksInv, NEW r \in Runs, NEW x \in RunRows,
         run' = [run EXCEPT ![r] = x], hooks' = hooks, PostsGrow,
         x.now \subseteq run[r].now, TrueHand(x, posts'),
         delivery' \in [Deliveries -> Rows],
         \A d \in Deliveries :
           delivery'[d] = delivery[d] \/ (Owns(run[r], d) /\ TrueRow(delivery'[d], posts'[d])),
         \A p \in x.now : HeldRow(delivery'[p.of], x.at)
  PROVE  HooksInv'
<1>1. /\ run \in [Runs -> RunRows] /\ run' \in [Runs -> RunRows] /\ run'[r] = x
      /\ \A q \in Runs : q # r => run'[q] = run[q]
  BY Types
<1>2. HooksTypeOK'
  BY <1>1 DEF HooksInv, HooksTypeOK, RunRows, Rows, PostsGrow, PostRows
<1>3. \A d \in Deliveries : TrueRow(delivery'[d], posts'[d])
  BY RowKept
<1>4. \A q \in Runs : TrueHand(run'[q], posts')
  BY <1>1, HandKept DEF HooksInv
<1>5. ASSUME NEW d \in Deliveries, NEW q \in Runs, Owns(run'[q], d)
      PROVE  /\ HeldRow(delivery'[d], run'[q].at)
             /\ \A s \in Runs \ {q} : ~Owns(run'[s], d)
  <2>1. \A s \in Runs : Owns(run'[s], d) => Owns(run[s], d)
    BY <1>1 DEF Owns
  <2>2. \A s \in Runs \ {q} : ~Owns(run[s], d) /\ ~Owns(run'[s], d)
    BY <1>5, <2>1 DEF HooksInv
  <2>3. CASE q = r
    BY <1>1, <1>5, <2>2, <2>3 DEF Owns
  <2>4. CASE q # r
    <3>1. delivery'[d] = delivery[d] /\ run'[q] = run[q]
      BY <1>1, <2>2, <2>4
    <3> QED
      BY <1>5, <2>2, <3>1 DEF HooksInv
  <2> QED
    BY <2>3, <2>4
<1> QED
  BY <1>2, <1>3, <1>4, <1>5 DEF HooksInv

(* A claim: the row was pending, so nobody held it.                        *)
LEMMA ClaimStep ==
  ASSUME HooksInv, NEW r \in Runs, Claim(r)
  PROVE  HooksInv'
<1>1. /\ run \in [Runs -> RunRows] /\ run[r] \in RunRows
      /\ run[r].at = "list" /\ hooks' = hooks /\ posts' = posts
      /\ delivery \in [Deliveries -> Rows]
  BY Types DEF Claim
<1>2. PICK p \in run[r].todo :
        IF delivery[p.of].status = "pending"
        THEN /\ delivery' = [delivery EXCEPT ![p.of].status = "delivering"]
             /\ run' = [run EXCEPT ![r] =
                          [at |-> "post", todo |-> run[r].todo \ {p}, now |-> {p}]]
        ELSE /\ run' = [run EXCEPT ![r].todo = run[r].todo \ {p}]
             /\ UNCHANGED delivery
  <2>1. \A A, B : [run EXCEPT ![r] = [at |-> "post", todo |-> @.todo \ A, now |-> B]]
                  = [run EXCEPT ![r] = [at |-> "post", todo |-> run[r].todo \ A, now |-> B]]
    OBVIOUS
  <2> QED
    BY <1>1, <2>1 DEF Claim
<1>3. /\ p \in Picks /\ p.of \in Deliveries /\ p.attempts \in Nat /\ TrueHand(run[r], posts)
      /\ p.attempts <= posts[p.of].times /\ run[r].now = {}
  BY <1>1 DEF RunRows, Picks, HooksInv, TrueHand
<1>4. PostsGrow
  BY <1>1, PostsSame
<1>5. CASE delivery[p.of].status # "pending"
  <2> DEFINE x == [run[r] EXCEPT !.todo = run[r].todo \ {p}]
  <2>1. /\ x \in RunRows /\ x.at = "list" /\ x.now = {} /\ x.todo \subseteq run[r].todo
        /\ run' = [run EXCEPT ![r] = x] /\ UNCHANGED delivery
    BY <1>1, <1>2, <1>3, <1>5 DEF RunRows
  <2> HIDE DEF x
  <2>2. TrueHand(x, posts')
    BY <1>1, <1>3, <2>1 DEF TrueHand
  <2> QED
    BY <1>1, <1>3, <1>4, <2>1, <2>2, OwnStep
<1>6. CASE delivery[p.of].status = "pending"
  <2> DEFINE x == [at |-> "post", todo |-> run[r].todo \ {p}, now |-> {p}]
  <2>1. x \in RunRows /\ x.at = "post" /\ x.now = {p} /\ x.todo \subseteq run[r].todo
    BY <1>1, <1>3 DEF RunRows, Busy
  <2>2. /\ run' = [run EXCEPT ![r] = x]
        /\ delivery' = [delivery EXCEPT ![p.of].status = "delivering"]
    BY <1>2, <1>6
  <2> HIDE DEF x
  <2>3. /\ run' \in [Runs -> RunRows] /\ run'[r] = x
        /\ \A q \in Runs : q # r => run'[q] = run[q]
    BY <1>1, <2>1, <2>2
  <2>4. /\ delivery' \in [Deliveries -> Rows] /\ delivery'[p.of].status = "delivering"
        /\ delivery'[p.of].attempts = delivery[p.of].attempts
        /\ \A d \in Deliveries : d # p.of => delivery'[d] = delivery[d]
    BY <1>1, <1>3, <2>2 DEF Rows, DeliveryStatuses
  <2>5. HooksTypeOK'
    BY <1>1, <2>3, <2>4 DEF HooksInv, HooksTypeOK, RunRows, Rows
  <2>6. \A d \in Deliveries : TrueRow(delivery'[d], posts'[d])
    <3>1. TrueRow(delivery'[p.of], posts'[p.of])
      BY <1>1, <1>3, <2>4 DEF HooksInv, TrueRow
    <3> QED
      BY <1>4, <2>4, <3>1, RowKept
  <2>7. TrueHand(x, posts')
    BY <1>1, <1>3, <2>1 DEF TrueHand
  <2>8. \A q \in Runs : TrueHand(run'[q], posts')
    BY <1>1, <2>3, <2>7 DEF HooksInv
  <2>9. \A q \in Runs : ~Owns(run[q], p.of)
    BY <1>3, <1>6 DEF HooksInv, HeldRow
  <2>10. ASSUME NEW d \in Deliveries, NEW q \in Runs, Owns(run'[q], d)
         PROVE  /\ HeldRow(delivery'[d], run'[q].at)
                /\ \A s \in Runs \ {q} : ~Owns(run'[s], d)
    <3>1. Owns(run'[r], d) <=> d = p.of
      BY <2>1, <2>3 DEF Owns
    <3>2. CASE d = p.of
      BY <2>3, <2>4, <2>9, <2>10, <3>1, <3>2 DEF HeldRow
    <3>3. CASE d # p.of
      <4>1. q # r /\ run'[q] = run[q] /\ delivery'[d] = delivery[d]
        BY <2>3, <2>4, <2>10, <3>1, <3>3
      <4>2. /\ HeldRow(delivery[d], run[q].at)
            /\ \A s \in Runs \ {q} : ~Owns(run[s], d)
        BY <2>10, <4>1 DEF HooksInv
      <4> QED
        BY <2>3, <3>1, <3>3, <4>1, <4>2
    <3> QED
      BY <3>2, <3>3
  <2> QED
    BY <2>5, <2>6, <2>8, <2>10 DEF HooksInv
<1> QED
  BY <1>5, <1>6

-----------------------------------------------------------------------------
(* A run that holds a delivery.                                            *)
LEMMA Held ==
  ASSUME HooksInv, NEW r \in Runs, run[r].at # "list"
  PROVE  \E p \in Picks :
           /\ run[r].now = {p} /\ p.of \in Deliveries /\ p.attempts \in Nat
           /\ p.attempts + 1 <= MaxAttempts /\ HeldRow(delivery[p.of], run[r].at)
           /\ Owns(run[r], p.of)
<1>1. PICK p \in Picks : run[r].now = {p}
  BY DEF HooksInv, TrueHand
<1>2. p.of \in Deliveries /\ p.attempts \in Nat /\ p.attempts + 1 <= MaxAttempts
  BY WebhooksAssumption DEF Picks
<1>3. Owns(run[r], p.of)
  BY <1>1 DEF Owns
<1> QED
  BY <1>1, <1>2, <1>3 DEF HooksInv

(* Back to the list, having written the row it held or nothing.            *)
LEMMA LeaveStep ==
  ASSUME HooksInv, NEW r \in Runs, NEW todo \in SUBSET run[r].todo,
         run' = [run EXCEPT ![r] = AtList(todo)], hooks' = hooks, posts' = posts,
         delivery' \in [Deliveries -> Rows],
         \A d \in Deliveries :
           delivery'[d] = delivery[d] \/ (Owns(run[r], d) /\ TrueRow(delivery'[d], posts'[d]))
  PROVE  HooksInv'
<1> DEFINE x == AtList(todo)
<1>1. run[r] \in RunRows /\ TrueHand(run[r], posts) /\ PostsGrow
  BY Types, PostsSame DEF HooksInv
<1>2. /\ x \in RunRows /\ x.at = "list" /\ x.now = {} /\ x.todo \subseteq run[r].todo
      /\ run' = [run EXCEPT ![r] = x]
  BY <1>1 DEF AtList, RunRows
<1> HIDE DEF x
<1>3. TrueHand(x, posts')
  BY <1>1, <1>2 DEF TrueHand
<1> QED
  BY <1>1, <1>2, <1>3, OwnStep

(* On to another step of the delivery in hand.                             *)
LEMMA StayStep ==
  ASSUME HooksInv, NEW r \in Runs, run[r].at # "list",
         NEW step \in Busy, At(r, step), hooks' = hooks, PostsGrow,
         delivery' \in [Deliveries -> Rows],
         \A d \in Deliveries :
           delivery'[d] = delivery[d] \/ (Owns(run[r], d) /\ TrueRow(delivery'[d], posts'[d])),
         \A p \in run[r].now :
           /\ HeldRow(delivery'[p.of], step)
           /\ step \in {"took", "count", "refused"} => p.attempts + 1 <= posts'[p.of].times
           /\ step \in {"took", "count"} => posts'[p.of].took
  PROVE  HooksInv'
<1> DEFINE x == [run[r] EXCEPT !.at = step]
<1>1. run[r] \in RunRows /\ TrueHand(run[r], posts')
  BY Types, HandKept DEF HooksInv
<1>2. /\ x \in RunRows /\ x.at = step /\ x.now = run[r].now /\ x.todo = run[r].todo
      /\ run' = [run EXCEPT ![r] = x] /\ step # "list"
  BY <1>1 DEF RunRows, At, Busy
<1> HIDE DEF x
<1>3. TrueHand(x, posts')
  BY <1>1, <1>2 DEF TrueHand
<1> QED
  BY <1>2, <1>3, OwnStep

-----------------------------------------------------------------------------
(* The steps of a run that holds a delivery.                               *)
LEMMA PostStep ==
  ASSUME HooksInv, NEW r \in Runs, Post(r)
  PROVE  HooksInv'
<1>1. run[r].at = "post" /\ run[r].at # "list" /\ hooks' = hooks /\ delivery' = delivery
  BY DEF Post
<1>2. PICK p \in Picks :
        /\ run[r].now = {p} /\ p.of \in Deliveries /\ p.attempts \in Nat
        /\ p.attempts + 1 <= MaxAttempts /\ HeldRow(delivery[p.of], run[r].at)
        /\ Owns(run[r], p.of)
  BY <1>1, Held
<1>3. delivery' \in [Deliveries -> Rows]
  BY <1>1, Types
<1>4. CASE Leave(r) /\ UNCHANGED posts
  <2>1. run[r].todo \in SUBSET run[r].todo
    OBVIOUS
  <2> QED
    BY <1>1, <1>3, <1>4, <2>1, LeaveStep DEF Leave
<1>5. ASSUME NEW step \in {"took", "refused"}, NEW taken \in BOOLEAN, At(r, step),
             step = "took" => taken, posts[p.of].took => taken,
             posts' = [posts EXCEPT ![p.of] = Posted(posts[p.of], taken)]
      PROVE  HooksInv'
  <2> DEFINE n == Posted(posts[p.of], taken)
  <2>1. posts \in [Deliveries -> PostRows] /\ MaxAttempts \in Nat /\ posts[p.of] \in PostRows
        /\ p.attempts <= posts[p.of].times
    BY <1>2, Types DEF HooksInv, TrueHand
  <2>2. posts[p.of].times \in Nat /\ posts[p.of].times <= MaxAttempts
    BY <2>1 DEF PostRows
  <2>3. /\ n \in PostRows /\ n.took = taken /\ n.times \in Nat
        /\ n.times >= posts[p.of].times /\ p.attempts + 1 <= n.times
    BY <1>2, <2>1, <2>2 DEF Posted, PostRows
  <2> HIDE DEF n
  <2>4. posts' = [posts EXCEPT ![p.of] = n]
    BY <1>5 DEF n
  <2>5. /\ posts' \in [Deliveries -> PostRows] /\ posts'[p.of] = n
        /\ \A d \in Deliveries : d # p.of => posts'[d] = posts[d]
    BY <1>2, <2>1, <2>3, <2>4
  <2>6. PostsGrow
    BY <1>5, <2>3, <2>5, Types DEF PostsGrow
  <2>7. step \in Busy
    BY <1>5 DEF Busy
  <2>8. HeldRow(delivery'[p.of], step)
    BY <1>1, <1>2 DEF HeldRow
  <2>9. p.attempts + 1 <= posts'[p.of].times /\ (step \in {"took", "count"} => posts'[p.of].took)
    BY <1>5, <2>3, <2>5
  <2> QED
    BY <1>1, <1>2, <1>3, <1>5, <2>6, <2>7, <2>8, <2>9, StayStep
<1>6. posts[p.of].took \in BOOLEAN
  BY <1>2, Types DEF PostRows
<1>7. \/ Leave(r) /\ UNCHANGED posts
      \/ At(r, "took") /\ posts' = [posts EXCEPT ![p.of] = Posted(posts[p.of], TRUE)]
      \/ At(r, "refused") /\ posts' = [posts EXCEPT ![p.of] = Posted(posts[p.of], posts[p.of].took)]
  BY <1>2 DEF Post
<1> QED
  BY <1>4, <1>5, <1>6, <1>7

(* The update by id of the delivery in hand.                               *)
LEMMA Written ==
  ASSUME HooksInv, NEW d \in Deliveries, NEW row \in Rows, Write(d, row)
  PROVE  /\ delivery' \in [Deliveries -> Rows]
         /\ \A e \in Deliveries : e # d => delivery'[e] = delivery[e]
         /\ delivery'[d] = row \/ (delivery'[d] = delivery[d] /\ delivery[d].status = "deleted")
  BY Types DEF Write

LEMMA MarkDeliveredStep ==
  ASSUME HooksInv, NEW r \in Runs, MarkDelivered(r)
  PROVE  HooksInv'
<1>1. run[r].at = "took" /\ run[r].at # "list" /\ hooks' = hooks /\ posts' = posts
      /\ At(r, "count")
  BY DEF MarkDelivered
<1>2. PICK p \in Picks :
        /\ run[r].now = {p} /\ p.of \in Deliveries /\ p.attempts \in Nat
        /\ p.attempts + 1 <= MaxAttempts /\ HeldRow(delivery[p.of], run[r].at)
        /\ Owns(run[r], p.of)
  BY <1>1, Held
<1> DEFINE row == [status |-> "delivered", attempts |-> p.attempts + 1, due |-> FALSE]
<1>3. row \in Rows /\ Write(p.of, row)
  BY <1>2, Types DEF MarkDelivered, Rows, DeliveryStatuses
<1>4. p.attempts + 1 <= posts'[p.of].times /\ posts'[p.of].took
  BY <1>1, <1>2 DEF HooksInv, TrueHand
<1>5. TrueRow(row, posts'[p.of]) /\ HeldRow(row, "count")
  BY <1>4 DEF TrueRow, HeldRow
<1> HIDE DEF row
<1>6. /\ delivery' \in [Deliveries -> Rows]
      /\ \A e \in Deliveries : e # p.of => delivery'[e] = delivery[e]
      /\ delivery'[p.of] = row
         \/ (delivery'[p.of] = delivery[p.of] /\ delivery[p.of].status = "deleted")
  BY <1>2, <1>3, Written
<1>7. HeldRow(delivery'[p.of], "count")
  BY <1>5, <1>6 DEF HeldRow
<1>8. "count" \in Busy /\ PostsGrow
  BY <1>1, PostsSame DEF Busy
<1> QED
  BY <1>1, <1>2, <1>4, <1>5, <1>6, <1>7, <1>8, StayStep

LEMMA MarkRefusedStep ==
  ASSUME HooksInv, NEW r \in Runs, MarkRefused(r)
  PROVE  HooksInv'
<1>1. run[r].at = "refused" /\ run[r].at # "list" /\ hooks' = hooks /\ posts' = posts
      /\ run' = [run EXCEPT ![r] = AtList(run[r].todo)] /\ run[r].todo \in SUBSET run[r].todo
  BY DEF MarkRefused, Leave
<1>2. PICK p \in Picks :
        /\ run[r].now = {p} /\ p.of \in Deliveries /\ p.attempts \in Nat
        /\ p.attempts + 1 <= MaxAttempts /\ HeldRow(delivery[p.of], run[r].at)
        /\ Owns(run[r], p.of)
  BY <1>1, Held
<1> DEFINE row == Outcome(p.attempts + 1)
<1>3. MaxAttempts \in Nat /\ p.attempts + 1 \in 0..MaxAttempts
  BY <1>2, Types
<1>4. row \in Rows /\ Write(p.of, row)
  BY <1>2, <1>3 DEF MarkRefused, Rows, DeliveryStatuses, Outcome
<1>5. p.attempts + 1 <= posts'[p.of].times /\ posts'[p.of].times \in Nat
      /\ posts'[p.of].times <= MaxAttempts
  BY <1>1, <1>2, <1>3, Types DEF HooksInv, TrueHand, PostRows
<1>6. TrueRow(row, posts'[p.of])
  BY <1>2, <1>3, <1>5 DEF TrueRow, Outcome
<1> HIDE DEF row
<1>7. /\ delivery' \in [Deliveries -> Rows]
      /\ \A e \in Deliveries : e # p.of => delivery'[e] = delivery[e]
      /\ delivery'[p.of] = row \/ delivery'[p.of] = delivery[p.of]
  BY <1>2, <1>4, Written
<1> QED
  BY <1>1, <1>2, <1>6, <1>7, LeaveStep

(* The steps that write no row.                                            *)
LEMMA QuietStep ==
  ASSUME HooksInv, NEW r \in Runs, List(r) \/ Count(r) \/ DeliveredWriteFails(r) \/ Abandon(r)
  PROVE  HooksInv'
<1>1. hooks' = hooks /\ posts' = posts /\ delivery' \in [Deliveries -> Rows]
      /\ delivery' = delivery /\ PostsGrow
  BY Types, PostsSame DEF List, Count, DeliveredWriteFails, Abandon
<1>2. run[r].todo \in SUBSET run[r].todo /\ {} \in SUBSET run[r].todo
  OBVIOUS
<1>3. CASE Leave(r)
  BY <1>1, <1>2, <1>3, LeaveStep DEF Leave
<1>4. CASE run' = [run EXCEPT ![r] = AtList({})]
  BY <1>1, <1>2, <1>4, LeaveStep
<1>5. CASE DeliveredWriteFails(r)
  <2>1. run[r].at \in {"took", "count"} /\ run[r].at # "list" /\ At(r, "refused") /\ "refused" \in Busy
    BY <1>5 DEF DeliveredWriteFails, Busy
  <2>2. \A p \in run[r].now :
          HeldRow(delivery'[p.of], "refused") /\ p.attempts + 1 <= posts'[p.of].times
    <3>1. PICK p \in Picks :
            run[r].now = {p} /\ p.of \in Deliveries /\ HeldRow(delivery[p.of], run[r].at)
      BY <2>1, Held
    <3> QED
      BY <1>1, <2>1, <3>1 DEF HooksInv, TrueHand, HeldRow
  <2> QED
    BY <1>1, <2>1, <2>2, StayStep
<1>6. CASE List(r)
  <2> DEFINE todo == {[of |-> d, attempts |-> delivery[d].attempts] : d \in Due}
             x == AtList(todo)
  <2>1. run' = [run EXCEPT ![r] = x]
    BY <1>6 DEF List
  <2>2. \A d \in Due : d \in Deliveries /\ delivery[d].attempts \in 0..(MaxAttempts - 1)
                       /\ delivery[d].attempts <= posts[d].times
    BY Types DEF Due, HooksInv, TrueRow
  <2>3. todo \subseteq Picks /\ \A p \in todo : p.attempts <= posts[p.of].times
    BY <2>2 DEF Picks
  <2> HIDE DEF todo
  <2>4. x \in RunRows /\ x.now = {} /\ x.at = "list" /\ TrueHand(x, posts')
    BY <1>1, <2>3 DEF AtList, RunRows, TrueHand
  <2> HIDE DEF x
  <2> QED
    BY <1>1, <2>1, <2>4, OwnStep
<1> QED
  BY <1>3, <1>4, <1>5, <1>6 DEF Count, Abandon

-----------------------------------------------------------------------------
(* Everybody else: queues rows that are not there, ends a back-off, and    *)
(* deletes, which leaves what was counted.                                 *)
LEMMA OutsideStep ==
  ASSUME HooksInv, run' = run, posts' = posts, hooks' \subseteq Hooks,
         delivery' \in [Deliveries -> Rows],
         \A d \in Deliveries :
           \/ delivery'[d] = delivery[d]
           \/ delivery[d].status = "none" /\ delivery'[d] = Fresh
           \/ /\ delivery[d].status = "pending" /\ delivery'[d].status = "pending"
              /\ delivery'[d].attempts = delivery[d].attempts
           \/ /\ delivery'[d].status = "deleted"
              /\ delivery'[d].attempts = delivery[d].attempts
  PROVE  HooksInv'
<1>1. HooksTypeOK'
  BY DEF HooksInv, HooksTypeOK, Rows
<1>2. ASSUME NEW d \in Deliveries
      PROVE  TrueRow(delivery'[d], posts'[d])
  <2>1. TrueRow(delivery[d], posts[d]) /\ posts[d].times \in Nat /\ MaxAttempts \in Nat \ {0}
    BY Types, WebhooksAssumption DEF HooksInv
  <2> QED
    BY <2>1 DEF TrueRow, Fresh
<1>3. ASSUME NEW d \in Deliveries, NEW r \in Runs, Owns(run[r], d)
      PROVE  HeldRow(delivery'[d], run[r].at)
  BY <1>3 DEF HooksInv, HeldRow
<1> QED
  BY <1>1, <1>2, <1>3 DEF HooksInv

LEMMA QueueStep ==
  ASSUME HooksInv, NEW e \in Events, NEW hs, QueueFor(e, hs), UNCHANGED <<hooks, run, posts>>
  PROVE  HooksInv'
<1>1. Fresh \in Rows
  BY Types DEF Fresh, Rows, DeliveryStatuses
<1>2. \A d \in Deliveries : \/ delivery'[d] = delivery[d]
                            \/ delivery[d].status = "none" /\ delivery'[d] = Fresh
  BY DEF QueueFor
<1>3. delivery' \in [Deliveries -> Rows]
  BY <1>1, Types DEF QueueFor
<1>4. hooks' \subseteq Hooks /\ run' = run /\ posts' = posts
  BY DEF HooksInv, HooksTypeOK
<1> QED
  BY <1>2, <1>3, <1>4, OutsideStep

LEMMA DeleteStep ==
  ASSUME HooksInv, NEW h \in Hooks, DeleteHook(h)
  PROVE  HooksInv'
<1>1. ASSUME NEW d \in Deliveries
      PROVE  /\ delivery'[d] \in Rows
             /\ \/ delivery'[d] = delivery[d]
                \/ /\ delivery'[d].status = "deleted"
                   /\ delivery'[d].attempts = delivery[d].attempts
  <2>1. delivery[d] \in Rows
    BY Types
  <2>2. /\ [delivery[d] EXCEPT !.status = "deleted"] \in Rows
        /\ [delivery[d] EXCEPT !.status = "deleted"].status = "deleted"
        /\ [delivery[d] EXCEPT !.status = "deleted"].attempts = delivery[d].attempts
    BY <2>1 DEF Rows, DeliveryStatuses
  <2>3. delivery'[d] = delivery[d] \/ delivery'[d] = [delivery[d] EXCEPT !.status = "deleted"]
    BY DEF DeleteHook
  <2> QED
    BY <2>1, <2>2, <2>3
<1>2. delivery' \in [Deliveries -> Rows]
  BY <1>1 DEF DeleteHook
<1>3. hooks' \subseteq Hooks /\ run' = run /\ posts' = posts
  BY DEF DeleteHook, HooksInv, HooksTypeOK
<1> QED
  BY <1>1, <1>2, <1>3, OutsideStep

LEMMA BackOffStep ==
  ASSUME HooksInv, NEW d \in Deliveries, BackOffEnds(d)
  PROVE  HooksInv'
<1>1. /\ delivery \in [Deliveries -> Rows]
      /\ delivery' = [delivery EXCEPT ![d].due = TRUE] /\ delivery[d].status = "pending"
      /\ run' = run /\ posts' = posts /\ hooks' \subseteq Hooks
  BY Types DEF BackOffEnds, HooksInv, HooksTypeOK
<1>2. /\ delivery' \in [Deliveries -> Rows] /\ delivery'[d].status = "pending"
      /\ delivery'[d].attempts = delivery[d].attempts
      /\ \A e \in Deliveries : e # d => delivery'[e] = delivery[e]
  BY <1>1 DEF Rows
<1> QED
  BY <1>1, <1>2, OutsideStep

-----------------------------------------------------------------------------
(* The messages' steps queue at most.                                      *)
LEMMA AnnounceKeeps ==
  ASSUME HooksInv, NEW h, NEW e \in Events, NEW next, Announce(h, e, next)
  PROVE  HooksInv'
  BY QueueStep DEF Announce

LEMMA EventsOfHandlers ==
  /\ \A s \in Sends : SentEvent(s) \in Events
  /\ \A a \in Arrivals : ReceivedEvent(a) \in Events
  /\ \A r \in Receipts : StatusEvent(About[r], Fate[r]) \in Events
  BY MessagingAssumption

LEMMA Stuttered ==
  ASSUME HooksInv, UNCHANGED hookvars
  PROVE  HooksInv'
  BY DEF hookvars, HooksInv, HooksTypeOK

LEMMA MessagesKeep ==
  ASSUME HooksInv, MessageStep
  PROVE  HooksInv'
<1>1. CASE \E s \in Sends : Admit(s) \/ TryCarrier(s) \/ NoCarrier(s) \/ SaveSent(s) \/ AnnounceSent(s)
  BY <1>1, Stuttered, AnnounceKeeps, EventsOfHandlers
     DEF Admit, TryCarrier, NoCarrier, SaveSent, AnnounceSent
<1>2. CASE \E a \in Arrivals : LookUp(a) \/ MarkSeen(a) \/ FindReceived(a) \/ SaveReceived(a)
                               \/ AnnounceReceived(a) \/ Analyse(a)
  BY <1>2, Stuttered, AnnounceKeeps, EventsOfHandlers
     DEF LookUp, MarkSeen, FindReceived, SaveReceived, AnnounceReceived, Analyse
<1>3. CASE \E u \in Users : MarkRead(u) \/ \E a \in Arrivals : ReadRow(u, a)
  BY <1>3, Stuttered DEF MarkRead, ReadRow
<1>4. CASE \E r \in Receipts : ReadStatus(r) \/ SaveStatus(r) \/ AnnounceStatus(r)
  BY <1>4, Stuttered, AnnounceKeeps, EventsOfHandlers
     DEF ReadStatus, SaveStatus, AnnounceStatus
<1>5. CASE \E h \in Handlers : Stop(h)
  BY <1>5, Stuttered DEF Stop
<1> QED
  BY <1>1, <1>2, <1>3, <1>4, <1>5 DEF MessageStep

LEMMA HooksInvInductive ==
  ASSUME HooksInv, [Next]_vars
  PROVE  HooksInv'
<1>1. CASE MessageStep
  BY <1>1, MessagesKeep
<1>2. ASSUME NEW r \in Runs, RunStep(r)
      PROVE  HooksInv'
  BY <1>2, QuietStep, ClaimStep, PostStep, MarkDeliveredStep, MarkRefusedStep DEF RunStep
<1>3. CASE WebhookStep
  BY <1>2, <1>3, QuietStep, BackOffStep, DeleteStep DEF WebhookStep
<1>4. CASE UNCHANGED vars
  BY <1>4, Stuttered DEF vars
<1> QED
  BY <1>1, <1>3, <1>4 DEF Next

LEMMA HooksInvInitial ==
  ASSUME InitHooks
  PROVE  HooksInv
<1>1. MaxAttempts \in Nat \ {0} /\ NoDelivery \in Rows
  BY WebhooksAssumption DEF NoDelivery, Rows, DeliveryStatuses
<1>2. HooksTypeOK
  BY <1>1 DEF InitHooks, HooksTypeOK, Rows, AtList
<1>3. \A d \in Deliveries : TrueRow(delivery[d], posts[d])
  BY <1>1 DEF InitHooks, TrueRow, NoDelivery
<1>4. \A r \in Runs : run[r].now = {} /\ run[r].todo = {} /\ run[r].at = "list"
  BY DEF InitHooks, AtList
<1> QED
  BY <1>2, <1>3, <1>4 DEF HooksInv, TrueHand, Owns

LEMMA HooksInvAlways == Spec => []HooksInv
<1>1. Init => HooksInv
  BY HooksInvInitial DEF Init
<1>2. HooksInv /\ [Next]_vars => HooksInv'
  BY HooksInvInductive
<1> QED
  BY <1>1, <1>2, PTL DEF Spec

(* Of all overlapping runs of the job that listed a delivery, one works on *)
(* it at a time, and only while the row says so (the conditional update of *)
(* processDueDeveloperWebhookDeliveries).                                  *)
THEOREM OneRunPerDelivery == Spec => []OneAtATime
<1>1. HooksInv => OneAtATime
  BY DEF HooksInv, OneAtATime, Owns, Holding, HeldRow
<1> QED
  BY <1>1, HooksInvAlways, PTL

(* A delivery marked delivered was taken by its endpoint, and one given up *)
(* was posted MAX_DELIVERY_ATTEMPTS times, although every run writes the   *)
(* count of the list it took (deliverWebhook).                             *)
THEOREM SettledRowsAreTrue == Spec => []SettledIsTrue
<1>1. HooksInv => SettledIsTrue
  BY DEF HooksInv, SettledIsTrue, TrueRow
<1> QED
  BY <1>1, HooksInvAlways, PTL
-----------------------------------------------------------------------------
(* Texts.  A callback that got past the unique event_id is the only one    *)
(* with its id that ever does, whatever is in hand, stored or queued by    *)
(* it; and the status of a text is on its way to the webhooks, or there.   *)

MessageStatuses == {"none", "received", "read"} \cup Fates
MessageRow(ids) == [status : MessageStatuses, id : ids, analysed : BOOLEAN]
ReaderRow(ids) ==
  [at : {"idle", "save", "done"}, of : Arrivals \cup {"none"}, saw : MessageRow(ids)]

(* A carrier's id of a text may be anything.                               *)
RowsAreRows ==
  \E ids : message \in [Messages -> MessageRow(ids)] /\ reader \in [Users -> ReaderRow(ids)]

(* A reader that will save read a text that was stored.                    *)
ReadsStored ==
  \A u \in Users : reader[u].at = "save" =>
    reader[u].of \in Arrivals /\ message[reader[u].of].status # "none"

TextTypes == handler \in [Handlers -> Places] /\ RowsAreRows /\ ReadsStored

InHand(a) == handler[a] \in {"find", "save", "announce", "analyse"}

(* The callback got past its id: it is in hand, or left a row or an event. *)
Received(a) ==
  \/ InHand(a)
  \/ message[a].status # "none"
  \/ \E d \in Deliveries : d[1] = ReceivedEvent(a) /\ delivery[d].status # "none"

TextsOnce ==
  /\ \A a \in Arrivals : Received(a) => Callback[a] \in seen
  /\ \A a, b \in Arrivals : a # b /\ Callback[a] = Callback[b] => ~(Received(a) /\ Received(b))

TextInv == TextTypes /\ TextsOnce /\ StatusIsTold

(* The two ways in which a status of a text is told.                       *)
Announcing(s, status) ==
  \E r \in Receipts : About[r] = s /\ Fate[r] = status /\ handler[r] = "announce"
Queued(e) == \A h \in Subscribers[e] \cap hooks : delivery[<<e, h>>].status # "none"

-----------------------------------------------------------------------------
(* What keeps the parts of the invariant.                                  *)

LEMMA EventsDiffer ==
  /\ \A a, b \in Arrivals : ReceivedEvent(a) = ReceivedEvent(b) => a = b
  /\ \A a \in Arrivals, s \in Sends : ReceivedEvent(a) # SentEvent(s)
  /\ \A a \in Arrivals, r \in Receipts : ReceivedEvent(a) # StatusEvent(About[r], Fate[r])
  BY DEF ReceivedEvent, SentEvent, StatusEvent

(* A row of delivery never goes back to none.                              *)
DeliveriesStay ==
  \A d \in Deliveries : delivery[d].status # "none" => delivery'[d].status # "none"

LEMMA OnceKept ==
  ASSUME TextsOnce, seen \subseteq seen', \A a \in Arrivals : Received(a)' => Received(a)
  PROVE  TextsOnce'
  BY DEF TextsOnce

(* A step that tells of no new status, or gives one to be announced.       *)
LEMMA ToldKept ==
  ASSUME StatusIsTold, hooks' \subseteq hooks, untold \subseteq untold', DeliveriesStay,
         \A s \in Sends : \/ message'[s].status = message[s].status
                          \/ message'[s].status = Answered[s]
                          \/ Announcing(s, message[s].status)',
         \A r \in Receipts : handler[r] = "announce" =>
           \/ handler'[r] = "announce"
           \/ StatusEvent(About[r], Fate[r]) \in untold'
           \/ Queued(StatusEvent(About[r], Fate[r]))'
  PROVE  StatusIsTold'
<1> SUFFICES ASSUME NEW s \in Sends, NEW w, w = message'[s].status, w # Answered[s],
                    StatusEvent(s, w) \notin untold',
                    NEW q \in Receipts, About[q] = s, Fate[q] = w
             PROVE  Announcing(s, w)' \/ Queued(StatusEvent(s, w))'
  BY DEF StatusIsTold, Announcing, Queued, StatusEvent
<1>1. CASE Announcing(s, message[s].status)'
  BY <1>1
<1>2. CASE w = message[s].status
  <2>1. Announcing(s, w) \/ Queued(StatusEvent(s, w))
    BY <1>2 DEF StatusIsTold, Announcing, Queued, StatusEvent
  <2>2. CASE Announcing(s, w)
    <3>1. PICK r \in Receipts : About[r] = s /\ Fate[r] = w /\ handler[r] = "announce"
      BY <2>2 DEF Announcing
    <3> QED
      BY <3>1 DEF Announcing
  <2>3. CASE Queued(StatusEvent(s, w))
    <3>1. StatusEvent(s, w) \in Events
      BY EventsOfHandlers
    <3>2. \A h \in Subscribers[StatusEvent(s, w)] : <<StatusEvent(s, w), h>> \in Deliveries
      BY <3>1, WebhooksAssumption DEF Deliveries
    <3> QED
      BY <2>3, <3>2 DEF Queued, DeliveriesStay
  <2> QED
    BY <2>1, <2>2, <2>3
<1> QED
  BY <1>1, <1>2

(* One handler goes on, and no row changes.                                *)
LEMMA HandlerMoves ==
  ASSUME TextInv, NEW h \in Handlers, NEW next \in Places,
         handler' = handler \/ Step(h, next),
         h \in Arrivals /\ next \in {"find", "save", "announce", "analyse"} => InHand(h),
         h \in Receipts /\ handler[h] = "announce" =>
           StatusEvent(About[h], Fate[h]) \in untold',
         untold \subseteq untold', seen \subseteq seen',
         UNCHANGED <<hooks, delivery, message, reader>>
  PROVE  TextInv'
<1>1. handler \in [Handlers -> Places] /\ Arrivals \subseteq Handlers /\ Receipts \subseteq Handlers
  BY DEF TextInv, TextTypes, Handlers
<1>2. /\ handler' \in [Handlers -> Places]
      /\ \A g \in Handlers : handler'[g] = handler[g] \/ (g = h /\ handler'[g] = next)
  BY <1>1 DEF Step
<1>3. TextTypes'
  BY <1>2 DEF TextInv, TextTypes, RowsAreRows, ReadsStored
<1>4. TextsOnce'
  <2>1. \A a \in Arrivals : Received(a)' => Received(a)
    BY <1>1, <1>2 DEF Received, InHand
  <2> QED
    BY <2>1, OnceKept DEF TextInv
<1>5. StatusIsTold'
  <2>1. DeliveriesStay /\ hooks' \subseteq hooks
    BY DEF DeliveriesStay
  <2>2. \A r \in Receipts : handler[r] = "announce" =>
          handler'[r] = "announce" \/ StatusEvent(About[r], Fate[r]) \in untold'
    BY <1>1, <1>2
  <2>3. \A s \in Sends : message'[s].status = message[s].status
    OBVIOUS
  <2> QED
    BY <2>1, <2>2, <2>3, ToldKept DEF TextInv
<1> QED
  BY <1>3, <1>4, <1>5 DEF TextInv

(* One row is written, by a handler that goes on to next or by a reader.   *)
LEMMA RowWritten ==
  ASSUME TextInv, NEW x \in Messages, NEW ids, NEW row \in MessageRow(ids),
         message \in [Messages -> MessageRow(ids)], reader \in [Users -> ReaderRow(ids)],
         message' = [message EXCEPT ![x] = row],
         row.status # "none",
         handler' \in [Handlers -> Places],
         reader' = reader \/ \E u \in Users : reader' = [reader EXCEPT ![u].at = "done"],
         x \in Arrivals => Received(x),
         x \in Sends => \/ row.status = message[x].status
                        \/ row.status = Answered[x]
                        \/ Announcing(x, row.status)',
         \A a \in Arrivals : InHand(a)' => InHand(a),
         \A r \in Receipts : handler[r] = "announce" => handler'[r] = "announce",
         UNCHANGED <<hooks, delivery, seen, untold>>
  PROVE  TextInv'
<1>1. /\ message' \in [Messages -> MessageRow(ids)] /\ message'[x] = row
      /\ \A y \in Messages : y # x => message'[y] = message[y]
      /\ Arrivals \subseteq Messages /\ Sends \subseteq Messages
  BY DEF Messages
<1>2. /\ reader' \in [Users -> ReaderRow(ids)]
      /\ \A u \in Users : reader'[u].at = "save" => reader'[u] = reader[u]
  <2>1. CASE reader' = reader
    BY <2>1
  <2>2. ASSUME NEW u \in Users, reader' = [reader EXCEPT ![u].at = "done"]
        PROVE  <1>2!1 /\ <1>2!2
    BY <2>2 DEF ReaderRow
  <2> QED
    BY <2>1, <2>2
<1>3. TextTypes'
  <2>1. RowsAreRows'
    BY <1>1, <1>2 DEF RowsAreRows
  <2>2. ReadsStored'
    BY <1>1, <1>2 DEF TextInv, TextTypes, ReadsStored
  <2> QED
    BY <2>1, <2>2 DEF TextTypes
<1>4. TextsOnce'
  <2>1. \A a \in Arrivals : Received(a)' => Received(a)
    BY <1>1 DEF Received
  <2> QED
    BY <2>1, OnceKept DEF TextInv
<1>5. StatusIsTold'
  <2>1. DeliveriesStay /\ hooks' \subseteq hooks /\ untold \subseteq untold'
    BY DEF DeliveriesStay
  <2>2. \A s \in Sends : \/ message'[s].status = message[s].status
                         \/ message'[s].status = Answered[s]
                         \/ Announcing(s, message[s].status)'
    BY <1>1
  <2> QED
    BY <2>1, <2>2, ToldKept DEF TextInv
<1> QED
  BY <1>3, <1>4, <1>5 DEF TextInv

-----------------------------------------------------------------------------
(* The steps.                                                              *)

LEMMA HandlerKinds ==
  /\ Sends \subseteq Handlers /\ Arrivals \subseteq Handlers /\ Receipts \subseteq Handlers
  /\ Sends \subseteq Messages /\ Arrivals \subseteq Messages
  /\ \A s \in Sends : s \notin Arrivals /\ s \notin Receipts
  /\ \A a \in Arrivals : a \notin Sends /\ a \notin Receipts
  /\ \A r \in Receipts : r \notin Sends /\ r \notin Arrivals
  BY MessagingAssumption DEF Handlers, Messages

(* A handler that goes on.                                                 *)
LEMMA GoesOn ==
  ASSUME TextInv, NEW h \in Handlers, NEW from, NEW next \in Places, Goes(h, from, next)
  PROVE  /\ handler' \in [Handlers -> Places] /\ handler[h] = from /\ handler'[h] = next
         /\ \A g \in Handlers : g # h => handler'[g] = handler[g]
  BY DEF Goes, Step, TextInv, TextTypes

(* A send that goes on without a write.                                    *)
LEMMA SendMoves ==
  ASSUME TextInv, NEW s \in Sends, Admit(s) \/ TryCarrier(s) \/ NoCarrier(s)
  PROVE  TextInv'
<1>1. \E next \in Places : handler' = handler \/ Step(s, next)
  BY DEF Admit, TryCarrier, NoCarrier, Goes, Places
<1>2. UNCHANGED <<hooks, delivery, message, reader, untold, seen>>
  BY DEF Admit, TryCarrier, NoCarrier, hookvars
<1> QED
  BY <1>1, <1>2, HandlerKinds, HandlerMoves

LEMMA ArrivalMoves ==
  ASSUME TextInv, NEW a \in Arrivals,
         LookUp(a) \/ (MarkSeen(a) /\ Callback[a] \in seen) \/ FindReceived(a)
  PROVE  TextInv'
<1>1. PICK next \in Places :
        Step(a, next) /\ (next \in {"find", "save", "announce", "analyse"} => InHand(a))
  BY DEF LookUp, MarkSeen, FindReceived, Goes, Places, InHand
<1>2. UNCHANGED <<hooks, delivery, message, reader, untold>> /\ seen \subseteq seen'
  BY DEF LookUp, MarkSeen, FindReceived, hookvars
<1> QED
  BY <1>1, <1>2, HandlerKinds, HandlerMoves

LEMMA ReceiptMoves ==
  ASSUME TextInv, NEW r \in Receipts, ReadStatus(r)
  PROVE  TextInv'
<1>1. \E next \in Places : Step(r, next)
  BY DEF ReadStatus, Places
<1>2. UNCHANGED <<hooks, delivery, message, reader, untold, seen>> /\ handler[r] # "announce"
  BY DEF ReadStatus, hookvars
<1> QED
  BY <1>1, <1>2, HandlerKinds, HandlerMoves

LEMMA StopMoves ==
  ASSUME TextInv, NEW h \in Handlers, Stop(h)
  PROVE  TextInv'
<1>1. Step(h, "done") /\ "done" \in Places
  BY DEF Stop, Places
<1>2. UNCHANGED <<hooks, delivery, message, reader, seen>> /\ untold \subseteq untold'
  BY DEF Stop, hookvars
<1>3. h \in Receipts /\ handler[h] = "announce" =>
        StatusEvent(About[h], Fate[h]) \in untold'
  BY HandlerKinds DEF Stop
<1> QED
  BY <1>1, <1>2, <1>3, HandlerMoves

(* Past the unique event_id: nobody with this id was there before.         *)
LEMMA MarkStep ==
  ASSUME TextInv, NEW a \in Arrivals, MarkSeen(a), Callback[a] \notin seen
  PROVE  TextInv'
<1>1. /\ Goes(a, "mark", "find") /\ "find" \in Places /\ seen' = seen \cup {Callback[a]}
      /\ UNCHANGED <<hooks, delivery, message, reader, untold>>
  BY DEF MarkSeen, hookvars, Places
<1>2. /\ handler' \in [Handlers -> Places] /\ handler[a] = "mark"
      /\ \A g \in Handlers : g # a => handler'[g] = handler[g]
  BY <1>1, HandlerKinds, GoesOn
<1>3. TextTypes'
  BY <1>1, <1>2 DEF TextInv, TextTypes, RowsAreRows, ReadsStored
<1>4. TextsOnce'
  <2>1. \A b \in Arrivals : b # a => (Received(b)' => Received(b))
    BY <1>1, <1>2, HandlerKinds DEF Received, InHand
  <2>2. \A b \in Arrivals : Received(b) => Callback[b] \in seen /\ Callback[b] # Callback[a]
    BY DEF TextInv, TextsOnce
  <2> QED
    BY <1>1, <2>1, <2>2 DEF TextInv, TextsOnce
<1>5. StatusIsTold'
  <2>1. DeliveriesStay /\ hooks' \subseteq hooks /\ untold \subseteq untold'
    BY <1>1 DEF DeliveriesStay
  <2>2. \A r \in Receipts : handler[r] = "announce" => handler'[r] = "announce"
    BY <1>2, HandlerKinds
  <2> QED
    BY <1>1, <2>1, <2>2, ToldKept DEF TextInv
<1> QED
  BY <1>3, <1>4, <1>5 DEF TextInv

(* An event is queued, or its failure to be queued is remembered.          *)
LEMMA AnnounceStep ==
  ASSUME TextInv, NEW h \in Handlers, NEW e \in Events, NEW next \in {"analyse", "done"},
         Announce(h, e, next),
         h \in Arrivals => e = ReceivedEvent(h),
         \A a \in Arrivals : e = ReceivedEvent(a) => h = a,
         h \in Receipts => e = StatusEvent(About[h], Fate[h]),
         next = "analyse" => h \in Arrivals
  PROVE  TextInv'
<1>1. /\ Goes(h, "announce", next) /\ next \in Places
      /\ UNCHANGED <<hooks, message, seen, reader>>
  BY DEF Announce, Places
<1>2. /\ handler' \in [Handlers -> Places] /\ handler[h] = "announce" /\ handler'[h] = next
      /\ \A g \in Handlers : g # h => handler'[g] = handler[g]
  BY <1>1, GoesOn
<1>3. /\ \A d \in Deliveries : d[1] # e => delivery'[d] = delivery[d]
      /\ DeliveriesStay
      /\ untold \subseteq untold'
      /\ e \in untold' \/ QueueFor(e, Subscribed(e))
  <2>1. PICK hs : QueueFor(e, hs)
    BY DEF Announce
  <2>2. \A d \in Deliveries : d[1] # e => delivery'[d] = delivery[d]
    BY <2>1 DEF QueueFor
  <2>3. DeliveriesStay
    BY <2>1 DEF QueueFor, DeliveriesStay, Fresh
  <2> QED
    BY <2>2, <2>3 DEF Announce
<1>4. QueueFor(e, Subscribed(e)) => Queued(e)'
  <2> SUFFICES ASSUME QueueFor(e, Subscribed(e)), NEW g \in Subscribers[e] \cap hooks
               PROVE  delivery'[<<e, g>>].status # "none"
    BY <1>1 DEF Queued
  <2>1. <<e, g>> \in Deliveries /\ g \in Subscribed(e)
    BY WebhooksAssumption DEF Deliveries, Subscribed
  <2> QED
    BY <2>1 DEF QueueFor, Fresh
<1>5. TextTypes'
  BY <1>1, <1>2 DEF TextInv, TextTypes, RowsAreRows, ReadsStored
<1>6. TextsOnce'
  <2>1. ASSUME NEW a \in Arrivals, Received(a)'
        PROVE  Received(a)
    <3>1. CASE a = h
      BY <1>2, <3>1 DEF Received, InHand
    <3>2. CASE a # h
      <4>1. \A d \in Deliveries : d[1] = ReceivedEvent(a) => delivery'[d] = delivery[d]
        BY <1>3, <3>2
      <4>2. handler'[a] = handler[a]
        BY <1>2, <3>2, HandlerKinds
      <4> QED
        BY <1>1, <2>1, <4>1, <4>2 DEF Received, InHand
    <3> QED
      BY <3>1, <3>2
  <2> QED
    BY <1>1, <2>1, OnceKept DEF TextInv
<1>7. StatusIsTold'
  <2>1. \A r \in Receipts : handler[r] = "announce" =>
          \/ handler'[r] = "announce"
          \/ StatusEvent(About[r], Fate[r]) \in untold'
          \/ Queued(StatusEvent(About[r], Fate[r]))'
    BY <1>2, <1>3, <1>4, HandlerKinds
  <2>2. hooks' \subseteq hooks /\ \A s \in Sends : message'[s].status = message[s].status
    BY <1>1
  <2> QED
    BY <1>3, <2>1, <2>2, ToldKept DEF TextInv
<1> QED
  BY <1>5, <1>6, <1>7 DEF TextInv

LEMMA AnnounceSteps ==
  ASSUME TextInv,
         \/ \E s \in Sends : AnnounceSent(s)
         \/ \E a \in Arrivals : AnnounceReceived(a)
         \/ \E r \in Receipts : AnnounceStatus(r)
  PROVE  TextInv'
<1>1. ASSUME NEW s \in Sends, AnnounceSent(s)
      PROVE  TextInv'
  BY <1>1, AnnounceStep, EventsOfHandlers, EventsDiffer, HandlerKinds DEF AnnounceSent
<1>2. ASSUME NEW a \in Arrivals, AnnounceReceived(a)
      PROVE  TextInv'
  BY <1>2, AnnounceStep, EventsOfHandlers, EventsDiffer, HandlerKinds DEF AnnounceReceived
<1>3. ASSUME NEW r \in Receipts, AnnounceStatus(r)
      PROVE  TextInv'
  BY <1>3, AnnounceStep, EventsOfHandlers, EventsDiffer, HandlerKinds DEF AnnounceStatus
<1> QED
  BY <1>1, <1>2, <1>3

(* The rows that are written.                                              *)
LEMMA SaveSentStep ==
  ASSUME TextInv, NEW s \in Sends, SaveSent(s)
  PROVE  TextInv'
<1> DEFINE id == Id(s, Head(left[s]))
           row == [status |-> Answered[s], id |-> id, analysed |-> FALSE]
<1>1. PICK ids : message \in [Messages -> MessageRow(ids)] /\ reader \in [Users -> ReaderRow(ids)]
  BY DEF TextInv, TextTypes, RowsAreRows
<1> DEFINE more == ids \cup {id}
<1>2. /\ message \in [Messages -> MessageRow(more)] /\ reader \in [Users -> ReaderRow(more)]
      /\ row \in MessageRow(more) /\ row.status = Answered[s] /\ row.status # "none"
  <2>1. Answered[s] \in Fates
    BY MessagingAssumption
  <2> QED
    BY <1>1, <2>1 DEF MessageRow, ReaderRow, MessageStatuses, Fates
<1>3. /\ message' = [message EXCEPT ![s] = row] /\ reader' = reader
      /\ UNCHANGED <<hooks, delivery, seen, untold>>
      /\ Goes(s, "save", "announce") /\ "announce" \in Places
  BY DEF SaveSent, hookvars, Places
<1> HIDE DEF row, more
<1>4. /\ handler' \in [Handlers -> Places]
      /\ \A g \in Handlers : g # s => handler'[g] = handler[g]
  BY <1>3, GoesOn, HandlerKinds
<1>5. /\ \A a \in Arrivals : InHand(a)' => InHand(a)
      /\ \A r \in Receipts : handler[r] = "announce" => handler'[r] = "announce"
  BY <1>4, HandlerKinds DEF InHand
<1> QED
  BY <1>2, <1>3, <1>4, <1>5, HandlerKinds, RowWritten

LEMMA SaveReceivedStep ==
  ASSUME TextInv, NEW a \in Arrivals, SaveReceived(a)
  PROVE  TextInv'
<1> DEFINE row == [status |-> "received", id |-> Text[a], analysed |-> FALSE]
<1>1. PICK ids : message \in [Messages -> MessageRow(ids)] /\ reader \in [Users -> ReaderRow(ids)]
  BY DEF TextInv, TextTypes, RowsAreRows
<1> DEFINE more == ids \cup {Text[a]}
<1>2. /\ message \in [Messages -> MessageRow(more)] /\ reader \in [Users -> ReaderRow(more)]
      /\ row \in MessageRow(more) /\ row.status = "received"
  BY <1>1 DEF MessageRow, ReaderRow, MessageStatuses
<1>3. /\ message' = [message EXCEPT ![a] = row] /\ reader' = reader
      /\ UNCHANGED <<hooks, delivery, seen, untold>>
      /\ Goes(a, "save", "announce") /\ "announce" \in Places
  BY DEF SaveReceived, hookvars, Places
<1> HIDE DEF row, more
<1>4. /\ handler' \in [Handlers -> Places] /\ handler[a] = "save"
      /\ \A g \in Handlers : g # a => handler'[g] = handler[g]
  BY <1>3, GoesOn, HandlerKinds
<1>5. /\ InHand(a) /\ Received(a)
      /\ \A b \in Arrivals : InHand(b)' => InHand(b)
      /\ \A r \in Receipts : handler[r] = "announce" => handler'[r] = "announce"
  BY <1>4, HandlerKinds DEF InHand, Received
<1> QED
  BY <1>2, <1>3, <1>4, <1>5, HandlerKinds, RowWritten

LEMMA AnalyseStep ==
  ASSUME TextInv, NEW a \in Arrivals, Analyse(a)
  PROVE  TextInv'
<1>1. /\ UNCHANGED <<hooks, delivery, seen, reader, untold>>
      /\ Goes(a, "analyse", "done") /\ "done" \in Places
  BY DEF Analyse, hookvars, Places
<1>2. /\ handler' \in [Handlers -> Places] /\ handler[a] = "analyse"
      /\ \A g \in Handlers : g # a => handler'[g] = handler[g]
  BY <1>1, GoesOn, HandlerKinds
<1>3. CASE UNCHANGED message
  BY <1>1, <1>3, HandlerKinds, HandlerMoves DEF Goes
<1>4. ASSUME NEW x \in Stored, message' = [message EXCEPT ![x].analysed = TRUE]
      PROVE  TextInv'
  <2> DEFINE row == [message[x] EXCEPT !.analysed = TRUE]
  <2>1. PICK ids : message \in [Messages -> MessageRow(ids)] /\ reader \in [Users -> ReaderRow(ids)]
    BY DEF TextInv, TextTypes, RowsAreRows
  <2>2. /\ x \in Messages /\ row \in MessageRow(ids) /\ row.status = message[x].status
        /\ row.status # "none" /\ message' = [message EXCEPT ![x] = row]
    BY <1>4, <2>1 DEF Stored, MessageRow
  <2> HIDE DEF row
  <2>3. /\ x \in Arrivals => Received(x)
        /\ \A b \in Arrivals : InHand(b)' => InHand(b)
        /\ \A r \in Receipts : handler[r] = "announce" => handler'[r] = "announce"
    BY <1>2, <2>2, HandlerKinds DEF Received, InHand
  <2> QED
    BY <1>1, <1>2, <2>1, <2>2, <2>3, RowWritten
<1> QED
  BY <1>3, <1>4 DEF Analyse

LEMMA ReadRowStep ==
  ASSUME TextInv, NEW u \in Users, NEW a \in Arrivals, ReadRow(u, a)
  PROVE  TextInv'
<1> DEFINE row == [at |-> "save", of |-> a, saw |-> message[a]]
<1>1. PICK ids : message \in [Messages -> MessageRow(ids)] /\ reader \in [Users -> ReaderRow(ids)]
  BY DEF TextInv, TextTypes, RowsAreRows
<1>2. /\ row \in ReaderRow(ids) /\ row.of = a /\ message[a].status # "none"
      /\ reader' = [reader EXCEPT ![u] = row]
      /\ UNCHANGED <<hooks, delivery, handler, message, seen, untold>>
  BY <1>1, HandlerKinds DEF ReadRow, ReaderRow, hookvars
<1> HIDE DEF row
<1>3. /\ reader' \in [Users -> ReaderRow(ids)]
      /\ \A v \in Users : reader'[v] = reader[v] \/ reader'[v].of = a
  BY <1>1, <1>2
<1>4. TextTypes'
  <2>1. RowsAreRows'
    BY <1>1, <1>2, <1>3 DEF RowsAreRows
  <2>2. ReadsStored'
    BY <1>2, <1>3 DEF TextInv, TextTypes, ReadsStored
  <2> QED
    BY <1>2, <2>1, <2>2 DEF TextInv, TextTypes
<1>5. TextsOnce' /\ StatusIsTold'
  BY <1>2 DEF TextInv, TextsOnce, Received, InHand, StatusIsTold
<1> QED
  BY <1>4, <1>5 DEF TextInv

LEMMA MarkReadStep ==
  ASSUME TextInv, NEW u \in Users, MarkRead(u)
  PROVE  TextInv'
<1>1. PICK ids : message \in [Messages -> MessageRow(ids)] /\ reader \in [Users -> ReaderRow(ids)]
  BY DEF TextInv, TextTypes, RowsAreRows
<1> DEFINE a == reader[u].of
           row == [reader[u].saw EXCEPT !.status = "read"]
<1>2. a \in Arrivals /\ message[a].status # "none"
  BY DEF TextInv, TextTypes, ReadsStored, MarkRead
<1>3. /\ row \in MessageRow(ids) /\ row.status = "read"
      /\ message' = [message EXCEPT ![a] = row]
      /\ reader' = [reader EXCEPT ![u].at = "done"]
      /\ UNCHANGED <<hooks, delivery, handler, seen, untold>>
  BY <1>1 DEF MarkRead, ReaderRow, MessageRow, MessageStatuses, hookvars
<1> HIDE DEF a, row
<1>4. Received(a) /\ handler' \in [Handlers -> Places]
  BY <1>2, <1>3 DEF Received, TextInv, TextTypes
<1>5. \A b \in Arrivals : InHand(b)' => InHand(b)
  BY <1>3 DEF InHand
<1> QED
  BY <1>1, <1>2, <1>3, <1>4, <1>5, HandlerKinds, RowWritten

LEMMA SaveStatusStep ==
  ASSUME TextInv, NEW r \in Receipts, SaveStatus(r)
  PROVE  TextInv'
<1>1. PICK ids : message \in [Messages -> MessageRow(ids)] /\ reader \in [Users -> ReaderRow(ids)]
  BY DEF TextInv, TextTypes, RowsAreRows
<1> DEFINE s == About[r]
           row == [message[s] EXCEPT !.status = Fate[r]]
<1>2. s \in Sends /\ Fate[r] \in Fates
  BY MessagingAssumption
<1>3. /\ row \in MessageRow(ids) /\ row.status = Fate[r]
      /\ message' = [message EXCEPT ![s] = row] /\ reader' = reader
      /\ UNCHANGED <<hooks, delivery, seen, untold>>
      /\ Goes(r, "save", "announce") /\ "announce" \in Places
  BY <1>1, <1>2, HandlerKinds DEF SaveStatus, MessageRow, MessageStatuses, hookvars, Places
<1>4. Fate[r] # "none"
  BY <1>2 DEF Fates
<1>5. /\ handler' \in [Handlers -> Places] /\ handler'[r] = "announce"
      /\ \A g \in Handlers : g # r => handler'[g] = handler[g]
  BY <1>3, GoesOn, HandlerKinds
<1>6. /\ Announcing(s, Fate[r])'
      /\ \A b \in Arrivals : InHand(b)' => InHand(b)
      /\ \A q \in Receipts : handler[q] = "announce" => handler'[q] = "announce"
  BY <1>5, HandlerKinds DEF Announcing, InHand
<1> HIDE DEF s, row
<1> QED
  BY <1>1, <1>2, <1>3, <1>4, <1>5, <1>6, HandlerKinds, RowWritten

-----------------------------------------------------------------------------
(* The job and the deletion of a webhook leave no row of delivery undone:  *)
(* what a run writes is a delivery it holds.                               *)
LEMMA WebhooksKeepRows ==
  ASSUME HooksInv, WebhookStep
  PROVE  /\ hooks' \subseteq hooks
         /\ \A d \in Deliveries : delivery'[d].status = "none" <=> delivery[d].status = "none"
<1>1. delivery \in [Deliveries -> Rows]
  BY Types
<1>2. CASE UNCHANGED delivery /\ UNCHANGED hooks
  BY <1>2
<1>3. ASSUME NEW r \in Runs, Claim(r)
      PROVE  /\ hooks' = hooks
             /\ \A d \in Deliveries : delivery'[d].status = "none" <=> delivery[d].status = "none"
  <2>1. PICK p \in run[r].todo :
          \/ UNCHANGED delivery
          \/ /\ delivery[p.of].status = "pending"
             /\ delivery' = [delivery EXCEPT ![p.of].status = "delivering"]
    BY <1>3 DEF Claim
  <2>2. p.of \in Deliveries
    BY Types DEF RunRows, Picks
  <2> QED
    BY <1>1, <1>3, <2>1, <2>2 DEF Claim, Rows
<1>4. ASSUME NEW r \in Runs, MarkDelivered(r) \/ MarkRefused(r)
      PROVE  /\ hooks' = hooks
             /\ \A d \in Deliveries : delivery'[d].status = "none" <=> delivery[d].status = "none"
  <2>1. run[r].at # "list"
    BY <1>4 DEF MarkDelivered, MarkRefused
  <2>2. PICK p \in Picks : /\ run[r].now = {p} /\ p.of \in Deliveries
                           /\ HeldRow(delivery[p.of], run[r].at)
    BY <2>1, Held
  <2>3. PICK row : row.status # "none" /\ Write(p.of, row)
    BY <1>4, <2>2 DEF MarkDelivered, MarkRefused, Outcome
  <2>4. \A d \in Deliveries : delivery'[d] = delivery[d] \/ (d = p.of /\ delivery'[d] = row)
    BY <1>1, <2>2, <2>3 DEF Write
  <2>5. delivery[p.of].status # "none"
    BY <2>2 DEF HeldRow
  <2> QED
    BY <1>4, <2>3, <2>4, <2>5 DEF MarkDelivered, MarkRefused
<1>5. ASSUME NEW d \in Deliveries, BackOffEnds(d)
      PROVE  /\ hooks' = hooks
             /\ \A e \in Deliveries : delivery'[e].status = "none" <=> delivery[e].status = "none"
  BY <1>1, <1>5 DEF BackOffEnds, Rows
<1>6. ASSUME NEW h \in Hooks, DeleteHook(h)
      PROVE  /\ hooks' \subseteq hooks
             /\ \A d \in Deliveries : delivery'[d].status = "none" <=> delivery[d].status = "none"
  <2>1. ASSUME NEW d \in Deliveries
        PROVE  delivery'[d].status = "none" <=> delivery[d].status = "none"
    <3>1. delivery[d] \in Rows
      BY <1>1
    <3>2. [delivery[d] EXCEPT !.status = "deleted"].status = "deleted"
      BY <3>1 DEF Rows
    <3>3. \/ delivery'[d] = delivery[d]
          \/ /\ delivery[d].status # "none"
             /\ delivery'[d] = [delivery[d] EXCEPT !.status = "deleted"]
      BY <1>6 DEF DeleteHook
    <3> QED
      BY <3>2, <3>3
  <2> QED
    BY <1>6, <2>1 DEF DeleteHook
<1> QED
  BY <1>2, <1>3, <1>4, <1>5, <1>6
     DEF WebhookStep, RunStep, List, Post, Count, DeliveredWriteFails, Abandon

LEMMA TextsOutside ==
  ASSUME TextInv, UNCHANGED mvars, hooks' \subseteq hooks,
         \A d \in Deliveries : delivery'[d].status = "none" <=> delivery[d].status = "none"
  PROVE  TextInv'
<1>1. UNCHANGED <<handler, message, reader, seen, untold>>
  BY DEF mvars
<1>2. TextTypes'
  BY <1>1 DEF TextInv, TextTypes, RowsAreRows, ReadsStored
<1>3. TextsOnce'
  <2>1. \A a \in Arrivals : Received(a)' => Received(a)
    BY <1>1 DEF Received, InHand
  <2> QED
    BY <1>1, <2>1, OnceKept DEF TextInv
<1>4. StatusIsTold'
  BY <1>1, ToldKept DEF TextInv, DeliveriesStay
<1> QED
  BY <1>2, <1>3, <1>4 DEF TextInv

LEMMA TextInvInductive ==
  ASSUME HooksInv, TextInv, [Next]_vars
  PROVE  TextInv'
<1>1. ASSUME NEW s \in Sends,
             Admit(s) \/ TryCarrier(s) \/ NoCarrier(s) \/ SaveSent(s) \/ AnnounceSent(s)
      PROVE  TextInv'
  BY <1>1, SendMoves, SaveSentStep, AnnounceSteps
<1>2. ASSUME NEW a \in Arrivals,
             LookUp(a) \/ MarkSeen(a) \/ FindReceived(a) \/ SaveReceived(a)
             \/ AnnounceReceived(a) \/ Analyse(a)
      PROVE  TextInv'
  BY <1>2, ArrivalMoves, MarkStep, SaveReceivedStep, AnnounceSteps, AnalyseStep
<1>3. ASSUME NEW u \in Users, MarkRead(u) \/ \E a \in Arrivals : ReadRow(u, a)
      PROVE  TextInv'
  BY <1>3, MarkReadStep, ReadRowStep
<1>4. ASSUME NEW r \in Receipts, ReadStatus(r) \/ SaveStatus(r) \/ AnnounceStatus(r)
      PROVE  TextInv'
  BY <1>4, ReceiptMoves, SaveStatusStep, AnnounceSteps
<1>5. ASSUME NEW h \in Handlers, Stop(h)
      PROVE  TextInv'
  BY <1>5, StopMoves
<1>6. CASE WebhookStep
  BY <1>6, WebhooksKeepRows, TextsOutside DEF WebhookStep
<1>7. CASE UNCHANGED vars
  BY <1>7, TextsOutside DEF vars, hookvars
<1> QED
  BY <1>1, <1>2, <1>3, <1>4, <1>5, <1>6, <1>7 DEF Next, MessageStep

LEMMA TextInvInitial ==
  ASSUME Init
  PROVE  TextInv
<1>1. NoMessage \in MessageRow({NoId}) /\ NoMessage.status = "none"
  BY DEF NoMessage, MessageRow, MessageStatuses
<1>2. /\ handler \in [Handlers -> Places] /\ \A h \in Handlers : handler[h] = "idle"
      /\ message \in [Messages -> MessageRow({NoId})]
      /\ \A x \in Messages : message[x].status = "none"
      /\ reader \in [Users -> ReaderRow({NoId})] /\ \A u \in Users : reader[u].at = "idle"
  BY <1>1 DEF Init, InitMessages, Places, ReaderRow
<1>3. \A d \in Deliveries : delivery[d].status = "none"
  BY DEF Init, InitHooks, NoDelivery
<1>4. TextTypes
  BY <1>2 DEF TextTypes, RowsAreRows, ReadsStored
<1>5. TextsOnce
  BY <1>2, <1>3, HandlerKinds DEF TextsOnce, Received, InHand
<1>6. StatusIsTold
  <2>1. \A r \in Receipts : Fate[r] # "none"
    BY MessagingAssumption DEF Fates
  <2> QED
    BY <1>2, <2>1, HandlerKinds DEF StatusIsTold
<1> QED
  BY <1>4, <1>5, <1>6 DEF TextInv

LEMMA TextInvAlways == Spec => []TextInv
<1>1. Init => TextInv
  BY TextInvInitial
<1>2. HooksInv /\ TextInv /\ [Next]_vars => TextInv'
  BY TextInvInductive
<1> QED
  BY <1>1, <1>2, HooksInvAlways, PTL DEF Spec

(* Callbacks with one id, redelivered or side by side, leave one message   *)
(* and one event, through the unique event_id of webhook_dedup alone       *)
(* (storeWebhookEvent): the look-up before it decides nothing.             *)
THEOREM CallbacksReceivedOnce == Spec => []ReceivedOnce
<1>1. TextInv => ReceivedOnce
  BY HandlerKinds DEF TextInv, TextsOnce, ReceivedOnce, Received, Stored
<1> QED
  BY <1>1, TextInvAlways, PTL

(* A status a receipt wrote is told to every webhook that asked for it,    *)
(* unless queueing it failed (updateDeliveryStatus).                       *)
THEOREM StatusesAreTold == Spec => []StatusIsTold
<1>1. TextInv => StatusIsTold
  BY DEF TextInv
<1> QED
  BY <1>1, TextInvAlways, PTL
=============================================================================
