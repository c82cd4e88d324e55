----------------------------- MODULE MCMessages -----------------------------
(* Texts, callbacks and deliveries for model checking.                     *)
EXTENDS Messaging, TLC

CONSTANTS h1, h2, x1, x2, u1

MCSends == {"s1", "s2", "s3"}
MCCountry == "s1" :> "GB" @@ "s2" :> "US" @@ "s3" :> "CA"
MCPreferred == "s1" :> AnyCarrier @@ "s2" :> "juicysms" @@ "s3" :> "twilio"
MCMedia == "s1" :> FALSE @@ "s2" :> TRUE @@ "s3" :> FALSE
MCAnswered == "s1" :> "queued" @@ "s2" :> "sent" @@ "s3" :> "queued"

(* One text, called back twice under one id, and once under another.       *)
MCArrivals == {"a1", "a2", "a3"}
MCText == [a \in Arrivals |-> <<"t1", "twilio">>]
MCCallback == "a1" :> "e1" @@ "a2" :> "e1" @@ "a3" :> "e2"

MCReceipts == {"r1", "r2"}
MCAbout == [r \in Receipts |-> "s1"]
MCFate == "r1" :> "delivered" @@ "r2" :> "sent"

(* Two receipts of a text; a text with media; a repeated callback; one     *)
(* text under two ids; overlapping runs.                                   *)
MCTogether == {{"s1", "r1", "r2", x1, h1}, {"s2", x1}, {"a1", "a2", u1, x1},
               {"a1", "a3", x1}, {"s3", x1, x2, h2}}

MCEvents ==
  {SentEvent(s) : s \in Sends} \cup {ReceivedEvent(a) : a \in Arrivals}
  \cup {StatusEvent(About[r], Fate[r]) : r \in Receipts}

(* The user of s3 asks for everything, the other one for all but sending.  *)
MCSubscribers ==
  [e \in Events |-> IF e[2] = "s3" THEN {h2}
                    ELSE IF e[1] = "message.sent" THEN {} ELSE {h1}]
=============================================================================
