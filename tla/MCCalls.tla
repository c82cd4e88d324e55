------------------------------ MODULE MCCalls ------------------------------
(***************************************************************************)
(* Instances of CallBilling for TLC: a ringing, a two-minute completion, a *)
(* hang-up without a duration, a word nobody knows, nobody answering.      *)
(***************************************************************************)
EXTENDS CallBilling

CONSTANTS ringing, completed, hangup, unknown, unanswered

Words == [e \in Events |-> CASE e = ringing -> "ring" [] e = completed -> "complete"
                             [] e = hangup -> "hangup" [] e = unanswered -> "no answer"
                             [] e = unknown -> "something else"]
Lengths == [e \in Events |-> IF e = completed THEN 61 ELSE NoSeconds]
AtTwilio == (Events \ {hangup}) \X {"twilio"}
AtBandwidth == ({hangup} \X {"bandwidth", "bandwidth voice"}) \cup {<<completed, "bandwidth voice">>}
AtBoth == AtTwilio \cup AtBandwidth

(* Calls alone, with two requests and two handlers; or the locks of other  *)
(* services beside a call that one request starts and completions end.     *)
VARIABLE scope

InScope ==
  \/ scope = "calls" /\ \A o \in Tasks : other[o] = NoLock /\ <<"refund", o>> \notin keys
  \/ /\ scope = "others" /\ Cardinality({q \in Starters : starter[q] # Idle}) <= 1
     /\ Cardinality({h \in Handlers : handler[h] # Idle}) <= 1
     /\ \A s \in seen : s[2] = completed

MCInit == Init /\ scope \in {"calls", "others"}
MCNext == Next /\ UNCHANGED scope /\ InScope'
MCSpec ==
  /\ MCInit /\ [][MCNext]_<<vars, scope>>
  /\ \A q \in Starters : WF_vars(StartStep(q))
  /\ \A h \in Handlers : WF_vars(Step(h))
=============================================================================
