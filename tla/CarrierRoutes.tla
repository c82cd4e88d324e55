---------------------------- MODULE CarrierRoutes ----------------------------
(***************************************************************************)
(* The order in which ProviderService tries the carriers, per country.     *)
(*                                                                         *)
(* The health of a carrier is left out: 'degraded' is written when one     *)
(* fails, only 'down' makes the service skip one, and nothing writes that. *)
(***************************************************************************)
EXTENDS Sequences

Conversation == {"bandwidth", "twilio", "telnyx"}

(* Adapters that exist and refuse every text.                              *)
Verification == {"juicysms", "textverified", "smspool", "quackr"}

Carriers == Conversation \cup Verification
AnyCarrier == "any"   \* no preferred carrier

(* CONVERSATION_PROVIDER_PRIORITY.                                         *)
ConversationChain(country) ==
  CASE country = "US" -> <<"bandwidth", "twilio", "telnyx">>
    [] country = "CA" -> <<"telnyx", "bandwidth", "twilio">>
    [] OTHER -> <<"twilio", "telnyx", "bandwidth">>

Others(chain, c) == SelectSeq(chain, LAMBDA x : x # c)

(* selectConversationRoute: the preferred carrier or the first of the      *)
(* chain, then the others in order.                                        *)
Route(country, preferred) ==
  LET chain == ConversationChain(country)
      primary == IF preferred = AnyCarrier THEN Head(chain) ELSE preferred
  IN <<primary>> \o Others(chain, primary)

(* What an adapter can do at all: sendMms knows Twilio only, and the       *)
(* verification services refuse everything.                                *)
CanText(c, media) == IF media THEN c = "twilio" ELSE c \in Conversation

(* The carriers whose adapter places calls; Telnyx's refuses them all.     *)
Voice == {"twilio", "bandwidth"}
=============================================================================
