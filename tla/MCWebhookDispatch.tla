------------------------- MODULE MCWebhookDispatch --------------------------
(* An instance of WebhookDispatch for TLC: the first event goes to both    *)
(* webhooks, the second to one of them.                                    *)
EXTENDS WebhookDispatch

CONSTANTS h1, h2, e1, e2
MCHook == {h1, h2}
MCEvent == {e1, e2}
MCMatches == {<<e1, h1>>, <<e1, h2>>, <<e2, h1>>}
=============================================================================
