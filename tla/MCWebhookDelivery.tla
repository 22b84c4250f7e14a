------------------------- MODULE MCWebhookDelivery -------------------------
(* Instance values the .cfg files of WebhookDelivery choose from.          *)
EXTENDS WebhookDelivery

OneTry == {<<>>}
TwoTries == {<<1>>}
Shrinking == {<<1>>, <<>>}
=============================================================================
