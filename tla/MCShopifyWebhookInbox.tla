------------------------ MODULE MCShopifyWebhookInbox ------------------------
(* Small instances of ShopifyWebhookInbox for TLC. *)
EXTENDS ShopifyWebhookInbox, TLC

Symmetry == Permutations(Requests) \cup Permutations(Payloads)
=============================================================================
