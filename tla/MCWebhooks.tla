------------------------------ MODULE MCWebhooks ------------------------------
EXTENDS Webhooks

CONSTANTS c1, c2

MCCallers == {c1, c2}
MCNames == {"orders", "news"}
MCTypes == {"webhook.received", "data.insert"}
================================================================================
