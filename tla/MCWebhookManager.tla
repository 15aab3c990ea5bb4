--------------------------- MODULE MCWebhookManager ---------------------------
(***************************************************************************)
(* A small instance of WebhookManager.  A tick is ten minutes in the rules *)
(* on expiry and half a minute in the timers: the margin of expiresSoon is *)
(* as short as MarginAssumption lets it be.                                *)
(***************************************************************************)
EXTENDS WebhookManager, TLC

Webhook(service, ca) == [service |-> service, ca |-> ca]

\* As installed; applied again for another service, with the bundle of one
\* webhook kept; and with one webhook, called by its URL.
MCWritten ==
    {"w1" :> Webhook("s1", {}) @@ "w2" :> Webhook("s1", {}),
     "w1" :> Webhook("s1", {1}) @@ "w2" :> Webhook("s2", {}),
     "w1" :> Webhook("", {})}

=============================================================================
