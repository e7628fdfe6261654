------------------------------- MODULE Client -------------------------------
(***************************************************************************)
(* The HTTP client (src/client.c) as its callers see it: one POST gives    *)
(* back a status, 0 standing for "no response" (no DSN, DNS, connection,   *)
(* TLS, timeout), and the status decides what becomes of the payload.      *)
(* What travels in the request is left out.  A failed attempt may still    *)
(* have reached the server (the reply was lost, or came after the          *)
(* timeout), so callers that retry must expect the server to hold a copy.  *)
(***************************************************************************)
EXTENDS Integers

CONSTANT Statuses   \* the HTTP statuses the server may answer with, and 0

\* What post_json returns when no HTTP response came back at all.
NoResponse == 0

ASSUME StatusesAssumption == Statuses \subseteq Nat /\ NoResponse \in Statuses

Delivered == "delivered"
Rejected  == "rejected"
Failed    == "failed"

\* What becomes of a payload, whichever forgeops_client_deliver_* posted it.
DeliveryOutcomes == {Delivered, Rejected, Failed}

\* forgeops_delivery_outcome_for_status: 408 (request timeout) and 429 (too
\* many requests) may work later, every other 4xx never will.
OutcomeForStatus(status) ==
  CASE status \in 200..299                -> Delivered
    [] status \in (400..499) \ {408, 429} -> Rejected
    [] OTHER                              -> Failed

=============================================================================
