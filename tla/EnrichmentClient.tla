-------------------------- MODULE EnrichmentClient --------------------------
(***************************************************************************)
(* enrichment/enrichment-client.ts: what one exchange with the Enrichment  *)
(* API amounts to.  The API, or the network before it, may do anything:    *)
(* answer any status with any body, break off in the middle of one, stall  *)
(* until the client's timeout, or not answer at all.                       *)
(***************************************************************************)
EXTENDS RetryPolicy

Statuses == {"none_timeout", "none_error", "ok", "4xx", "429", "5xx"}

(* store_id is the store that was asked about: "other" is a valid body for  *)
(* another one.                                                             *)
Bodies == {"valid", "other", "off_contract", "not_json", "stalls", "breaks"}

Exchanges == [status : Statuses, body : Bodies]

(* The body of an error is read for its text only, and every failure to     *)
(* read it is caught; that of a 429 is cancelled, and cancelling a body     *)
(* that has broken off throws out of enrich().                              *)
Enrich(x) ==
  CASE x.status \in {"none_timeout", "none_error", "5xx"} -> "unhealthy"
    [] x.status = "429" -> IF x.body = "breaks" THEN "throws" ELSE "rate_limited"
    [] x.status = "4xx" -> "client_error"
    [] x.status = "ok"  -> IF x.body = "valid" THEN "success" ELSE "unhealthy"

EnrichOutcomes == {Enrich(x) : x \in Exchanges}
=============================================================================
