----------------------------- MODULE Idempotency -----------------------------
(***************************************************************************)
(* The idempotency records every writing request goes through              *)
(* (idempotency/service.py).  A record is found by owner, route and key;   *)
(* claim() locks the row of the canonical user first, so that the requests *)
(* of one owner that carry a key run one after the other, each in a        *)
(* transaction of its own.  A request that fails rolls its claim back.     *)
(*                                                                         *)
(* The records of one owner are a set of [route, key, body, result].  Only *)
(* completed records are ever seen by another request: the claim and its   *)
(* completion commit together.                                             *)
(***************************************************************************)

Request(route, key, body) == [route |-> route, key |-> key, body |-> body]

\* The record of the request's route and key, whatever its body: at most one.
Held(records, req) ==
    {r \in records : r.route = req.route /\ r.key = req.key}

\* claim() inserts a record: there was none, or it had expired and is deleted.  Else it
\* returns the stored response, or raises IdempotencyConflict for another body.
Fresh(records, req) == Held(records, req) = {}

\* complete() stores status and response on the claimed record.
Completed(records, req, result) ==
    records \cup {[route |-> req.route, key |-> req.key,
                   body |-> req.body, result |-> result]}

\* Twenty-four hours later the record counts for nothing.
Expired(records, r) == records \ {r}
==============================================================================
