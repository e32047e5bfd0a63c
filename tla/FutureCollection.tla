-------------------------- MODULE FutureCollection --------------------------
(***************************************************************************)
(* The correlation-id table of pending request futures                     *)
(* (sawtooth_validator.server.future.FutureCollection).  That module is    *)
(* not part of the sources at hand, so it is modelled from the spec        *)
(* (section 4.1).  A table is a function from correlation id to the state  *)
(* of the future registered under it.                                      *)
(*                                                                         *)
(* network.py calls FutureCollection.get(cid) right after set_result(cid)  *)
(* (line 202), so a resolved entry is kept rather than consumed.           *)
(***************************************************************************)
LOCAL INSTANCE TLC

Pending  == "pending"
Resolved == "resolved"

\* A fresh FutureCollection().
NoFutures == [c \in {} |-> Pending]

\* FutureCollection.put(Future(cid)).
PutFuture(tbl, cid) == (cid :> Pending) @@ tbl

\* The test set_result makes before raising FutureCollectionKeyError.
HasFuture(tbl, cid) == cid \in DOMAIN tbl

\* FutureCollection.set_result(cid, result) on a known cid.
SetResult(tbl, cid) == [tbl EXCEPT ![cid] = Resolved]

\* Correlation ids whose future has not been given a result.
PendingIds(tbl) == {c \in DOMAIN tbl : tbl[c] = Pending}
=============================================================================
