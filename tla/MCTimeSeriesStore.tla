-------------------------- MODULE MCTimeSeriesStore --------------------------
(* Bounds for the store under its most general client. *)
EXTENDS TimeSeriesStore

\* Clock readings in four buckets of three days, two of them one tick apart.
MCTimes == {0, 1, 2, 5, 8}
=============================================================================
