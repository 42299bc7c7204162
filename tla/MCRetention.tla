---------------------------- MODULE MCRetention ----------------------------
(* A boot environment's root on rpool and one dataset of bpool.            *)
EXTENDS Retention

TwoDatasets == <<"a", "b">>
=============================================================================
