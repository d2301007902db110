--------------------------- MODULE MCAdvertisingSync ---------------------------
EXTENDS AdvertisingSync

(* One page of every collection.                                              *)
OnePage == [p \in Phases |-> 1]
================================================================================
