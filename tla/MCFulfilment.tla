---------------------------- MODULE MCFulfilment ----------------------------
(* Instances of Fulfilment for TLC. *)
EXTENDS Fulfilment

\* Each tracking id of a carrier of its own.
MCVendorOf == [a \in Awbs |-> a]
=============================================================================
