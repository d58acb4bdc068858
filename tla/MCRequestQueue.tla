---------------------------- MODULE MCRequestQueue ----------------------------
(* One queue for all requests, as the unit tests of the queue use it.       *)
EXTENDS RequestQueue

MCOneQueue == [r \in Requests |-> CHOOSE q \in Queues : TRUE]
=============================================================================
