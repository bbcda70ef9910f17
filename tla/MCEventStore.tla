---------------------------- MODULE MCEventStore ----------------------------
(* A small table for EventStore: one prediction a client may store, and one   *)
(* demo event with a seeded outcome, as demo_events gives every third record. *)
(* A replica, a Monitor session and a demo script work on both.               *)
EXTENDS EventStore

CONSTANTS p1, d1, a1, m1, s1

LabelledDemo == <<d1>>

Answers == [id \in DemoIds |-> [predicted |-> TRUE, labelled |-> TRUE, actual |-> FALSE]]
=============================================================================
