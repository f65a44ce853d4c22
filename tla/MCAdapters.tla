----------------------------- MODULE MCAdapters -----------------------------
EXTENDS Adapters

\* Two replicas.  The first has two versions and may move to a third endpoint.
MCRegistrations ==
    {[id |-> "olt0", version |-> v, endpoint |-> "e0"] : v \in {1, 2}}
    \cup {[id |-> "olt0", version |-> 2, endpoint |-> "e2"],
          [id |-> "olt1", version |-> 1, endpoint |-> "e1"]}

\* The core has never run, or it knows both replicas.
MCStarts ==
    {[a \in Adapters |-> None],
     [a \in Adapters |-> CHOOSE x \in MCRegistrations :
                           x.id = a /\ x.version = 1]}
=============================================================================
