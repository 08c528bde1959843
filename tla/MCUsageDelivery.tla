-------------------------- MODULE MCUsageDelivery --------------------------
EXTENDS UsageDelivery

CONSTANTS e1, e2, e3, k1, k2, c1, c2, w1, w2

Deployment(sent3, second, bad, corrupt, ahead, first, other, size, limit, attempts, how, what) ==
  [events |-> sent3, key |-> [e \in Events |-> IF e \in second THEN k2 ELSE k1],
   bad |-> bad, corrupt |-> corrupt, ahead |-> ahead,
   consumer |-> [w \in Workers |-> IF w = w1 THEN first ELSE other],
   batch |-> size, max_events |-> limit, max_attempts |-> attempts, probe |-> 3,
   policy |-> how, faults |-> what]

Two == {e1, e2}
Three == {e1, e2, e3}

\* Two replicas that drop passes, a caller's two events; an outbox for one event
\* that drops the oldest; an event the destination refuses among its siblings,
\* at once and on its second attempt; events that are corrupt or of a newer
\* build; two consumers and a full outbox; two replicas at events of two keys.
Replicas == Deployment(Two, {}, {}, {}, {}, {c1}, {c1}, 1, 3, 1, "Refuse", {"dropped"})
Dropping == Deployment(Two, {}, {}, {}, {}, {c1}, {}, 1, 1, 1, "DropOldest", {"append", "unheard"})
Refusing == Deployment(Three, {e2}, {e2}, {}, {}, {c1}, {}, 2, 3, 1, "Refuse", {"verdict"})
Retrying == Deployment(Three, {e2}, {e2}, {}, {}, {c1}, {}, 2, 3, 2, "Refuse", {})
Unreadable == Deployment(Three, {e2}, {}, {e1}, {e3}, {c1}, {}, 2, 2, 1, "Refuse", {})
Consuming == Deployment(Two, {}, {}, {}, {}, {c1}, {c2}, 1, 1, 1, "Refuse", {})
Contending == Deployment(Two, {e2}, {}, {}, {}, {c1}, {c1}, 1, 3, 1, "Refuse", {})
Pair == Deployment(Two, {}, {}, {}, {}, {}, {}, 1, 3, 1, "Refuse", {})
Undelivered == Deployment(Three, {}, {}, {}, {}, {}, {}, 1, 3, 1, "Refuse", {})

MCConfigs ==
  {Replicas, Dropping, Refusing, Retrying, Unreadable, Consuming, Contending, Pair, Undelivered}

Queues(j, isBilling, isBlocking, room, rowsMax, size, most) ==
  [journal |-> j, billing |-> isBilling, blocking |-> isBlocking,
   capacity |-> room, index_batch |-> rowsMax, buffer |-> size, max_batch |-> most]

\* The journal alone; with the index of a PostgreSQL Store; a SQLite index alone;
\* a buffer alone.
MCSetups ==
  {Queues(j, TRUE, TRUE, 0, 0, 0, 0) : j \in MCConfigs \ {Pair, Undelivered}}
    \cup {Queues(Pair, TRUE, FALSE, 2, 1, 0, 0), Queues(Undelivered, FALSE, TRUE, 2, 2, 0, 0),
          Queues(Undelivered, FALSE, TRUE, 0, 0, 2, 2)}
=============================================================================
