---------------------------- MODULE MCAdmission ----------------------------
EXTENDS Admission

Limit(global, streamed, perTenant, tenants, queued) ==
  [max_in_flight |-> global, max_in_flight_streams |-> streamed,
   max_in_flight_per_tenant |-> perTenant, max_tenants |-> tenants,
   queue_capacity |-> queued]

\* Every ceiling on, each ceiling and the queue off, and a queue of two.
MCLimits == {Limit(1, 1, 2, 2, 1), Limit(1, 0, 3, 1, 2), Limit(1, 1, 1, 2, 0), Limit(2, 1, 0, 0, 1),
             Limit(0, 1, 0, 0, 0)}
=============================================================================
