------------------------------- MODULE MCAccess -------------------------------
(* Instances of Access for TLC. *)
EXTENDS Access, TLC

CONSTANTS p1, p2, e1, e2, e3, d1, d2, d3, t1, t2, u1, u2, k1

\* A tenant with two domains, a domain of no tenant, a tenant without a domain.
MCDomainOf == e1 :> d1 @@ e2 :> d2 @@ e3 :> d3
MCRegistry == d1 :> t1 @@ d2 :> t1 @@ d3 :> NoTenant

Form(n, e, t, c) == [name |-> n, email |-> e, tenant |-> t, customer |-> c]

\* Two people for one customer, one name for two people, the wrong tenant.
MCForms == {Form(u1, e1, t1, k1), Form(u2, e2, t1, k1), Form(u1, e2, t2, k1)}

MCSymmetry == Permutations(Requests) \cup Permutations(Processes)
=============================================================================
