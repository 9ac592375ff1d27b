------------------------------ MODULE MCRegistry ------------------------------
(* Instances of Registry and the payloads its imports are given. *)
EXTENDS Registry, TLC

At(t, b, s) == [tenant |-> t, branch |-> b, site |-> s]

\* A complete hierarchy; it is rejected half-way where a record exists.
Complete(t, b, s, a, d) ==
    << [kind |-> "tenant", id |-> t],
       [kind |-> "branch", id |-> b, tenant |-> t],
       [kind |-> "site", id |-> s, owner |-> [tenant |-> t, branch |-> b]],
       [kind |-> "asset", id |-> a, location |-> At(t, b, s)],
       [kind |-> "device", id |-> d, location |-> At(t, b, s)] >>

\* A hierarchy whose device names a site of another branch.
Misplaced(t, b, c, s, d) ==
    << [kind |-> "branch", id |-> b, tenant |-> t],
       [kind |-> "site", id |-> s, owner |-> [tenant |-> t, branch |-> b]],
       [kind |-> "device", id |-> d, location |-> At(t, c, s)] >>

Payloads ==
    {Complete(t, b, s, a, d) : t \in Tenant, b \in Branch, s \in Site,
                               a \in Asset, d \in Device}
    \cup {Misplaced(t, b, c, s, d) : t \in Tenant, b \in Branch, c \in Branch,
                                     s \in Site, d \in Device}

\* The payloads are closed under these permutations.
Symmetry == Permutations(Tenant) \cup Permutations(Branch) \cup Permutations(Site)
    \cup Permutations(Asset) \cup Permutations(Device) \cup Permutations(Binding)
=============================================================================
