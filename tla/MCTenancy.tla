----------------------------- MODULE MCTenancy -----------------------------
EXTENDS Tenancy, TLC

\* Users and requests are interchangeable; workspace names are not (one
\* of them is "compute").
UserReqSymmetry == Permutations(Users) \cup Permutations(Req)

=============================================================================
