----------------------------- MODULE MCDirectory ---------------------------
\* Directory on a small instance: requests, names, dates and e-mails are
\* interchangeable.
EXTENDS Directory, TLC

Symmetry == Permutations(Requests) \cup Permutations(Names)
              \cup Permutations(AdvisorIds) \cup Permutations(ClientIds)
===========================================================================
