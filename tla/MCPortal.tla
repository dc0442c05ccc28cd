------------------------------ MODULE MCPortal ------------------------------
\* Small instances of the portal for TLC.
EXTENDS Portal, TLC

\* No definition names an owner, a secret, a browser or a request.
PortalSymmetry ==
    Permutations(Owners) \cup Permutations(FlowIds) \cup Permutations(Tokens)
      \cup Permutations(Browsers) \cup Permutations(Requests)

=============================================================================
