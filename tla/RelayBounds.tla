---------------------------- MODULE RelayBounds ----------------------------
\* The limits on bodies that both relay workers declare at their top.
EXTENDS Naturals

CONSTANTS
    Sizes,        \* sizes of the bodies callers and the backend send
    RequestLimit, \* MAX_REQUEST_BYTES, or requestLimit of the route
    ReplyLimit    \* MAX_RESPONSE_BYTES, or the limit for dynamic or static replies

\* Bodies have natural sizes, and some are empty; the limits admit something.
ASSUME RelayAssumption ==
    /\ Sizes \subseteq Nat /\ 0 \in Sizes
    /\ RequestLimit \in Nat \ {0} /\ ReplyLimit \in Nat \ {0}
=============================================================================
