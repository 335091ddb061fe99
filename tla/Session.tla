------------------------------ MODULE Session ------------------------------
(* What the pages of the frontend share: the user's session.               *)
EXTENDS Naturals

CONSTANTS
  MaxRequests,  \* bound: what the user starts in a session
  None

ASSUME SessionAssumption == MaxRequests \in Nat \ {0}

VARIABLE requests  \* how often the user has started something

Request == requests < MaxRequests /\ requests' = requests + 1
=============================================================================
