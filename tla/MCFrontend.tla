----------------------------- MODULE MCFrontend -----------------------------
(* Two directories and two projects, one of them in the histories.         *)
EXTENDS Frontend

CONSTANTS A, B, Other

Project(i, root, ready) == [id |-> i, root |-> root, ready |-> ready]
MCStarts ==
  {[projects |-> <<>>, history |-> <<Entry(2, "Q"), Entry(0, "q"), Entry(3, "q")>>,
    conversations |-> <<[project |-> 1, exchanges |-> <<0, 1>>]>>],
   [projects |-> <<Project(2, A, FALSE), Project(1, B, TRUE)>>, history |-> <<>>,
    conversations |-> <<>>]}
MCRoots == {A, B}
MCPages == {"search", "graph"}
MCProjects == {0, 1}
MCQueries == {"", "q", "Q"}
MCLower == [q \in MCQueries |-> IF q = "Q" THEN "q" ELSE q]
MCChatProjects == {1, Other}
=============================================================================
