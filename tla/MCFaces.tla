------------------------------ MODULE MCFaces ------------------------------
EXTENDS Faces

CONSTANTS s1, s2

Service(k, s, o) == [kind |-> k, session |-> s, org |-> o]
MCListed == {Service("bare", s1, "o1"), Service("deployment", s1, "none"),
             Service("deployment", s2, "o1")}
MCWants == {<<>>, [kind |-> "deployment"], [org |-> "o1"]}

\* Names that differ by case or separators only, and names that no workspace
\* may have: with a colon, or ending like a lock file.
Triples(C) == C \X C \X C
MCWorkspaces ==
  Triples({<<"a">>, <<"A">>, <<"a", "-", "a">>})
  \cup Triples({<<"a">>, <<"a", ".", "b">>, <<"a", ":", "a">>})
  \cup Triples({<<"a">>, <<"a", ".lock">>})
MCTags ==
  {<<"a">>, <<"a", "/", "b">>, <<"a", ":", "b">>, <<"a", ":", "1">>,
   <<"localhost", "/", "a">>, <<"a", ".", "b", "/", "a">>}
=============================================================================
