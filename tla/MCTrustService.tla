--------------------------- MODULE MCTrustService ---------------------------
(* The trust service on a small instance. *)
EXTENDS TrustService

SomeCaps == {"repo.push", "pr.merge", "pr.create"}
SomeRepos == {<<"core", "x">>, <<"core", "x", "y">>, <<"core", "">>}
SomeScopes == {{}, {<<"core", "*">>}, {<<"core", "**">>}}

\* A file that takes pushing from tier 2 and merging from tier 3, and one that
\* would let tier 1 push if its second tier were valid
Tighter ==
  <<[tier |-> 2, policy |-> Policy({"pr.create"}, {}, {"repo.push"})],
    [tier |-> 3, policy |-> Policy({"repo.push"}, {"pr.merge"}, {})]>>
Invalid ==
  <<[tier |-> 1, policy |-> Policy({"repo.push"}, {}, {})],
    [tier |-> 4, policy |-> Policy({}, {}, {})]>>
SomeConfigs == {Tighter, Invalid}
=============================================================================
