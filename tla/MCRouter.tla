------------------------------- MODULE MCRouter -------------------------------
(* Instances of Router for TLC. *)
EXTENDS Router

F(levels) == [share |-> "", levels |-> levels]

G(levels) == [share |-> "g", levels |-> levels]

\* A filter above and one below a level, a wildcard in another shard, and a
\* shared group.
AllFilters == {F(<<"a">>), F(<<"a", "#">>), F(<<"+">>), G(<<"a">>)}
AllTopics  == {<<"a">>, <<"a", "b">>}
Shard      == [l \in {"a", "+"} |-> IF l = "a" THEN 1 ELSE 2]

AllRequests ==
  {[filter |-> F(<<"a">>), qos |-> 0], [filter |-> F(<<"a", "#">>), qos |-> 1],
   [filter |-> F(<<"+">>), qos |-> 0], [filter |-> G(<<"a">>), qos |-> 1]}

\* Two clients on one filter.
PruneFilters  == {F(<<"a">>)}
PruneRequests == {[filter |-> F(<<"a">>), qos |-> 1]}
=============================================================================
