------------------------------ MODULE MCFinder ------------------------------
EXTENDS Finder

\* A player names a resource by its id or by a url; the index adds others.
SomeLists == {<<"param", "rid">>, <<"param", "a", "b", "a">>}
\* Both trackers know q.
SomePeers == [t \in 1 .. 2 |-> IF t = 1 THEN {"p", "q"} ELSE {"q"}]
=============================================================================
