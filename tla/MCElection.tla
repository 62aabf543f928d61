----------------------------- MODULE MCElection -----------------------------
(* Small instances of Election for TLC.                                    *)
EXTENDS Election

CONSTANTS s1, s2, s3

OneLogId == {[term |-> 1, index |-> 1]}
\* A log whose term the durable term of a restarted server may be behind.
NewerLogIds == {[term |-> 1, index |-> 1], [term |-> 2, index |-> 2]}

\* Which server runs for which term: two rivals in term 2; a leader of term 2
\* whose follower runs for term 3; one server alone.
Rivals == {<<s1, 2>>, <<s3, 2>>}
Successor == {<<s1, 2>>, <<s2, 3>>}
Alone == {<<s1, 2>>}
=============================================================================
