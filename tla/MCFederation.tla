---------------------------- MODULE MCFederation ----------------------------
(* Two callers of one source node, two server threads, two requests.       *)
EXTENDS Federation

CONSTANTS c1, c2, h1, h2, r1, r2

OneCaller == {c1}
TwoCallers == {c1, c2}
TwoHandlers == {h1, h2}
OneRequest == {r1}
TwoRequests == {r1, r2}
=============================================================================
