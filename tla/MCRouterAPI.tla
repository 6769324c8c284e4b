---------------------------- MODULE MCRouterAPI ----------------------------
(***************************************************************************)
(* A small instance of RouterAPI for TLC.                                  *)
(***************************************************************************)
EXTENDS RouterAPIProperties

CONSTANTS p1, p2

Status(own, path, reports) ==
    [op |-> "Status", own |-> own, checkpath |-> path, reports |-> reports]
Method(own) == [op |-> "Method", own |-> own]

\* One handler answers statuses: with a checkpath, with both halves, with the
\* second half on a service of its own; the other one the other requests.
MixedRequests ==
    [p \in Handlers |->
        IF p = p1
        THEN {Status("no", "yes", "no"), Status("no", "yes", "yes"), Status("yes", "no", "yes")}
        ELSE {Method("no")}]
=============================================================================
