------------------------------ MODULE MCIstio ------------------------------
(***************************************************************************)
(* A small instance of IstioGateway for TLC: an app and a router instance  *)
(* of it.                                                                  *)
(***************************************************************************)
EXTENDS IstioProperties

CONSTANTS i1, i2,       \* the app, and its instance
          n1, n2,       \* their names
          h1, h2,       \* their hosts
          c1, c2,       \* CNames
          s1, s2,       \* Services
          o1            \* a host of an operator

AppNames == [i \in Ids |-> n1]
ResourceNames == [i \in Ids |-> IF i = i1 THEN n1 ELSE n2]
GatewayHosts == [i \in Ids |-> IF i = i1 THEN h1 ELSE h2]

Ensure(i, cs, s) == [op |-> "Ensure", id |-> i, cnames |-> cs, service |-> s]
RemoveOf(i) == [op |-> "Remove", id |-> i]

\* CNames come and go, the web Service changes, the instance shares the Gateway.
SomeRequests ==
    {Ensure(i1, {}, s1), Ensure(i1, {c1}, s2), Ensure(i1, {c1, c2}, s1),
     Ensure(i2, {c2}, s1), RemoveOf(i1), RemoveOf(i2)}
=============================================================================
