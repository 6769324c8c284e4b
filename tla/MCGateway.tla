----------------------------- MODULE MCGateway -----------------------------
(***************************************************************************)
(* Small instances of GatewayAPI for TLC.                                  *)
(***************************************************************************)
EXTENDS GatewayProperties

CONSTANTS a1, a2,               \* apps, each in a namespace of its own
          default, v1,          \* prefixes
          c1, c2,               \* CNames
          g1, g2,               \* gateways
          na, nb,               \* namespaces
          s1, s2,               \* domain suffixes
          p2                    \* a handler besides the first

NamespaceOf == [app \in Apps |-> IF app = a1 THEN na ELSE nb]
DefaultFlags == [gateway |-> Nil, namespace |-> Nil, suffix |-> s1]

Plain(app) ==
    [op |-> "Ensure", app |-> app, prefixes |-> {default},
     gateway |-> g1, namespace |-> Nil, suffix |-> s1,
     cnames |-> {}, issuers |-> {}, httpOnly |-> FALSE]
RemoveOf(app) == [op |-> "Remove", app |-> app]

\* One app: prefixes and CNames come and go, over HTTPS or not, an issuer is
\* taken away, the gateway changes or is not named.
LifeRequests ==
    {Plain(a1),
     [Plain(a1) EXCEPT !.prefixes = {default, v1}, !.suffix = s2],
     [Plain(a1) EXCEPT !.gateway = g2, !.namespace = nb, !.cnames = {c1}, !.issuers = {c1}],
     [Plain(a1) EXCEPT !.gateway = Nil, !.suffix = Nil, !.cnames = {c1, c2}, !.issuers = {c2}],
     [Plain(a1) EXCEPT !.cnames = {c1}, !.httpOnly = TRUE],
     RemoveOf(a1)}

\* Long sequences of requests run on the first handler; bound: with the second one
\* at work, or used before, there are two requests, and one failure or one write by
\* others.
FewWithSecond ==
    p2 \in Handlers /\ ~At(p2, "idle") => received <= 2 /\ faults + events <= 1

\* Two apps on one service.
TwoAppRequests == {Plain(a1), Plain(a2), RemoveOf(a1), RemoveOf(a2)}
=============================================================================
