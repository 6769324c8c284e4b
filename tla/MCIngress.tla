----------------------------- MODULE MCIngress -----------------------------
(***************************************************************************)
(* Small instances of IngressService for TLC: one operator per mix of      *)
(* requests, chosen in the configurations.                                 *)
(***************************************************************************)
EXTENDS IngressProperties

CONSTANTS a1, a2,       \* apps
          x,            \* a second host of app a1, from a prefix
          c1, c2,       \* CNames
          r1, r2        \* routes

\* The Ensure that asks for the CNames cs, those in is with an issuer.
Plain(app, cs, is) ==
    [op |-> "Ensure", app |-> app, hosts |-> {app}, route |-> r1,
     cnames |-> cs, issuers |-> is,
     acme |-> FALSE, acmeCName |-> FALSE, httpOnly |-> FALSE]

RemoveOf(app) == [op |-> "Remove", app |-> app]
AddCert(app, h) == [op |-> "AddCertificate", app |-> app, host |-> h]
RemoveCert(app, h) == [op |-> "RemoveCertificate", app |-> app, host |-> h]

OneHost == [app \in Apps |-> {app}]
TwoHosts == [app \in Apps |-> IF app = a1 THEN {a1, x} ELSE {app}]

\* One app: CNames attached, detached, issued, no longer issued, turned to
\* HTTP only; certificates added and removed by hand; Remove.
LifeRequests ==
    {Plain(a1, {}, {}), Plain(a1, {c1}, {}), Plain(a1, {c1}, {c1}), Plain(a1, CNames, {}),
     [Plain(a1, {c1}, {c1}) EXCEPT !.httpOnly = TRUE],
     RemoveOf(a1),
     AddCert(a1, c1), RemoveCert(a1, c1), AddCert(a1, a1), RemoveCert(a1, a1)}

\* The same with a second app, which takes a CName with a Certificate over.
TakenOverRequests ==
    (LifeRequests \ {Plain(a1, CNames, {})})
        \cup {Plain(a1, CNames, {c2}), Plain(a2, {c2}, {})}

\* Requests that meet on the same ingresses, with several hosts and ACME.
RaceRequests ==
    {Plain(a1, {c1}, {}), Plain(a1, {}, {}),
     [Plain(a1, {c1}, {}) EXCEPT !.acmeCName = TRUE, !.route = r2],
     [Plain(a1, {c1}, {}) EXCEPT !.acme = TRUE],
     [Plain(a1, {c1}, {}) EXCEPT !.hosts = {a1, x}],
     RemoveOf(a1),
     AddCert(a1, c1), RemoveCert(a1, c1),
     AddCert(a1, a1), RemoveCert(a1, a1), AddCert(a1, x), RemoveCert(a1, x)}

\* Two apps, one of which may take the other's CName over, with certificates and
\* a second host.
MixedRequests ==
    {Plain(a1, {c1}, {}), Plain(a1, {}, {}), Plain(a2, {c1}, {}),
     [Plain(a1, {c1}, {}) EXCEPT !.hosts = {a1, x}],
     RemoveOf(a1), RemoveOf(a2),
     AddCert(a1, c1), RemoveCert(a1, c1), AddCert(a1, x)}
=============================================================================
