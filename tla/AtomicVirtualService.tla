------------------------ MODULE AtomicVirtualService ------------------------
(***************************************************************************)
(* What the Istio backend promises of each VirtualService: every request   *)
(* takes effect on it at once, on the one that is there then.  Of the      *)
(* hosts, an app owns its CNames, which an Ensure replaces by those it is  *)
(* asked for; all else that is there stays there.                          *)
(***************************************************************************)
CONSTANTS Nil, Names, Mesh,
          Wanted,       \* Wanted[n]: what an Ensure may ask of n
          ByHand        \* hosts that operators add

VARIABLE object         \* object[n]: Nil or [cnames, hosts, routes, gateways]

Empty == [cnames |-> {}, hosts |-> {}, routes |-> {}, gateways |-> {Mesh}]

Becomes(n, o) == object' = [object EXCEPT ![n] = o]

Publish(n, w) ==
    LET o == IF object[n] = Nil THEN Empty ELSE object[n] IN
    Becomes(n, [cnames |-> w.cnames,
                hosts |-> (o.hosts \ o.cnames) \cup w.cnames \cup {w.host, w.service},
                routes |-> o.routes \cup {w.service},
                gateways |-> o.gateways \cup {n}])

\* Removal takes the Gateway out, and never the VirtualService away.
Detach(n) == object[n] # Nil /\ Becomes(n, [object[n] EXCEPT !.gateways = @ \ {n}])

AddHost(n, host) == object[n] # Nil /\ Becomes(n, [object[n] EXCEPT !.hosts = @ \cup {host}])
Vanish(n) == Becomes(n, Nil)

Init == object = [n \in Names |-> Nil]

Next == \E n \in Names :
    \/ \E w \in Wanted[n] : Publish(n, w)
    \/ Detach(n) \/ Vanish(n)
    \/ \E host \in ByHand : AddHost(n, host)

Spec == Init /\ [][Next]_object
=============================================================================
