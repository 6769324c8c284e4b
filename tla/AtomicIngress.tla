---------------------------- MODULE AtomicIngress ----------------------------
(***************************************************************************)
(* What the ingress backend promises of each Ingress: every request takes  *)
(* effect on it at once, on the Ingress as it is then, however the calls   *)
(* it is made of interleave with the calls of other requests.  An Ingress  *)
(* shows what one Ensure asked for and serves TLS for the hosts in tls.    *)
(***************************************************************************)
EXTENDS Sequences, SequencesExt

CONSTANTS Nil, Names, Wanted    \* Wanted[n]: what an Ensure may show on n

VARIABLE object     \* object[n]: Nil or [shows, tls, frozen, marked]

Issued(w) == IF w.issuer \/ w.acme THEN w.rules ELSE <<>>

\* Certificates of an Ingress are added by hand unless cert-manager has them.
ByHand(o) == ~o.shows.issuer /\ ~o.shows.acme

Becomes(n, o) == object' = [object EXCEPT ![n] = o]

Publish(n, w) ==
    /\ object[n] = Nil
    /\ Becomes(n, [shows |-> w, tls |-> Issued(w), frozen |-> FALSE, marked |-> FALSE])

\* A frozen Ingress is left alone, and so is one that is being deleted; TLS
\* that no issuer manages stays on, for all of the hosts now shown.
Rewrite(n, w) ==
    LET o == object[n] IN
    /\ o # Nil /\ ~o.frozen /\ ~o.marked
    /\ Becomes(n, [shows |-> w,
                   tls |-> IF o.tls # <<>> /\ ~o.shows.issuer THEN w.rules ELSE Issued(w),
                   frozen |-> FALSE, marked |-> FALSE])

\* A certificate by hand is for a host shown that has none, and leaves the
\* rest of the Ingress as it is; the one added last is the one to go first.
Pin(n, host) ==
    LET o == object[n] IN
    /\ o # Nil /\ ByHand(o) /\ host \in ToSet(o.shows.rules) \ ToSet(o.tls)
    /\ Becomes(n, [o EXCEPT !.tls = Append(o.tls, host)])

Unpin(n) ==
    LET o == object[n] IN
    /\ o # Nil /\ ByHand(o) /\ o.tls # <<>>
    /\ Becomes(n, [o EXCEPT !.tls = Front(o.tls)])

\* Removal is of the app's own Ingress, which goes later.
Mark(n) ==
    LET o == object[n] IN
    /\ o # Nil /\ o.shows.app = n
    /\ Becomes(n, [o EXCEPT !.marked = TRUE])

Vanish(n) == Becomes(n, Nil)
ToggleFreeze(n) == object[n] # Nil /\ Becomes(n, [object[n] EXCEPT !.frozen = ~@])

Init == object = [n \in Names |-> Nil]

Next == \E n \in Names :
    \/ \E w \in Wanted[n] : Publish(n, w) \/ Rewrite(n, w)
    \/ object[n] # Nil /\ \E host \in ToSet(object[n].shows.rules) : Pin(n, host)
    \/ Unpin(n) \/ Mark(n) \/ Vanish(n) \/ ToggleFreeze(n)

Spec == Init /\ [][Next]_object
=============================================================================
