----------------------------- MODULE IstioProofs -----------------------------
(***************************************************************************)
(* Proofs about IstioGateway, for any ids, names, CNames, requests,        *)
(* handlers and bounds.                                                    *)
(*                                                                         *)
(* The argument: every write gives a VirtualService a version no handler   *)
(* has seen, so one that still has the version a handler read is the one   *)
(* it read (SeenIsCurrent), and an Update the server accepts changes what  *)
(* is there.  That the annotation is served needs no version: it holds of  *)
(* every object read, and of what is made of it.  Both together make every *)
(* write an atomic step of AtomicVirtualService.                           *)
(***************************************************************************)
EXTENDS IstioProperties, TLAPS

EnsurePCs == {"gateway", "get", "put"}
RemovePCs == {"find", "detach", "delete"}

\* What the position of a handler says of its request and of what it read.
StageOK(h) ==
    /\ h.pc \in EnsurePCs => h.req \in EnsureRequest
    /\ h.pc \in RemovePCs => h.req \in RemoveRequest
    /\ Exists(h.seen) => h.pc \in {"put", "detach"}
    /\ h.pc = "detach" => Exists(h.seen)

Staged == \A p \in Handlers : StageOK(handler[p])

VersionsBound ==
    /\ \A n \in Names : Exists(vs[n]) => 0 < vs[n].rv /\ vs[n].rv <= version[n]
    /\ \A p \in Handlers : Exists(handler[p].seen) =>
            0 < handler[p].seen.rv /\ handler[p].seen.rv <= version[NameOf(p)]

\* A VirtualService that has the version a handler read is the one it read.
SeenIsCurrent ==
    \A p \in Handlers :
        LET seen == handler[p].seen
            o == vs[NameOf(p)]
        IN  Exists(seen) /\ Exists(o) /\ o.rv = seen.rv => o = seen

Served(o) == Exists(o) => o.annotated \subseteq o.hosts
AllServed ==
    /\ \A n \in Names : Served(vs[n])
    /\ \A p \in Handlers : Served(handler[p].seen)

IInv == TypeOK /\ Staged /\ VersionsBound /\ SeenIsCurrent /\ AllServed

-----------------------------------------------------------------------------
(* The values the operators return.                                        *)

LEMMA HostsOfType ==
    ASSUME NEW hosts \in SUBSET Hosts, NEW annotated \in SUBSET CNames,
           NEW cnames \in SUBSET CNames
    PROVE  /\ HostsOf(hosts, annotated, cnames) \subseteq Hosts
           /\ AnnotatedOf(hosts, annotated, cnames) \subseteq CNames
  BY DEF HostsOf, AnnotatedOf, CNamesToAdd, CNamesToRemove, Hosts

\* The hosts after vsAddHost and vsRemoveHost contain the annotated ones.
LEMMA HostsOfServes ==
    ASSUME NEW hosts, NEW annotated, NEW cnames, annotated \subseteq hosts
    PROVE  AnnotatedOf(hosts, annotated, cnames) \subseteq HostsOf(hosts, annotated, cnames)
  <1>1. CASE CNamesToAdd(annotated, cnames) \cup CNamesToRemove(annotated, cnames) = {}
    BY <1>1 DEF HostsOf, AnnotatedOf, CNamesToAdd, CNamesToRemove
  <1>2. CASE CNamesToAdd(annotated, cnames) \cup CNamesToRemove(annotated, cnames) # {}
    BY <1>2 DEF HostsOf, AnnotatedOf, CNamesToAdd, CNamesToRemove
  <1> QED
    BY <1>1, <1>2

\* No host goes but CNames.
LEMMA HostsOfKeeps ==
    ASSUME NEW hosts, NEW annotated \in SUBSET CNames, NEW cnames \in SUBSET CNames
    PROVE  hosts \ CNames \subseteq HostsOf(hosts, annotated, cnames)
  BY DEF HostsOf, CNamesToAdd, CNamesToRemove

LEMMA PublishedType ==
    ASSUME NEW o \in VirtualService, NEW r \in EnsureRequest, Served(o)
    PROVE  /\ Published(o, r) \in VirtualService
           /\ Published(o, r).annotated \subseteq Published(o, r).hosts
           /\ o.hosts \ CNames \subseteq Published(o, r).hosts
           /\ o.routes \subseteq Published(o, r).routes
           /\ o.gateways \subseteq Published(o, r).gateways
  <1> DEFINE hosts == o.hosts \cup {GatewayHost[r.id], r.service}
  <1>1. /\ r.id \in Ids /\ r.cnames \in SUBSET CNames /\ r.service \in Services
        /\ o.annotated \in SUBSET CNames /\ o.hosts \in SUBSET Hosts
        /\ o.gateways \in SUBSET (Names \cup {Mesh}) /\ o.routes \in SUBSET Services
    BY DEF EnsureRequest, VirtualService
  <1>2. hosts \in SUBSET Hosts
    BY <1>1 DEF Hosts, AppHosts
  <1>3. ResourceName[r.id] \in Names
    BY <1>1, NamesAssumption
  <1>4. o.annotated \subseteq hosts
    BY NilAssumption DEF Served, Exists
  <1> DEFINE H == HostsOf(hosts, o.annotated, r.cnames)
             A == AnnotatedOf(hosts, o.annotated, r.cnames)
  <1>5. H \in SUBSET Hosts /\ A \in SUBSET CNames
    BY <1>1, <1>2, HostsOfType
  <1>6. A \subseteq H
    BY <1>4, HostsOfServes
  <1>7. o.hosts \ CNames \subseteq H
    BY <1>1, HostsOfKeeps
  <1> DEFINE G == o.gateways \cup {ResourceName[r.id]}
             T == o.routes \cup {r.service}
  <1>8. G \in SUBSET (Names \cup {Mesh}) /\ T \in SUBSET Services
    BY <1>1, <1>3
  <1>9. o.gateways \subseteq G /\ o.routes \subseteq T
    OBVIOUS
  <1>10. Published(o, r) =
            [o EXCEPT !.gateways = G, !.hosts = H, !.annotated = A, !.routes = T]
    BY DEF Published
  <1> HIDE DEF H, A, G, T
  <1>11. Published(o, r) \in VirtualService
    BY <1>5, <1>8, <1>10 DEF VirtualService
  <1>12. /\ Published(o, r).annotated = A /\ Published(o, r).hosts = H
         /\ Published(o, r).routes = T /\ Published(o, r).gateways = G
    BY <1>10 DEF VirtualService
  <1> QED
    BY <1>6, <1>7, <1>9, <1>11, <1>12

LEMMA NewType == New \in VirtualService /\ Served(New)
  BY DEF New, VirtualService, Served

LEMMA DetachedType ==
    ASSUME NEW o \in VirtualService, NEW i \in Ids
    PROVE  /\ Detached(o, i) \in VirtualService
           /\ Detached(o, i).annotated = o.annotated
           /\ Detached(o, i).hosts = o.hosts /\ Detached(o, i).routes = o.routes
           /\ Detached(o, i).gateways = o.gateways \ {ResourceName[i]}
  BY DEF Detached, VirtualService

-----------------------------------------------------------------------------
(* The invariant.                                                          *)

\* What a step does to the VirtualServices: one that changes gets a version no
\* handler has seen.
StoreStep ==
    /\ vs' \in [Names -> VirtualService \cup {Nil}] /\ version' \in [Names -> Nat]
    /\ \A n \in Names :
        \/ vs'[n] = vs[n] /\ version'[n] = version[n]
        \/ vs'[n] = Nil /\ version'[n] = version[n]
        \/ /\ vs'[n] \in VirtualService /\ Served(vs'[n])
           /\ version'[n] = version[n] + 1 /\ vs'[n].rv = version'[n]

\* What a step does to what a handler has read: it forgets it, keeps it, or has just
\* read it.
SeenStep(q) ==
    Exists(handler'[q].seen) =>
        /\ handler'[q].req = handler[q].req
        /\ \/ handler'[q].seen = handler[q].seen
           \/ UNCHANGED services /\ handler'[q].seen = vs[NameOf(q)]

LEMMA Initially == Init => IInv
  <1> SUFFICES ASSUME Init PROVE IInv
    OBVIOUS
  <1>1. Idle \in Handler
    BY DEF Idle, Handler, Ends
  <1>2. \A p \in Handlers : handler[p] = Idle
    BY DEF Init
  <1>3. TypeOK
    BY <1>1 DEF Init, TypeOK
  <1>4. Staged
    BY <1>2 DEF Staged, StageOK, Idle, EnsurePCs, RemovePCs, Exists
  <1>5. VersionsBound /\ SeenIsCurrent /\ AllServed
    BY <1>2 DEF Init, VersionsBound, SeenIsCurrent, AllServed, Served, Idle, Exists
  <1> QED
    BY <1>3, <1>4, <1>5 DEF IInv

LEMMA Preserved ==
    ASSUME IInv, StoreStep, \A q \in Handlers : SeenStep(q), Staged',
           gateway' \subseteq Names, handler' \in [Handlers -> Handler],
           received' \in Nat, faults' \in Nat, events' \in Nat
    PROVE  IInv'
  <1> USE DEF IInv
  <1>1. TypeOK'
    BY DEF TypeOK, StoreStep
  <1>2. ASSUME NEW n \in Names, Exists(vs'[n])
        PROVE  /\ 0 < vs'[n].rv /\ vs'[n].rv <= version'[n]
               /\ Served(vs'[n])
    <2>1. version[n] \in Nat
      BY DEF TypeOK
    <2>2. CASE vs'[n] = vs[n] /\ version'[n] = version[n]
      BY <1>2, <2>2 DEF VersionsBound, AllServed
    <2>3. CASE /\ vs'[n] \in VirtualService /\ Served(vs'[n])
               /\ version'[n] = version[n] + 1 /\ vs'[n].rv = version'[n]
      BY <2>1, <2>3
    <2> QED
      BY <1>2, <2>2, <2>3 DEF StoreStep, Exists
  <1>3. ASSUME NEW q \in Handlers, Exists(handler'[q].seen)
        PROVE  /\ NameOf(q) \in Names /\ NameOf(q)' = NameOf(q)
               /\ \/ Exists(handler[q].seen) /\ handler'[q].seen = handler[q].seen
                  \/ /\ UNCHANGED services
                     /\ Exists(vs[NameOf(q)]) /\ handler'[q].seen = vs[NameOf(q)]
    <2>1. /\ handler'[q].req = handler[q].req
          /\ \/ handler'[q].seen = handler[q].seen
             \/ UNCHANGED services /\ handler'[q].seen = vs[NameOf(q)]
      BY <1>3 DEF SeenStep
    <2>2. NameOf(q)' = NameOf(q)
      BY <2>1 DEF NameOf
    <2>3. NameOf(q)' \in Names
      <3>1. handler'[q].req \in EnsureRequest \cup RemoveRequest
        BY <1>3 DEF Staged, StageOK, EnsurePCs, RemovePCs, Exists
      <3>2. handler'[q].req.id \in Ids
        BY <3>1 DEF EnsureRequest, RemoveRequest
      <3> QED
        BY <3>2, NamesAssumption DEF NameOf
    <2> QED
      BY <1>3, <2>1, <2>2, <2>3 DEF Exists
  <1>4. ASSUME NEW q \in Handlers, Exists(handler'[q].seen)
        PROVE  /\ 0 < handler'[q].seen.rv /\ handler'[q].seen.rv <= version'[NameOf(q)]
               /\ Served(handler'[q].seen)
               /\ handler'[q].seen.rv \in Nat
    <2>1. NameOf(q) \in Names
      BY <1>3, <1>4
    <2>2. version[NameOf(q)] \in Nat
      BY <2>1 DEF TypeOK
    <2>3. CASE Exists(handler[q].seen) /\ handler'[q].seen = handler[q].seen
      <3>1. handler[q].seen \in VirtualService
        BY <2>3 DEF TypeOK, Handler, Exists
      <3>2. version[NameOf(q)] <= version'[NameOf(q)] /\ version'[NameOf(q)] \in Nat
        BY <2>1, <2>2 DEF StoreStep
      <3>3. /\ 0 < handler[q].seen.rv /\ handler[q].seen.rv <= version[NameOf(q)]
            /\ Served(handler[q].seen) /\ handler[q].seen.rv \in Nat
        BY <2>3, <3>1 DEF VersionsBound, AllServed, VirtualService
      <3> QED
        BY <2>2, <2>3, <3>2, <3>3
    <2>4. CASE /\ UNCHANGED services
               /\ Exists(vs[NameOf(q)]) /\ handler'[q].seen = vs[NameOf(q)]
      <3>1. vs[NameOf(q)] \in VirtualService
        BY <2>1, <2>4 DEF TypeOK, Exists
      <3> QED
        BY <2>1, <2>4, <3>1 DEF VersionsBound, AllServed, VirtualService, services
    <2> QED
      BY <1>3, <1>4, <2>3, <2>4
  <1>5. VersionsBound'
    <2>1. \A q \in Handlers : Exists(handler'[q].seen) => NameOf(q)' = NameOf(q)
      BY <1>3
    <2>2. \A q \in Handlers : Exists(handler'[q].seen) =>
            0 < handler'[q].seen.rv /\ handler'[q].seen.rv <= version'[NameOf(q)']
      BY <1>4, <2>1
    <2> QED
      BY <1>2, <2>2 DEF VersionsBound, Exists
  <1>6. AllServed'
    BY <1>2, <1>4 DEF AllServed, Served, Exists
  <1>7. SeenIsCurrent'
    <2> SUFFICES ASSUME NEW q \in Handlers,
                        Exists(handler'[q].seen), Exists(vs'[NameOf(q)']),
                        vs'[NameOf(q)'].rv = handler'[q].seen.rv
                 PROVE  vs'[NameOf(q)'] = handler'[q].seen
      BY DEF SeenIsCurrent, Exists
    <2>1. NameOf(q) \in Names /\ NameOf(q)' = NameOf(q)
      BY <1>3
    <2>2. CASE UNCHANGED services /\ handler'[q].seen = vs[NameOf(q)]
      BY <2>1, <2>2 DEF services
    <2>3. CASE Exists(handler[q].seen) /\ handler'[q].seen = handler[q].seen
      <3>1. handler[q].seen \in VirtualService
        BY <2>3 DEF TypeOK, Handler, Exists
      <3>2. handler[q].seen.rv <= version[NameOf(q)] /\ handler[q].seen.rv \in Nat
        BY <2>3, <3>1 DEF VersionsBound, VirtualService
      <3>3. version[NameOf(q)] \in Nat
        BY <2>1 DEF TypeOK
      <3>4. vs'[NameOf(q)].rv # version[NameOf(q)] + 1
        BY <2>1, <2>3, <3>2, <3>3
      <3>5. vs'[NameOf(q)] = vs[NameOf(q)]
        BY <2>1, <3>4 DEF StoreStep, Exists
      <3> QED
        BY <2>1, <2>3, <3>5 DEF SeenIsCurrent
    <2> QED
      BY <1>3, <2>2, <2>3
  <1> QED
    BY <1>1, <1>5, <1>6, <1>7

-----------------------------------------------------------------------------
(* The steps.                                                              *)

\* A step of one handler.
LEMMA OneHandler ==
    ASSUME IInv, NEW p \in Handlers, NEW h \in Handler, StageOK(h),
           handler' = [handler EXCEPT ![p] = h],
           Exists(h.seen) =>
                /\ h.req = handler[p].req
                /\ \/ h.seen = handler[p].seen
                   \/ UNCHANGED services /\ h.seen = vs[NameOf(p)]
    PROVE  /\ handler' \in [Handlers -> Handler] /\ Staged'
           /\ \A q \in Handlers : SeenStep(q)
  <1>1. handler \in [Handlers -> Handler]
    BY DEF IInv, TypeOK
  <1>2. \A q \in Handlers : handler'[q] = IF q = p THEN h ELSE handler[q]
    BY <1>1
  <1>3. handler' \in [Handlers -> Handler]
    BY <1>1
  <1>4. Staged'
    <2>1. \A q \in Handlers : StageOK(handler[q])
      BY DEF IInv, Staged
    <2>2. \A q \in Handlers : StageOK(handler'[q])
      BY <1>2, <2>1
    <2> QED
      BY <2>2 DEF Staged, StageOK, Exists
  <1>5. \A q \in Handlers : SeenStep(q)
    BY <1>2 DEF SeenStep
  <1> QED
    BY <1>3, <1>4, <1>5

LEMMA SameServices ==
    ASSUME IInv, UNCHANGED services
    PROVE  StoreStep
  BY DEF IInv, TypeOK, StoreStep, services

\* A handler that returns holds nothing.
LEMMA Ended ==
    ASSUME IInv, NEW p \in Handlers, NEW outcome \in Ends, End(p, outcome)
    PROVE  /\ handler' \in [Handlers -> Handler] /\ Staged'
           /\ \A q \in Handlers : SeenStep(q)
  <1> DEFINE r == handler[p].req
             h == [Idle EXCEPT !.pc = outcome, !.req = r]
  <1>1. r \in Requests \cup {Nil}
    BY DEF IInv, TypeOK, Handler
  <1>2. handler' = [handler EXCEPT ![p] = h]
    BY DEF End
  <1> HIDE DEF r
  <1>3. h \in Handler
    <2>1. outcome \in Steps \cup Ends /\ Nil \in VirtualService \cup {Nil}
      OBVIOUS
    <2> QED
      BY <1>1, <2>1 DEF Handler, Idle
  <1>4. StageOK(h) /\ ~Exists(h.seen)
    BY DEF Idle, StageOK, Ends, EnsurePCs, RemovePCs, Exists
  <1> HIDE DEF h
  <1> QED
    BY <1>2, <1>3, <1>4, OneHandler

\* A write of m under the name n.
LEMMA Written ==
    ASSUME IInv, NEW n \in Names, NEW m \in VirtualService,
           m.annotated \subseteq m.hosts, Write(n, m)
    PROVE  StoreStep
  <1>1. vs \in [Names -> VirtualService \cup {Nil}] /\ version \in [Names -> Nat]
    BY DEF IInv, TypeOK
  <1>2. CASE Unchanged(vs[n], m)
    BY <1>2, SameServices DEF Write
  <1>3. CASE ~Unchanged(vs[n], m)
    <2> DEFINE o == [m EXCEPT !.rv = version[n] + 1]
    <2>1. /\ vs' = [vs EXCEPT ![n] = o] /\ version' = [version EXCEPT ![n] = @ + 1]
      BY <1>3 DEF Write
    <2>2. /\ o \in VirtualService /\ o.rv = version[n] + 1
          /\ o.annotated = m.annotated /\ o.hosts = m.hosts
      BY <1>1 DEF VirtualService
    <2>3. Served(o)
      BY <2>2 DEF Served
    <2> HIDE DEF o
    <2> QED
      BY <1>1, <2>1, <2>2, <2>3 DEF StoreStep
  <1> QED
    BY <1>2, <1>3

\* What PutVS and DetachVS work on: the name, the object read, the one that is sent.
LEMMA PutSends ==
    ASSUME IInv, NEW p \in Handlers, At(p, "put")
    PROVE  LET h == handler[p]
               o == IF Exists(h.seen) THEN h.seen ELSE New
           IN  /\ NameOf(p) \in Names /\ h.req \in EnsureRequest
               /\ o \in VirtualService /\ Served(o)
  <1>1. handler[p].req \in EnsureRequest
    BY DEF IInv, Staged, StageOK, At, EnsurePCs
  <1>2. NameOf(p) \in Names
    BY <1>1, NamesAssumption DEF NameOf, EnsureRequest
  <1>3. Exists(handler[p].seen) =>
            handler[p].seen \in VirtualService /\ Served(handler[p].seen)
    BY DEF IInv, TypeOK, Handler, AllServed, Exists
  <1> QED
    BY <1>1, <1>2, <1>3, NewType

LEMMA DetachSends ==
    ASSUME IInv, NEW p \in Handlers, At(p, "detach")
    PROVE  /\ NameOf(p) \in Names /\ handler[p].req \in RemoveRequest
           /\ handler[p].req.id \in Ids
           /\ handler[p].seen \in VirtualService
           /\ handler[p].seen.annotated \subseteq handler[p].seen.hosts
  <1>1. handler[p].req \in RemoveRequest /\ Exists(handler[p].seen)
    BY DEF IInv, Staged, StageOK, At, RemovePCs
  <1>2. handler[p].req.id \in Ids /\ NameOf(p) \in Names
    BY <1>1, NamesAssumption DEF NameOf, RemoveRequest
  <1> QED
    BY <1>1, <1>2 DEF IInv, TypeOK, Handler, AllServed, Served, Exists

LEMMA PutStores ==
    ASSUME IInv, NEW p \in Handlers, PutVS(p)
    PROVE  StoreStep
  <1> DEFINE o == IF Exists(handler[p].seen) THEN handler[p].seen ELSE New
             m == Published(o, handler[p].req)
  <1>1. CASE UNCHANGED services
    BY <1>1, SameServices
  <1>2. CASE Write(NameOf(p), m)
    <2>1. /\ NameOf(p) \in Names /\ handler[p].req \in EnsureRequest
          /\ o \in VirtualService /\ Served(o)
      BY PutSends DEF PutVS
    <2>2. m \in VirtualService /\ m.annotated \subseteq m.hosts
      BY <2>1, PublishedType
    <2> QED
      BY <1>2, <2>1, <2>2, Written
  <1> QED
    BY <1>1, <1>2 DEF PutVS

LEMMA DetachStores ==
    ASSUME IInv, NEW p \in Handlers, DetachVS(p)
    PROVE  StoreStep
  <1> DEFINE m == Detached(handler[p].seen, handler[p].req.id)
  <1>1. CASE UNCHANGED services
    BY <1>1, SameServices
  <1>2. CASE Write(NameOf(p), m)
    <2>1. /\ NameOf(p) \in Names /\ handler[p].req.id \in Ids
          /\ handler[p].seen \in VirtualService
          /\ handler[p].seen.annotated \subseteq handler[p].seen.hosts
      BY DetachSends DEF DetachVS
    <2>2. m \in VirtualService /\ m.annotated \subseteq m.hosts
      BY <2>1, DetachedType
    <2> QED
      BY <1>2, <2>1, <2>2, Written
  <1> QED
    BY <1>1, <1>2 DEF DetachVS

\* A step that leaves the handlers alone.
LEMMA SameHandlers ==
    ASSUME IInv, UNCHANGED handler
    PROVE  /\ handler' \in [Handlers -> Handler] /\ Staged'
           /\ \A q \in Handlers : SeenStep(q)
  BY DEF IInv, TypeOK, Staged, StageOK, SeenStep, Exists

LEMMA ReceiveStep ==
    ASSUME IInv, NEW p \in Handlers, Receive(p)
    PROVE  IInv'
  <1>1. PICK r \in Requests :
            handler' = [handler EXCEPT ![p] =
                [Idle EXCEPT !.pc = IF r.op = "Ensure" THEN "gateway" ELSE "find", !.req = r]]
    BY DEF Receive
  <1> DEFINE pc == IF r.op = "Ensure" THEN "gateway" ELSE "find"
             h == [Idle EXCEPT !.pc = pc, !.req = r]
  <1>2. r \in EnsureRequest \/ r \in RemoveRequest
    BY RequestsAssumption DEF RequestType
  <1>3. /\ pc \in Steps /\ pc # "detach"
        /\ pc \in EnsurePCs => r \in EnsureRequest
        /\ pc \in RemovePCs => r \in RemoveRequest
    BY <1>2 DEF EnsureRequest, RemoveRequest, EnsurePCs, RemovePCs, Steps
  <1> HIDE DEF pc
  <1>4. h.pc = pc /\ h.req = r /\ h.seen = Nil
    BY DEF Idle
  <1>5. h \in Handler
    <2>1. pc \in Steps \cup Ends /\ r \in Requests \cup {Nil} /\ Nil \in VirtualService \cup {Nil}
      BY <1>3
    <2> QED
      BY <2>1 DEF Handler, Idle
  <1>6. StageOK(h) /\ ~Exists(h.seen)
    BY <1>3, <1>4 DEF StageOK, Exists
  <1>7. handler' = [handler EXCEPT ![p] = h]
    BY <1>1 DEF pc
  <1> HIDE DEF h
  <1>8. /\ handler' \in [Handlers -> Handler] /\ Staged'
        /\ \A q \in Handlers : SeenStep(q)
    BY <1>5, <1>6, <1>7, OneHandler
  <1>9. StoreStep
    BY SameServices DEF Receive, services
  <1> QED
    BY <1>8, <1>9, Preserved DEF Receive, IInv, TypeOK

LEMMA FailStep ==
    ASSUME IInv, NEW p \in Handlers, Fail(p)
    PROVE  IInv'
  <1>1. "error" \in Ends
    BY DEF Ends
  <1>2. /\ handler' \in [Handlers -> Handler] /\ Staged'
        /\ \A q \in Handlers : SeenStep(q)
    BY <1>1, Ended DEF Fail
  <1>3. StoreStep
    BY SameServices DEF Fail, services
  <1> QED
    BY <1>2, <1>3, Preserved DEF Fail, IInv, TypeOK

LEMMA CreateGatewayStep ==
    ASSUME IInv, NEW p \in Handlers, CreateGateway(p)
    PROVE  IInv'
  <1> DEFINE name == AppName[handler[p].req.id]
             answer == IF name \in gateway THEN "exists" ELSE "ok"
             h == [handler[p] EXCEPT !.pc = "get", !.answer = answer]
  <1>1. handler[p] \in Handler
    BY DEF IInv, TypeOK
  <1>2. handler[p].req \in EnsureRequest /\ ~Exists(handler[p].seen)
    BY DEF IInv, Staged, StageOK, CreateGateway, At, EnsurePCs
  <1>3. name \in Names
    BY <1>2, NamesAssumption DEF EnsureRequest
  <1>4. answer \in {"ok", "exists"}
    OBVIOUS
  <1>5. handler' = [handler EXCEPT ![p] = h]
    BY <1>1 DEF CreateGateway, IInv, TypeOK
  <1> HIDE DEF answer
  <1>6. h \in Handler
    <2>1. "get" \in Steps \cup Ends /\ handler[p].req \in Requests \cup {Nil}
          /\ handler[p].seen \in VirtualService \cup {Nil}
      BY <1>1 DEF Steps, Handler
    <2> QED
      BY <1>4, <1>1, <2>1 DEF Handler
  <1>7. StageOK(h) /\ ~Exists(h.seen)
    BY <1>1, <1>2 DEF StageOK, EnsurePCs, RemovePCs, Handler
  <1> HIDE DEF h
  <1>8. /\ handler' \in [Handlers -> Handler] /\ Staged'
        /\ \A q \in Handlers : SeenStep(q)
    BY <1>5, <1>6, <1>7, OneHandler
  <1>9. StoreStep
    BY SameServices DEF CreateGateway
  <1>10. gateway' \subseteq Names
    BY <1>3 DEF CreateGateway, IInv, TypeOK
  <1> QED
    BY <1>8, <1>9, <1>10, Preserved DEF CreateGateway, bounds, IInv, TypeOK

\* A Get: the next step is pc, and the object is remembered.
LEMMA ReadStep ==
    ASSUME IInv, NEW p \in Handlers, NEW pc \in {"put", "detach"}, UNCHANGED services,
           handler[p].pc = (IF pc = "put" THEN "get" ELSE "find"),
           pc = "detach" => Exists(vs[NameOf(p)]),
           handler' = [handler EXCEPT ![p] = [@ EXCEPT !.pc = pc, !.seen = vs[NameOf(p)]]]
    PROVE  /\ handler' \in [Handlers -> Handler] /\ Staged'
           /\ \A q \in Handlers : SeenStep(q)
  <1> DEFINE o == vs[NameOf(p)]
             h == [handler[p] EXCEPT !.pc = pc, !.seen = o]
  <1>1. handler[p] \in Handler
    BY DEF IInv, TypeOK
  <1>2. /\ pc = "put" => handler[p].req \in EnsureRequest
        /\ pc = "detach" => handler[p].req \in RemoveRequest
    BY DEF IInv, Staged, StageOK, EnsurePCs, RemovePCs
  <1>3. handler[p].req.id \in Ids
    BY <1>2 DEF EnsureRequest, RemoveRequest
  <1>4. o \in VirtualService \cup {Nil}
    BY <1>3, NamesAssumption DEF IInv, TypeOK, NameOf
  <1>5. pc = "detach" => Exists(o)
    OBVIOUS
  <1>6. handler' = [handler EXCEPT ![p] = h]
    BY <1>1 DEF IInv, TypeOK
  <1>7. o = vs[NameOf(p)]
    OBVIOUS
  <1> HIDE DEF o
  <1>8. h \in Handler
    <2>1. pc \in Steps \cup Ends /\ handler[p].req \in Requests \cup {Nil}
          /\ handler[p].answer \in {"ok", "exists"}
      BY <1>1 DEF Steps, Handler
    <2> QED
      BY <1>1, <1>4, <2>1 DEF Handler
  <1>9. StageOK(h)
    BY <1>1, <1>2, <1>5 DEF StageOK, EnsurePCs, RemovePCs, Handler
  <1>10. h.req = handler[p].req /\ h.seen = vs[NameOf(p)]
    BY <1>1, <1>7 DEF Handler
  <1> HIDE DEF h
  <1> QED
    BY <1>6, <1>8, <1>9, <1>10, OneHandler

LEMMA GetVSStep ==
    ASSUME IInv, NEW p \in Handlers, GetVS(p)
    PROVE  IInv'
  <1>1. /\ handler' \in [Handlers -> Handler] /\ Staged'
        /\ \A q \in Handlers : SeenStep(q)
    BY ReadStep DEF GetVS, At
  <1>2. StoreStep
    BY SameServices DEF GetVS
  <1> QED
    BY <1>1, <1>2, Preserved DEF GetVS, bounds, IInv, TypeOK

LEMMA PutVSStep ==
    ASSUME IInv, NEW p \in Handlers, PutVS(p)
    PROVE  IInv'
  <1>1. {"ok", "exists", "error"} \subseteq Ends
    BY DEF Ends
  <1>2. handler[p].answer \in {"ok", "exists"}
    BY DEF IInv, TypeOK, Handler
  <1>3. PICK outcome \in Ends : End(p, outcome)
    BY <1>1, <1>2 DEF PutVS
  <1>4. /\ handler' \in [Handlers -> Handler] /\ Staged'
        /\ \A q \in Handlers : SeenStep(q)
    BY <1>3, Ended
  <1>5. StoreStep
    BY PutStores
  <1> QED
    BY <1>4, <1>5, Preserved DEF PutVS, bounds, IInv, TypeOK

LEMMA RemoveGetStep ==
    ASSUME IInv, NEW p \in Handlers, RemoveGet(p)
    PROVE  IInv'
  <1>1. CASE End(p, "error")
    <2>1. "error" \in Ends
      BY DEF Ends
    <2> QED
      BY <1>1, <2>1, Ended, SameServices, Preserved DEF RemoveGet, bounds, IInv, TypeOK
  <1>2. CASE /\ Exists(vs[NameOf(p)])
             /\ handler' = [handler EXCEPT ![p] = [@ EXCEPT !.pc = "detach", !.seen = vs[NameOf(p)]]]
    <2>1. /\ handler' \in [Handlers -> Handler] /\ Staged'
          /\ \A q \in Handlers : SeenStep(q)
      BY <1>2, ReadStep DEF RemoveGet, At
    <2> QED
      BY <2>1, SameServices, Preserved DEF RemoveGet, bounds, IInv, TypeOK
  <1> QED
    BY <1>1, <1>2 DEF RemoveGet

LEMMA DetachVSStep ==
    ASSUME IInv, NEW p \in Handlers, DetachVS(p)
    PROVE  IInv'
  <1>1. StoreStep
    BY DetachStores
  <1>2. /\ handler' \in [Handlers -> Handler] /\ Staged'
        /\ \A q \in Handlers : SeenStep(q)
    <2>1. CASE End(p, "error")
      <3>1. "error" \in Ends
        BY DEF Ends
      <3> QED
        BY <2>1, <3>1, Ended
    <2>2. CASE handler' = [handler EXCEPT ![p] = [@ EXCEPT !.pc = "delete", !.seen = Nil]]
      <3> DEFINE h == [handler[p] EXCEPT !.pc = "delete", !.seen = Nil]
      <3>1. handler[p] \in Handler /\ handler \in [Handlers -> Handler]
        BY DEF IInv, TypeOK
      <3>2. handler[p].req \in RemoveRequest
        BY DetachSends DEF DetachVS
      <3>3. handler' = [handler EXCEPT ![p] = h]
        BY <2>2, <3>1
      <3>4. h \in Handler
        <4>1. "delete" \in Steps \cup Ends /\ handler[p].req \in Requests \cup {Nil}
              /\ handler[p].answer \in {"ok", "exists"} /\ Nil \in VirtualService \cup {Nil}
          BY <3>1 DEF Steps, Handler
        <4> QED
          BY <3>1, <4>1 DEF Handler
      <3>5. StageOK(h) /\ ~Exists(h.seen)
        BY <3>1, <3>2 DEF StageOK, EnsurePCs, RemovePCs, Exists, Handler
      <3> HIDE DEF h
      <3> QED
        BY <3>3, <3>4, <3>5, OneHandler
    <2> QED
      BY <2>1, <2>2 DEF DetachVS
  <1> QED
    BY <1>1, <1>2, Preserved DEF DetachVS, bounds, IInv, TypeOK

LEMMA DeleteGatewayStep ==
    ASSUME IInv, NEW p \in Handlers, DeleteGateway(p)
    PROVE  IInv'
  <1>1. {"ok", "error"} \subseteq Ends
    BY DEF Ends
  <1>2. PICK outcome \in Ends : End(p, outcome)
    BY <1>1 DEF DeleteGateway
  <1>3. /\ handler' \in [Handlers -> Handler] /\ Staged'
        /\ \A q \in Handlers : SeenStep(q)
    BY <1>2, Ended
  <1>4. StoreStep
    BY SameServices DEF DeleteGateway
  <1>5. gateway' \subseteq Names
    BY DEF DeleteGateway, IInv, TypeOK
  <1> QED
    BY <1>3, <1>4, <1>5, Preserved DEF DeleteGateway, bounds, IInv, TypeOK

LEMMA AddHostStep ==
    ASSUME IInv, NEW n \in Names, NEW host \in OtherHosts \cup CNames, AddHost(n, host)
    PROVE  IInv'
  <1> DEFINE o == [vs[n] EXCEPT !.hosts = vs[n].hosts \cup {host}, !.rv = version[n] + 1]
  <1>1. vs \in [Names -> VirtualService \cup {Nil}] /\ version \in [Names -> Nat]
    BY DEF IInv, TypeOK
  <1>2. vs[n] \in VirtualService /\ Served(vs[n]) /\ vs[n].annotated \subseteq vs[n].hosts
    BY <1>1 DEF AddHost, Exists, IInv, AllServed, Served
  <1>3. /\ o.rv = version[n] + 1 /\ o.hosts = vs[n].hosts \cup {host}
        /\ o.annotated = vs[n].annotated
    BY <1>2 DEF VirtualService
  <1>4. o \in VirtualService
    <2>1. vs[n].hosts \cup {host} \in SUBSET Hosts
      BY <1>2 DEF VirtualService, Hosts
    <2>2. version[n] + 1 \in Nat
      BY <1>1
    <2> QED
      BY <1>2, <2>1, <2>2 DEF VirtualService
  <1>5. Served(o) /\ o.rv = version[n] + 1
    BY <1>2, <1>3 DEF Served
  <1>6. /\ vs' = [vs EXCEPT ![n] = o]
        /\ version' = [version EXCEPT ![n] = version[n] + 1]
    BY <1>1 DEF AddHost
  <1> HIDE DEF o
  <1>7. StoreStep
    BY <1>1, <1>4, <1>5, <1>6 DEF StoreStep
  <1>8. UNCHANGED handler
    BY DEF AddHost
  <1>9. /\ gateway' \subseteq Names
        /\ received' \in Nat /\ faults' \in Nat /\ events' \in Nat
    BY DEF AddHost, Event, IInv, TypeOK
  <1> QED
    BY <1>7, <1>8, <1>9, SameHandlers, Preserved

LEMMA DeleteVSStep ==
    ASSUME IInv, NEW n \in Names, DeleteVS(n)
    PROVE  IInv'
  <1>1. StoreStep
    BY DEF DeleteVS, IInv, TypeOK, StoreStep
  <1>2. UNCHANGED handler
    BY DEF DeleteVS
  <1> QED
    BY <1>1, <1>2, SameHandlers, Preserved DEF DeleteVS, Event, IInv, TypeOK

LEMMA Inductive == IInv /\ [Next]_vars => IInv'
  <1> SUFFICES ASSUME IInv, [Next]_vars PROVE IInv'
    OBVIOUS
  <1>1. CASE UNCHANGED vars
    BY <1>1, SameServices, SameHandlers, Preserved DEF vars, services, bounds, IInv, TypeOK
  <1>2. CASE Next
    <2>1. ASSUME NEW p \in Handlers, EnsureStep(p)
          PROVE  IInv'
      BY <2>1, CreateGatewayStep, GetVSStep, PutVSStep DEF EnsureStep
    <2>2. ASSUME NEW p \in Handlers, RemoveStep(p)
          PROVE  IInv'
      BY <2>2, RemoveGetStep, DetachVSStep, DeleteGatewayStep DEF RemoveStep
    <2> QED
      BY <1>2, <2>1, <2>2, ReceiveStep, FailStep, AddHostStep, DeleteVSStep DEF Next
  <1> QED
    BY <1>1, <1>2

LEMMA Invariant == Spec => []IInv
  BY Initially, Inductive, PTL DEF Spec

-----------------------------------------------------------------------------
(* What follows.                                                           *)

\* Every reachable state is well typed; in particular what Ensure writes is a
\* VirtualService, whatever annotation and CNames it starts from.
THEOREM TypeCorrect == Spec => []TypeOK
  <1>1. IInv => TypeOK
    BY DEF IInv
  <1> QED
    BY <1>1, Invariant, PTL

\* The CNames the annotation lists are hosts, however requests interleave.
THEOREM AnnotationStaysServed == Spec => []AnnotationServed
  <1>1. IInv => AnnotationServed
    BY DEF IInv, AllServed, Served, AnnotationServed
  <1> QED
    BY <1>1, Invariant, PTL

\* What an accepted write of m over the object under the name n leaves.
LEMMA WriteLeaves ==
    ASSUME IInv, NEW n \in Names, NEW m \in VirtualService, Write(n, m)
    PROVE  /\ \A k \in Names \ {n} : vs'[k] = vs[k]
           /\ Exists(vs'[n]) /\ vs'[n].hosts = m.hosts
           /\ vs'[n].routes = m.routes /\ vs'[n].gateways = m.gateways
  <1>1. vs \in [Names -> VirtualService \cup {Nil}]
    BY DEF IInv, TypeOK
  <1>2. CASE Unchanged(vs[n], m)
    <2>1. vs' = vs
      BY <1>2 DEF Write, services
    <2>2. Exists(vs[n]) /\ [m EXCEPT !.rv = vs[n].rv] = vs[n]
      BY <1>2 DEF Unchanged
    <2>3. /\ [m EXCEPT !.rv = vs[n].rv].hosts = m.hosts
          /\ [m EXCEPT !.rv = vs[n].rv].routes = m.routes
          /\ [m EXCEPT !.rv = vs[n].rv].gateways = m.gateways
      BY DEF VirtualService
    <2> QED
      BY <2>1, <2>2, <2>3
  <1>3. CASE ~Unchanged(vs[n], m)
    <2> DEFINE o == [m EXCEPT !.rv = version[n] + 1]
    <2>1. vs' = [vs EXCEPT ![n] = o]
      BY <1>3 DEF Write
    <2>2. /\ o.hosts = m.hosts /\ o.routes = m.routes /\ o.gateways = m.gateways
      BY DEF VirtualService
    <2>3. Exists(o)
      <3>1. version[n] + 1 \in Nat
        BY DEF IInv, TypeOK
      <3>2. o \in VirtualService
        BY <3>1 DEF VirtualService
      <3> QED
        BY <3>2, NilAssumption DEF Exists
    <2> HIDE DEF o
    <2> QED
      BY <1>1, <2>1, <2>2, <2>3
  <1> QED
    BY <1>2, <1>3

\* An Update the server accepts was computed from the object that is there.
LEMMA AcceptedIsCurrent ==
    ASSUME IInv, NEW p \in Handlers, Accepted(vs[NameOf(p)], handler[p].seen),
           Exists(vs[NameOf(p)])
    PROVE  Exists(handler[p].seen) /\ handler[p].seen = vs[NameOf(p)]
  <1>1. Exists(handler[p].seen)
    BY DEF Accepted
  <1>2. 0 < handler[p].seen.rv
    BY <1>1 DEF IInv, VersionsBound
  <1>3. handler[p].seen.rv \in {0, vs[NameOf(p)].rv}
    BY <1>1 DEF Accepted, Accepts, SentVersion
  <1>4. handler[p].seen.rv # 0
    BY <1>2
  <1> QED
    BY <1>1, <1>3, <1>4 DEF IInv, SeenIsCurrent

\* What one name keeps in a step.
Keeps(n) ==
    /\ Exists(vs'[n])
    /\ vs[n].hosts \ CNames \subseteq vs'[n].hosts
    /\ vs[n].routes \subseteq vs'[n].routes
    /\ vs[n].gateways \ {n} \subseteq vs'[n].gateways

LEMMA PutKeeps ==
    ASSUME IInv, NEW p \in Handlers, NEW n \in Names, Exists(vs[n]), PutVS(p)
    PROVE  Keeps(n)
  <1> DEFINE o == IF Exists(handler[p].seen) THEN handler[p].seen ELSE New
             m == Published(o, handler[p].req)
  <1>1. CASE UNCHANGED services
    BY <1>1 DEF services, Keeps, Exists
  <1>2. CASE Accepted(vs[NameOf(p)], handler[p].seen) /\ Write(NameOf(p), m)
    <2>1. /\ NameOf(p) \in Names /\ handler[p].req \in EnsureRequest
          /\ o \in VirtualService /\ Served(o)
      BY PutSends DEF PutVS
    <2>2. /\ m \in VirtualService /\ o.hosts \ CNames \subseteq m.hosts
          /\ o.routes \subseteq m.routes /\ o.gateways \subseteq m.gateways
      BY <2>1, PublishedType
    <2>3. /\ \A k \in Names \ {NameOf(p)} : vs'[k] = vs[k]
          /\ Exists(vs'[NameOf(p)]) /\ vs'[NameOf(p)].hosts = m.hosts
          /\ vs'[NameOf(p)].routes = m.routes /\ vs'[NameOf(p)].gateways = m.gateways
      <3> HIDE DEF m
      <3> QED
        BY <1>2, <2>1, <2>2, WriteLeaves
    <2>4. CASE n # NameOf(p)
      <3>1. vs'[n] = vs[n]
        BY <2>3, <2>4
      <3> QED
        BY <3>1 DEF Keeps, Exists
    <2>5. CASE n = NameOf(p)
      <3>1. o = vs[n]
        BY <1>2, <2>5, AcceptedIsCurrent
      <3> HIDE DEF o, m
      <3> QED
        BY <2>2, <2>3, <2>5, <3>1 DEF Keeps
    <2> QED
      BY <2>4, <2>5
  <1> QED
    BY <1>1, <1>2 DEF PutVS

LEMMA DetachKeeps ==
    ASSUME IInv, NEW p \in Handlers, NEW n \in Names, Exists(vs[n]), DetachVS(p)
    PROVE  Keeps(n)
  <1> DEFINE o == handler[p].seen
             m == Detached(o, handler[p].req.id)
  <1>1. CASE UNCHANGED services
    BY <1>1 DEF services, Keeps, Exists
  <1>2. CASE Accepted(vs[NameOf(p)], o) /\ Write(NameOf(p), m)
    <2>1. /\ NameOf(p) \in Names /\ handler[p].req.id \in Ids /\ o \in VirtualService
      BY DetachSends DEF DetachVS
    <2>2. /\ m \in VirtualService /\ m.hosts = o.hosts /\ m.routes = o.routes
          /\ m.gateways = o.gateways \ {NameOf(p)}
      BY <2>1, DetachedType DEF NameOf
    <2>3. /\ \A k \in Names \ {NameOf(p)} : vs'[k] = vs[k]
          /\ Exists(vs'[NameOf(p)]) /\ vs'[NameOf(p)].hosts = m.hosts
          /\ vs'[NameOf(p)].routes = m.routes /\ vs'[NameOf(p)].gateways = m.gateways
      <3> HIDE DEF m
      <3> QED
        BY <1>2, <2>1, <2>2, WriteLeaves
    <2>4. CASE n # NameOf(p)
      <3>1. vs'[n] = vs[n]
        BY <2>3, <2>4
      <3> QED
        BY <3>1 DEF Keeps, Exists
    <2>5. CASE n = NameOf(p)
      <3>1. o = vs[n]
        BY <1>2, <2>5, AcceptedIsCurrent
      <3> HIDE DEF o, m
      <3> QED
        BY <2>2, <2>3, <2>5, <3>1 DEF Keeps
    <2> QED
      BY <2>4, <2>5
  <1> QED
    BY <1>1, <1>2 DEF DetachVS

\* No request takes out of a VirtualService what others put into it, also after it
\* read the object.
THEOREM OthersKept == Spec => KeepsOthers
  <1>1. IInv /\ [Next]_vars => [KeepsOthersStep]_vars
    BY PutKeeps, DetachKeeps DEF KeepsOthersStep, Keeps
  <1> QED
    BY <1>1, Invariant, PTL DEF Spec, KeepsOthers

-----------------------------------------------------------------------------
(* Requests one after the other.                                           *)

\* No other handler has had a request.
Alone(p) == \A q \in Handlers \ {p} : At(q, "idle")

\* As long as no operator adds hosts, the annotation lists all CNames among the hosts.
AllListed(o) == Exists(o) => o.hosts \cap CNames = o.annotated
NoneUnlisted ==
    events = 0 =>
        /\ \A n \in Names : AllListed(vs[n])
        /\ \A p \in Handlers : AllListed(handler[p].seen)

\* What a handler that is alone has achieved at its position.
Achieved(p) ==
    LET h == handler[p] IN
    /\ h.pc \in {"get", "put"} => AppName[h.req.id] \in gateway
    /\ h.pc \in {"ok", "exists"} =>
        h.req \in RequestType /\ (h.req.op = "Ensure" => Fulfilled(h.req))
    /\ h.pc = "delete" /\ Exists(vs[NameOf(p)]) => NameOf(p) \notin vs[NameOf(p)].gateways

\* NoDangling, of the VirtualService of the id i.
GatewayThere(i) ==
    LET n == ResourceName[i] IN
    Plain(i) /\ Exists(vs[n]) /\ n \in vs[n].gateways => n \in gateway

InTurn == \A p \in Handlers : Alone(p) => Achieved(p) /\ \A i \in Ids : GatewayThere(i)

IInvSerial == IInv /\ NoneUnlisted /\ InTurn

\* With disjoint sorts, the CNames among the hosts are the annotated ones before, and
\* those asked for after.
LEMMA HostsOfListed ==
    ASSUME NEW hosts, NEW annotated \in SUBSET CNames, NEW cnames \in SUBSET CNames
    PROVE  /\ AnnotatedOf(hosts, annotated, cnames) = cnames
           /\ annotated \subseteq hosts => cnames \subseteq HostsOf(hosts, annotated, cnames)
           /\ hosts \cap CNames = annotated =>
                HostsOf(hosts, annotated, cnames) \cap CNames = cnames
  <1>1. AnnotatedOf(hosts, annotated, cnames) = cnames
    BY DEF AnnotatedOf, CNamesToAdd, CNamesToRemove
  <1>2. CASE CNamesToAdd(annotated, cnames) \cup CNamesToRemove(annotated, cnames) = {}
    <2>1. annotated = cnames
      BY <1>2 DEF CNamesToAdd, CNamesToRemove
    <2>2. HostsOf(hosts, annotated, cnames) = hosts
      BY <1>2 DEF HostsOf
    <2> QED
      BY <1>1, <2>1, <2>2
  <1>3. CASE CNamesToAdd(annotated, cnames) \cup CNamesToRemove(annotated, cnames) # {}
    <2> DEFINE known == annotated \cup (cnames \ annotated)
    <2>1. HostsOf(hosts, annotated, cnames) =
            (hosts \ known) \cup (known \ (annotated \ cnames))
      BY <1>3 DEF HostsOf, CNamesToAdd, CNamesToRemove
    <2>2. known \ (annotated \ cnames) = cnames
      OBVIOUS
    <2> QED
      BY <1>1, <2>1, <2>2
  <1> QED
    BY <1>2, <1>3

\* What Ensure makes of a VirtualService.
LEMMA PublishedFulfils ==
    ASSUME NEW o \in VirtualService, NEW r \in EnsureRequest, Served(o)
    PROVE  LET m == Published(o, r) IN
           /\ m.annotated = r.cnames
           /\ r.cnames \cup {GatewayHost[r.id], r.service} \subseteq m.hosts
           /\ ResourceName[r.id] \in m.gateways /\ r.service \in m.routes
           /\ AllListed(o) => m.hosts \cap CNames = r.cnames
  <1> DEFINE hosts == o.hosts \cup {GatewayHost[r.id], r.service}
             H == HostsOf(hosts, o.annotated, r.cnames)
             m == Published(o, r)
  <1>1. /\ r.id \in Ids /\ r.cnames \in SUBSET CNames /\ r.service \in Services
        /\ o.annotated \in SUBSET CNames
    BY DEF EnsureRequest, VirtualService
  <1>2. o.annotated \subseteq hosts
    BY NilAssumption DEF Served, Exists
  <1>3. GatewayHost[r.id] \notin CNames /\ r.service \notin CNames
    BY <1>1, NamesAssumption DEF AppHosts
  <1>4. /\ m.hosts = H /\ m.annotated = AnnotatedOf(hosts, o.annotated, r.cnames)
        /\ m.gateways = o.gateways \cup {ResourceName[r.id]}
        /\ m.routes = o.routes \cup {r.service}
    BY DEF Published, VirtualService
  <1>5. m.annotated = r.cnames /\ r.cnames \subseteq H
    BY <1>1, <1>2, <1>4, HostsOfListed
  <1>6. {GatewayHost[r.id], r.service} \subseteq H
    BY <1>1, <1>3, HostsOfKeeps
  <1>7. ASSUME AllListed(o)
        PROVE  H \cap CNames = r.cnames
    <2>1. o.hosts \cap CNames = o.annotated
      BY <1>7, NilAssumption DEF AllListed, Exists
    <2>2. hosts \cap CNames = o.annotated
      BY <1>3, <2>1
    <2> QED
      BY <1>1, <2>2, HostsOfListed
  <1> HIDE DEF H
  <1> QED
    BY <1>4, <1>5, <1>6, <1>7

LEMMA NewListed == AllListed(New)
  BY DEF New, AllListed

\* What an accepted write leaves: every field but the version.
LEMMA WriteAnnotates ==
    ASSUME IInv, NEW n \in Names, NEW m \in VirtualService, Write(n, m)
    PROVE  vs'[n].annotated = m.annotated
  <1>1. vs \in [Names -> VirtualService \cup {Nil}]
    BY DEF IInv, TypeOK
  <1>2. CASE Unchanged(vs[n], m)
    <2>1. vs' = vs /\ [m EXCEPT !.rv = vs[n].rv] = vs[n]
      BY <1>2 DEF Write, services, Unchanged
    <2>2. [m EXCEPT !.rv = vs[n].rv].annotated = m.annotated
      BY DEF VirtualService
    <2> QED
      BY <2>1, <2>2
  <1>3. CASE ~Unchanged(vs[n], m)
    <2> DEFINE o == [m EXCEPT !.rv = version[n] + 1]
    <2>1. vs' = [vs EXCEPT ![n] = o]
      BY <1>3 DEF Write
    <2>2. o.annotated = m.annotated
      BY DEF VirtualService
    <2> HIDE DEF o
    <2> QED
      BY <1>1, <2>1, <2>2
  <1> QED
    BY <1>2, <1>3

-----------------------------------------------------------------------------
(* NoneUnlisted: what is read and what is written lists its CNames.        *)

\* A handler that returns, or moves on with nothing or the same in hand.
LEMMA ListedHandler ==
    ASSUME IInv, NoneUnlisted, events' = 0 => events = 0,
           NEW p \in Handlers, NEW h,
           handler' = [handler EXCEPT ![p] = h],
           h.seen = Nil \/ h.seen = handler[p].seen
             \/ \E n \in Names : h.seen = vs[n],
           events = 0 => \A n \in Names : AllListed(vs'[n])
    PROVE  NoneUnlisted'
  <1> SUFFICES ASSUME events' = 0
               PROVE  /\ \A n \in Names : AllListed(vs'[n])
                      /\ \A q \in Handlers : AllListed(handler'[q].seen)
    BY DEF NoneUnlisted, AllListed, Exists
  <1>1. handler \in [Handlers -> Handler]
    BY DEF IInv, TypeOK
  <1>2. \A q \in Handlers : handler'[q] = IF q = p THEN h ELSE handler[q]
    BY <1>1
  <1>3. AllListed(h.seen)
    BY DEF NoneUnlisted, AllListed, Exists
  <1> QED
    BY <1>2, <1>3 DEF NoneUnlisted

LEMMA NameOfType ==
    ASSUME IInv, NEW p \in Handlers, handler[p].pc \in Steps
    PROVE  NameOf(p) \in Names /\ handler[p].req.id \in Ids
  <1>1. handler[p].req \in EnsureRequest \cup RemoveRequest
    BY DEF IInv, Staged, StageOK, EnsurePCs, RemovePCs, Steps
  <1>2. handler[p].req.id \in Ids
    BY <1>1 DEF EnsureRequest, RemoveRequest
  <1> QED
    BY <1>2, NamesAssumption DEF NameOf

LEMMA EndListed ==
    ASSUME IInv, NoneUnlisted, NEW p \in Handlers, NEW outcome, End(p, outcome),
           UNCHANGED events, events = 0 => \A n \in Names : AllListed(vs'[n])
    PROVE  NoneUnlisted'
  <1> DEFINE h == [Idle EXCEPT !.pc = outcome, !.req = handler[p].req]
  <1>1. handler' = [handler EXCEPT ![p] = h] /\ h.seen = Nil
    BY DEF End, Idle
  <1> HIDE DEF h
  <1> QED
    BY <1>1, ListedHandler

LEMMA StoreListed ==
    ASSUME IInv, NoneUnlisted, UNCHANGED services, events = 0
    PROVE  \A n \in Names : AllListed(vs'[n])
  BY DEF NoneUnlisted, services, AllListed, Exists

LEMMA ReceiveListed ==
    ASSUME IInv, NoneUnlisted, NEW p \in Handlers, Receive(p)
    PROVE  NoneUnlisted'
  <1>1. PICK r \in Requests : handler' = [handler EXCEPT ![p] =
            [Idle EXCEPT !.pc = IF r.op = "Ensure" THEN "gateway" ELSE "find", !.req = r]]
    BY DEF Receive
  <1> DEFINE h == [Idle EXCEPT !.pc = IF r.op = "Ensure" THEN "gateway" ELSE "find", !.req = r]
  <1>2. handler' = [handler EXCEPT ![p] = h] /\ h.seen = Nil
    BY <1>1 DEF Idle
  <1> HIDE DEF h
  <1> QED
    BY <1>2, StoreListed, ListedHandler DEF Receive

LEMMA EnsureListed ==
    ASSUME IInv, NoneUnlisted, NEW p \in Handlers, EnsureStep(p)
    PROVE  NoneUnlisted'
  <1>0. handler[p] \in Handler /\ handler \in [Handlers -> Handler]
    BY DEF IInv, TypeOK
  <1>1. CASE CreateGateway(p)
    <2> DEFINE name == AppName[handler[p].req.id]
               h == [handler[p] EXCEPT !.pc = "get",
                                       !.answer = IF name \in gateway THEN "exists" ELSE "ok"]
    <2>1. handler' = [handler EXCEPT ![p] = h] /\ h.seen = handler[p].seen
      BY <1>0, <1>1 DEF CreateGateway, Handler
    <2> HIDE DEF h
    <2> QED
      BY <1>1, <2>1, StoreListed, ListedHandler DEF CreateGateway, bounds
  <1>2. CASE GetVS(p)
    <2> DEFINE h == [handler[p] EXCEPT !.pc = "put", !.seen = vs[NameOf(p)]]
    <2>1. handler' = [handler EXCEPT ![p] = h] /\ h.seen = vs[NameOf(p)]
      BY <1>0, <1>2 DEF GetVS, Handler
    <2>2. NameOf(p) \in Names
      BY <1>2, NameOfType DEF GetVS, At, Steps
    <2> HIDE DEF h
    <2> QED
      BY <1>2, <2>1, <2>2, StoreListed, ListedHandler DEF GetVS, bounds
  <1>3. CASE PutVS(p)
    <2> DEFINE o == IF Exists(handler[p].seen) THEN handler[p].seen ELSE New
               m == Published(o, handler[p].req)
    <2>1. ASSUME events = 0, NEW n \in Names
          PROVE  AllListed(vs'[n])
      <3>1. CASE UNCHANGED services
        BY <2>1, <3>1, StoreListed
      <3>2. CASE Write(NameOf(p), m)
        <4>1. /\ NameOf(p) \in Names /\ handler[p].req \in EnsureRequest
              /\ o \in VirtualService /\ Served(o)
          BY <1>3, PutSends DEF PutVS
        <4>2. AllListed(o)
          BY <2>1, NewListed DEF NoneUnlisted
        <4>3. m \in VirtualService
          BY <4>1, PublishedType
        <4>4. m.annotated = handler[p].req.cnames /\ m.hosts \cap CNames = handler[p].req.cnames
          BY <4>1, <4>2, PublishedFulfils
        <4> HIDE DEF m
        <4>5. CASE n = NameOf(p)
          BY <3>2, <4>1, <4>3, <4>4, <4>5, WriteLeaves, WriteAnnotates DEF AllListed
        <4>6. CASE n # NameOf(p)
          BY <2>1, <3>2, <4>1, <4>3, <4>6, WriteLeaves DEF NoneUnlisted
        <4> QED
          BY <4>5, <4>6
      <3> QED
        BY <1>3, <3>1, <3>2 DEF PutVS
    <2>2. PICK outcome : End(p, outcome)
      BY <1>3 DEF PutVS
    <2> QED
      BY <1>3, <2>1, <2>2, EndListed DEF PutVS, bounds
  <1> QED
    BY <1>1, <1>2, <1>3 DEF EnsureStep

LEMMA RemoveListed ==
    ASSUME IInv, NoneUnlisted, NEW p \in Handlers, RemoveStep(p)
    PROVE  NoneUnlisted'
  <1>0. handler[p] \in Handler /\ handler \in [Handlers -> Handler]
    BY DEF IInv, TypeOK
  <1>1. CASE RemoveGet(p)
    <2>1. CASE End(p, "error")
      BY <1>1, <2>1, StoreListed, EndListed DEF RemoveGet, bounds
    <2>2. CASE handler' = [handler EXCEPT ![p] = [@ EXCEPT !.pc = "detach", !.seen = vs[NameOf(p)]]]
      <3> DEFINE h == [handler[p] EXCEPT !.pc = "detach", !.seen = vs[NameOf(p)]]
      <3>1. handler' = [handler EXCEPT ![p] = h] /\ h.seen = vs[NameOf(p)]
        BY <1>0, <2>2 DEF Handler
      <3>2. NameOf(p) \in Names
        BY <1>1, NameOfType DEF RemoveGet, At, Steps
      <3> HIDE DEF h
      <3> QED
        BY <1>1, <3>1, <3>2, StoreListed, ListedHandler DEF RemoveGet, bounds
    <2> QED
      BY <1>1, <2>1, <2>2 DEF RemoveGet
  <1>2. CASE DetachVS(p)
    <2> DEFINE o == handler[p].seen
               m == Detached(o, handler[p].req.id)
    <2>1. ASSUME events = 0, NEW n \in Names
          PROVE  AllListed(vs'[n])
      <3>1. CASE UNCHANGED services
        BY <2>1, <3>1, StoreListed
      <3>2. CASE Write(NameOf(p), m)
        <4>1. /\ NameOf(p) \in Names /\ handler[p].req.id \in Ids /\ o \in VirtualService
          BY <1>2, DetachSends DEF DetachVS
        <4>2. o.hosts \cap CNames = o.annotated
          BY <2>1, <4>1, NilAssumption DEF NoneUnlisted, AllListed, Exists
        <4>3. m \in VirtualService /\ m.annotated = o.annotated /\ m.hosts = o.hosts
          BY <4>1, DetachedType
        <4> HIDE DEF m
        <4>4. CASE n = NameOf(p)
          BY <3>2, <4>1, <4>2, <4>3, <4>4, WriteLeaves, WriteAnnotates DEF AllListed
        <4>5. CASE n # NameOf(p)
          BY <2>1, <3>2, <4>1, <4>3, <4>5, WriteLeaves DEF NoneUnlisted
        <4> QED
          BY <4>4, <4>5
      <3> QED
        BY <1>2, <3>1, <3>2 DEF DetachVS
    <2>2. CASE End(p, "error")
      BY <1>2, <2>1, <2>2, EndListed DEF DetachVS, bounds
    <2>3. CASE handler' = [handler EXCEPT ![p] = [@ EXCEPT !.pc = "delete", !.seen = Nil]]
      <3> DEFINE h == [handler[p] EXCEPT !.pc = "delete", !.seen = Nil]
      <3>1. handler' = [handler EXCEPT ![p] = h] /\ h.seen = Nil
        BY <1>0, <2>3 DEF Handler
      <3> HIDE DEF h
      <3> QED
        BY <1>2, <2>1, <3>1, ListedHandler DEF DetachVS, bounds
    <2> QED
      BY <1>2, <2>2, <2>3 DEF DetachVS
  <1>3. CASE DeleteGateway(p)
    BY <1>3, StoreListed, EndListed DEF DeleteGateway, bounds
  <1> QED
    BY <1>1, <1>2, <1>3 DEF RemoveStep

\* Once an operator has written, nothing is claimed.
LEMMA EventUnlisted ==
    ASSUME IInv, Event
    PROVE  events' # 0
  BY DEF IInv, TypeOK, Event

LEMMA StaysListed == IInv /\ NoneUnlisted /\ [Next]_vars => NoneUnlisted'
  <1> SUFFICES ASSUME IInv, NoneUnlisted, [Next]_vars PROVE NoneUnlisted'
    OBVIOUS
  <1>1. CASE UNCHANGED vars
    BY <1>1 DEF vars, services, bounds, NoneUnlisted, AllListed, Exists
  <1>2. ASSUME NEW p \in Handlers, Fail(p)
        PROVE  NoneUnlisted'
    BY <1>2, StoreListed, EndListed DEF Fail
  <1>3. ASSUME NEW n \in Names, DeleteVS(n) \/ \E host \in OtherHosts \cup CNames : AddHost(n, host)
        PROVE  NoneUnlisted'
    BY <1>3, EventUnlisted DEF DeleteVS, AddHost, NoneUnlisted
  <1> QED
    BY <1>1, <1>2, <1>3, ReceiveListed, EnsureListed, RemoveListed DEF Next

-----------------------------------------------------------------------------
(* InTurn.                                                                 *)

\* What the steps of a handler have in common: it is not idle afterwards, and the others
\* stand where they stood.
LEMMA OneMoves ==
    ASSUME IInv, NEW p \in Handlers,
           Receive(p) \/ Fail(p) \/ EnsureStep(p) \/ RemoveStep(p)
    PROVE  /\ handler'[p].pc # "idle"
           /\ \A q \in Handlers \ {p} : handler'[q] = handler[q]
  <1>0. handler \in [Handlers -> Handler] /\ handler[p] \in Handler
    BY DEF IInv, TypeOK
  <1>1. ASSUME NEW outcome, outcome # "idle", End(p, outcome)
        PROVE  /\ handler'[p].pc # "idle"
               /\ \A q \in Handlers \ {p} : handler'[q] = handler[q]
    BY <1>0, <1>1 DEF End, Idle
  <1>2. CASE Receive(p)
    BY <1>0, <1>2 DEF Receive, Idle
  <1>3. CASE CreateGateway(p)
    BY <1>0, <1>3 DEF CreateGateway, Handler
  <1>4. CASE GetVS(p)
    BY <1>0, <1>4 DEF GetVS, Handler
  <1>5. CASE RemoveGet(p)
    BY <1>0, <1>1, <1>5 DEF RemoveGet, Handler
  <1>6. CASE PutVS(p)
    BY <1>0, <1>1, <1>6 DEF PutVS, Handler
  <1>7. CASE DetachVS(p)
    BY <1>0, <1>1, <1>7 DEF DetachVS, Handler
  <1>8. CASE Fail(p) \/ DeleteGateway(p)
    BY <1>1, <1>8 DEF Fail, DeleteGateway
  <1> QED
    BY <1>2, <1>3, <1>4, <1>5, <1>6, <1>7, <1>8 DEF EnsureStep, RemoveStep

\* So a handler that is alone after a step of one is the one that took it.
LEMMA AloneMoved ==
    ASSUME IInv, NEW p \in Handlers, NEW q \in Handlers, Alone(q)',
           Receive(p) \/ Fail(p) \/ EnsureStep(p) \/ RemoveStep(p)
    PROVE  p = q /\ Alone(p)
  BY OneMoves DEF Alone, At

\* A request begins, or ends without having done its work.
LEMMA StartsOrStops ==
    ASSUME IInv, InTurn, NEW p \in Handlers, Alone(p), UNCHANGED <<gateway, services>>,
           handler'[p].pc \in {"gateway", "find", "error", "detach"}
    PROVE  Achieved(p)' /\ \A i \in Ids : GatewayThere(i)'
  <1>1. \A i \in Ids : GatewayThere(i)
    BY DEF InTurn
  <1>2. \A i \in Ids : GatewayThere(i)'
    BY <1>1 DEF GatewayThere, services, Exists, Plain
  <1> QED
    BY <1>2 DEF Achieved

LEMMA CreateGatewayAchieves ==
    ASSUME IInv, InTurn, NEW p \in Handlers, Alone(p), CreateGateway(p)
    PROVE  Achieved(p)' /\ \A i \in Ids : GatewayThere(i)'
  <1>1. handler'[p].pc = "get" /\ handler'[p].req = handler[p].req
    BY DEF CreateGateway, IInv, TypeOK, Handler
  <1>2. AppName[handler[p].req.id] \in gateway' /\ gateway \subseteq gateway'
    BY DEF CreateGateway
  <1>3. Achieved(p)'
    BY <1>1, <1>2 DEF Achieved
  <1>4. \A i \in Ids : GatewayThere(i)
    BY DEF InTurn
  <1>5. \A i \in Ids : GatewayThere(i)'
    BY <1>2, <1>4 DEF CreateGateway, GatewayThere, services, Exists, Plain
  <1> QED
    BY <1>3, <1>5

LEMMA GetVSAchieves ==
    ASSUME IInv, InTurn, NEW p \in Handlers, Alone(p), GetVS(p)
    PROVE  Achieved(p)' /\ \A i \in Ids : GatewayThere(i)'
  <1>1. handler'[p].pc = "put" /\ handler'[p].req = handler[p].req
    BY DEF GetVS, IInv, TypeOK, Handler
  <1>2. AppName[handler[p].req.id] \in gateway
    BY DEF GetVS, At, InTurn, Achieved
  <1>3. Achieved(p)'
    BY <1>1, <1>2 DEF Achieved, GetVS
  <1>4. \A i \in Ids : GatewayThere(i)
    BY DEF InTurn
  <1>5. \A i \in Ids : GatewayThere(i)'
    BY <1>4 DEF GetVS, GatewayThere, services, Exists, Plain
  <1> QED
    BY <1>3, <1>5

LEMMA EndsAs ==
    ASSUME IInv, NEW p \in Handlers, NEW outcome, End(p, outcome)
    PROVE  handler'[p].pc = outcome /\ handler'[p].req = handler[p].req
  BY DEF End, Idle, IInv, TypeOK

\* The write that makes an Ensure take effect.
LEMMA PutVSAchieves ==
    ASSUME IInv, NoneUnlisted, InTurn, NEW p \in Handlers, Alone(p), PutVS(p)
    PROVE  Achieved(p)' /\ \A i \in Ids : GatewayThere(i)'
  <1> DEFINE o == IF Exists(handler[p].seen) THEN handler[p].seen ELSE New
             r == handler[p].req
             m == Published(o, r)
             n == NameOf(p)
  <1>1. CASE End(p, "error") /\ UNCHANGED services
    <2>1. handler'[p].pc = "error"
      BY <1>1, EndsAs
    <2> QED
      BY <1>1, <2>1, StartsOrStops DEF PutVS
  <1>2. CASE Write(n, m) /\ End(p, handler[p].answer)
    <2>1. n \in Names /\ r \in EnsureRequest /\ o \in VirtualService /\ Served(o)
      BY PutSends DEF PutVS
    <2>2. events = 0 => AllListed(o)
      BY NewListed DEF NoneUnlisted
    <2>3. m \in VirtualService
      BY <2>1, PublishedType
    <2>4. /\ m.annotated = r.cnames
          /\ r.cnames \cup {GatewayHost[r.id], r.service} \subseteq m.hosts
          /\ ResourceName[r.id] \in m.gateways /\ r.service \in m.routes
          /\ events = 0 => m.hosts \cap CNames = r.cnames
      BY <2>1, <2>2, PublishedFulfils
    <2>5. AppName[r.id] \in gateway /\ UNCHANGED <<gateway, events>>
      BY DEF PutVS, At, InTurn, Achieved, bounds
    <2>6. handler'[p].pc = handler[p].answer /\ handler'[p].req = r
      BY <1>2, EndsAs
    <2>7. handler[p].answer \in {"ok", "exists"}
      BY DEF IInv, TypeOK, Handler
    <2> HIDE DEF m
    <2>8. /\ \A k \in Names \ {n} : vs'[k] = vs[k]
          /\ vs'[n].hosts = m.hosts /\ vs'[n].annotated = m.annotated
          /\ vs'[n].routes = m.routes /\ vs'[n].gateways = m.gateways
      BY <1>2, <2>1, <2>3, WriteLeaves, WriteAnnotates
    <2> HIDE DEF o, r, n
    <2>9. n = ResourceName[r.id]
      BY DEF n, r, NameOf
    <2>10. Fulfilled(handler[p].req)'
      BY <2>4, <2>5, <2>6, <2>8, <2>9 DEF Fulfilled
    <2>11. Achieved(p)'
      <3>1. handler'[p].pc \notin {"get", "put", "delete"}
        BY <2>6, <2>7
      <3>2. handler'[p].req \in RequestType
        BY <2>1, <2>6 DEF RequestType
      <3> QED
        BY <2>10, <3>1, <3>2 DEF Achieved
    <2>12. ASSUME NEW i \in Ids
           PROVE  GatewayThere(i)'
      <3>1. CASE ResourceName[i] = n
        <4>1. r.id \in Ids
          BY <2>1 DEF EnsureRequest
        <4>2. Plain(i) => AppName[r.id] = ResourceName[i]
          BY <2>9, <3>1, <4>1 DEF Plain
        <4> QED
          BY <2>5, <4>2 DEF GatewayThere, Plain
      <3>2. CASE ResourceName[i] # n
        <4>1. vs'[ResourceName[i]] = vs[ResourceName[i]]
          BY <2>8, <3>2, NamesAssumption
        <4>2. GatewayThere(i)
          BY DEF InTurn
        <4> QED
          BY <2>5, <4>1, <4>2 DEF GatewayThere, Exists, Plain
      <3> QED
        BY <3>1, <3>2
    <2> QED
      BY <2>11, <2>12
  <1> QED
    BY <1>1, <1>2 DEF PutVS

LEMMA DetachVSAchieves ==
    ASSUME IInv, InTurn, NEW p \in Handlers, Alone(p), DetachVS(p)
    PROVE  Achieved(p)' /\ \A i \in Ids : GatewayThere(i)'
  <1> DEFINE o == handler[p].seen
             m == Detached(o, handler[p].req.id)
             n == NameOf(p)
  <1>1. CASE End(p, "error") /\ UNCHANGED services
    <2>1. handler'[p].pc = "error"
      BY <1>1, EndsAs
    <2> QED
      BY <1>1, <2>1, StartsOrStops DEF DetachVS
  <1>2. CASE /\ Write(n, m)
             /\ handler' = [handler EXCEPT ![p] = [@ EXCEPT !.pc = "delete", !.seen = Nil]]
    <2>1. n \in Names /\ handler[p].req.id \in Ids /\ o \in VirtualService
      BY DetachSends DEF DetachVS
    <2>2. m \in VirtualService /\ m.gateways = o.gateways \ {n}
      BY <2>1, DetachedType DEF NameOf
    <2>3. handler'[p].pc = "delete" /\ handler'[p].req = handler[p].req
      BY <1>2 DEF IInv, TypeOK, Handler
    <2> HIDE DEF m
    <2>4. /\ \A k \in Names \ {n} : vs'[k] = vs[k]
          /\ n \notin vs'[n].gateways
      BY <1>2, <2>1, <2>2, WriteLeaves
    <2>5. NameOf(p)' = n
      BY <2>3 DEF NameOf
    <2> HIDE DEF n
    <2>6. Achieved(p)'
      BY <2>3, <2>4, <2>5 DEF Achieved
    <2>7. \A i \in Ids : GatewayThere(i)
      BY DEF InTurn
    <2>8. \A i \in Ids : ResourceName[i] \in Names
      BY NamesAssumption
    <2>9. \A i \in Ids : GatewayThere(i)'
      BY <2>4, <2>7, <2>8 DEF DetachVS, GatewayThere, Exists, Plain
    <2> QED
      BY <2>6, <2>9
  <1> QED
    BY <1>1, <1>2 DEF DetachVS

\* The Gateway goes last: nothing refers to it any more.
LEMMA DeleteGatewayAchieves ==
    ASSUME IInv, InTurn, NEW p \in Handlers, Alone(p), DeleteGateway(p)
    PROVE  Achieved(p)' /\ \A i \in Ids : GatewayThere(i)'
  <1>1. PICK outcome \in {"ok", "error"} : End(p, outcome)
    BY DEF DeleteGateway
  <1>2. handler'[p].pc \in {"ok", "error"} /\ handler'[p].req = handler[p].req
    BY <1>1, EndsAs
  <1>3. handler[p].req \in RemoveRequest
    BY DEF DeleteGateway, At, IInv, Staged, StageOK, RemovePCs
  <1>4. Achieved(p)'
    BY <1>2, <1>3 DEF Achieved, RemoveRequest, RequestType
  <1>5. Exists(vs[NameOf(p)]) => NameOf(p) \notin vs[NameOf(p)].gateways
    BY DEF DeleteGateway, At, InTurn, Achieved
  <1>6. \A i \in Ids : GatewayThere(i)
    BY DEF InTurn
  <1>7. \A i \in Ids : GatewayThere(i)'
    BY <1>5, <1>6 DEF DeleteGateway, GatewayThere, services, Exists, Plain
  <1> QED
    BY <1>4, <1>7

\* An operator adds hosts and takes VirtualServices away: neither undoes what a
\* request has done.
LEMMA OperatorsSpare ==
    ASSUME IInv, InTurn, NEW n \in Names,
           DeleteVS(n) \/ \E host \in OtherHosts \cup CNames : AddHost(n, host),
           NEW p \in Handlers, Alone(p)'
    PROVE  Achieved(p)' /\ \A i \in Ids : GatewayThere(i)'
  <1>1. /\ UNCHANGED <<gateway, handler>> /\ events' # 0
        /\ vs \in [Names -> VirtualService \cup {Nil}]
    BY EventUnlisted DEF DeleteVS, AddHost, IInv, TypeOK
  <1>2. ASSUME NEW k \in Names, Exists(vs'[k])
        PROVE  /\ Exists(vs[k]) /\ vs'[k].gateways = vs[k].gateways
               /\ vs'[k].annotated = vs[k].annotated /\ vs'[k].routes = vs[k].routes
               /\ vs[k].hosts \subseteq vs'[k].hosts
    <2>1. CASE DeleteVS(n)
      BY <1>1, <1>2, <2>1 DEF DeleteVS, Exists
    <2>2. ASSUME NEW host \in OtherHosts \cup CNames, AddHost(n, host)
          PROVE  /\ Exists(vs[k]) /\ vs'[k].gateways = vs[k].gateways
                 /\ vs'[k].annotated = vs[k].annotated /\ vs'[k].routes = vs[k].routes
                 /\ vs[k].hosts \subseteq vs'[k].hosts
      <3> DEFINE o == [vs[n] EXCEPT !.hosts = vs[n].hosts \cup {host}, !.rv = version[n] + 1]
      <3>1. vs[n] \in VirtualService
        BY <1>1, <2>2 DEF AddHost, Exists
      <3>2. /\ o.gateways = vs[n].gateways /\ o.annotated = vs[n].annotated
            /\ o.routes = vs[n].routes /\ vs[n].hosts \subseteq o.hosts
        BY <3>1 DEF VirtualService
      <3>3. vs' = [vs EXCEPT ![n] = o] /\ Exists(vs[n])
        BY <1>1, <2>2 DEF AddHost
      <3> HIDE DEF o
      <3> QED
        BY <1>1, <1>2, <3>2, <3>3
    <2> QED
      BY <2>1, <2>2
  <1>3. Alone(p) /\ Achieved(p) /\ \A i \in Ids : GatewayThere(i)
    BY <1>1 DEF Alone, At, InTurn
  <1>4. ASSUME NEW i \in Ids
        PROVE  GatewayThere(i)'
    BY <1>1, <1>2, <1>3, NamesAssumption DEF GatewayThere, Plain, Exists
  <1>5. Achieved(p)'
    <2>1. ASSUME handler[p].pc \in {"ok", "exists"}, handler[p].req.op = "Ensure"
          PROVE  Fulfilled(handler[p].req)'
      <3>1. handler[p].req \in EnsureRequest
        BY <1>3, <2>1 DEF Achieved, RequestType, RemoveRequest
      <3>2. ResourceName[handler[p].req.id] \in Names
        BY <3>1, NamesAssumption DEF EnsureRequest
      <3>3. Fulfilled(handler[p].req)
        BY <1>3, <2>1 DEF Achieved
      <3> QED
        BY <1>1, <1>2, <3>2, <3>3 DEF Fulfilled, Exists
    <2>2. ASSUME handler[p].pc = "delete", Exists(vs'[NameOf(p)])
          PROVE  NameOf(p) \notin vs'[NameOf(p)].gateways
      <3>1. NameOf(p) \in Names
        BY <2>2, NameOfType DEF Steps
      <3> QED
        BY <1>2, <1>3, <2>2, <3>1 DEF Achieved
    <2>3. NameOf(p)' = NameOf(p)
      BY <1>1 DEF NameOf
    <2> QED
      BY <1>1, <1>3, <2>1, <2>2, <2>3 DEF Achieved, Exists
  <1> QED
    BY <1>4, <1>5

LEMMA InductiveSerial == IInvSerial /\ [Next]_vars => IInvSerial'
  <1> SUFFICES ASSUME IInvSerial, [Next]_vars PROVE IInvSerial'
    OBVIOUS
  <1>1. IInv' /\ NoneUnlisted'
    BY Inductive, StaysListed DEF IInvSerial
  <1>2. InTurn'
    <2> SUFFICES ASSUME NEW p \in Handlers, Alone(p)'
                 PROVE  Achieved(p)' /\ \A i \in Ids : GatewayThere(i)'
      BY DEF InTurn
    <2> USE DEF IInvSerial
    <2>1. CASE UNCHANGED vars
      <3>1. Alone(p)
        BY <2>1 DEF Alone, At, vars
      <3>2. Achieved(p) /\ \A i \in Ids : GatewayThere(i)
        BY <3>1 DEF InTurn
      <3>3. \A i \in Ids : GatewayThere(i)'
        BY <2>1, <3>2 DEF GatewayThere, vars, services, Exists, Plain
      <3>4. Achieved(p)'
        BY <2>1, <3>2 DEF Achieved, NameOf, Fulfilled, vars, services, bounds, Exists
      <3> QED
        BY <3>3, <3>4
    <2>2. ASSUME NEW q \in Handlers,
                 Receive(q) \/ Fail(q) \/ EnsureStep(q) \/ RemoveStep(q)
          PROVE  Achieved(p)' /\ \A i \in Ids : GatewayThere(i)'
      <3>1. p = q /\ Alone(p)
        BY <2>2, AloneMoved
      <3>2. CASE Receive(p) \/ Fail(p)
        <4>1. CASE Receive(p)
          <5>1. handler \in [Handlers -> Handler]
            BY DEF IInv, TypeOK
          <5>2. handler'[p].pc \in {"gateway", "find"}
            BY <4>1, <5>1 DEF Receive, Idle
          <5> QED
            BY <3>1, <4>1, <5>2, StartsOrStops DEF Receive
        <4>2. CASE Fail(p)
          <5>1. End(p, "error") /\ UNCHANGED <<gateway, services>>
            BY <4>2 DEF Fail
          <5>2. handler'[p].pc = "error"
            BY <5>1, EndsAs
          <5> QED
            BY <3>1, <5>1, <5>2, StartsOrStops
        <4> QED
          BY <3>2, <4>1, <4>2
      <3>3. CASE RemoveGet(p)
        <4>1. End(p, "error") => handler'[p].pc = "error"
          BY EndsAs
        <4>2. handler[p] \in Handler /\ handler \in [Handlers -> Handler]
          BY DEF IInv, TypeOK
        <4> DEFINE h == [handler[p] EXCEPT !.pc = "detach", !.seen = vs[NameOf(p)]]
        <4>3. h.pc = "detach"
          BY <4>2 DEF Handler
        <4>4. End(p, "error") \/ handler' = [handler EXCEPT ![p] = h]
          BY <3>3 DEF RemoveGet
        <4> HIDE DEF h
        <4>5. handler'[p].pc \in {"detach", "error"}
          BY <4>1, <4>2, <4>3, <4>4
        <4> QED
          BY <3>1, <3>3, <4>5, StartsOrStops DEF RemoveGet
      <3> QED
        BY <2>2, <3>1, <3>2, <3>3, CreateGatewayAchieves, GetVSAchieves, PutVSAchieves,
           DetachVSAchieves, DeleteGatewayAchieves DEF EnsureStep, RemoveStep
    <2> QED
      BY <2>1, <2>2, OperatorsSpare DEF Next
  <1> QED
    BY <1>1, <1>2 DEF IInvSerial

LEMMA InvariantSerial == Spec => []IInvSerial
  <1>1. Init => IInvSerial
    <2> SUFFICES ASSUME Init PROVE IInvSerial
      OBVIOUS
    <2>1. \A p \in Handlers : handler[p] = Idle
      BY DEF Init
    <2>2. \A n \in Names : vs[n] = Nil
      BY DEF Init
    <2>3. NoneUnlisted
      BY <2>1, <2>2 DEF NoneUnlisted, AllListed, Exists, Idle
    <2>4. \A p \in Handlers : Achieved(p)
      BY <2>1 DEF Achieved, Idle
    <2>5. \A i \in Ids : GatewayThere(i)
      BY <2>2, NamesAssumption DEF GatewayThere, Exists
    <2> QED
      BY <2>3, <2>4, <2>5, Initially DEF IInvSerial, InTurn
  <1> QED
    BY <1>1, InductiveSerial, PTL DEF Spec

\* After an Ensure that did its work the VirtualService has what was asked for, however
\* often earlier requests failed half-way.
THEOREM EnsuredIsApplied == Spec => []EnsureApplied
  <1>1. IInvSerial => EnsureApplied
    <2> SUFFICES ASSUME IInvSerial, NEW p \in Handlers, Serial,
                        handler[p].pc \in {"ok", "exists"}, handler[p].req.op = "Ensure"
                 PROVE  Fulfilled(handler[p].req)
      BY DEF EnsureApplied
    <2>1. PICK q \in Handlers : \A k \in Handlers \ {q} : At(k, "idle")
      BY DEF Serial
    <2>2. p = q
      BY <2>1 DEF At
    <2>3. Achieved(p)
      BY <2>1, <2>2 DEF IInvSerial, InTurn, Alone
    <2> QED
      BY <2>3 DEF Achieved
  <1> QED
    BY <1>1, InvariantSerial, PTL

\* A VirtualService refers to a Gateway that is there, at every step of requests that
\* come one after the other.
THEOREM NothingDangles == Spec => []NoDangling
  <1>1. IInvSerial => NoDangling
    BY DEF IInvSerial, InTurn, Alone, Serial, NoDangling, GatewayThere
  <1> QED
    BY <1>1, InvariantSerial, PTL

-----------------------------------------------------------------------------
(* The abstract specification.                                             *)

\* Host by host, vsAddHost and vsRemoveHost replace the annotated CNames by those wanted.
LEMMA HostsOfIs ==
    ASSUME NEW hosts, NEW annotated \in SUBSET CNames, annotated \subseteq hosts,
           NEW cnames \in SUBSET CNames, NEW more, more \cap CNames = {}
    PROVE  /\ HostsOf(hosts \cup more, annotated, cnames)
                = (hosts \ annotated) \cup cnames \cup more
           /\ AnnotatedOf(hosts \cup more, annotated, cnames) = cnames
  <1>1. AnnotatedOf(hosts \cup more, annotated, cnames) = cnames
    BY DEF AnnotatedOf, CNamesToAdd, CNamesToRemove
  <1>2. CASE CNamesToAdd(annotated, cnames) \cup CNamesToRemove(annotated, cnames) = {}
    <2>1. annotated = cnames
      BY <1>2 DEF CNamesToAdd, CNamesToRemove
    <2>2. HostsOf(hosts \cup more, annotated, cnames) = hosts \cup more
      BY <1>2 DEF HostsOf
    <2> QED
      BY <1>1, <2>1, <2>2
  <1>3. CASE CNamesToAdd(annotated, cnames) \cup CNamesToRemove(annotated, cnames) # {}
    <2> DEFINE known == annotated \cup CNamesToAdd(annotated, cnames)
               remove == CNamesToRemove(annotated, cnames)
    <2>1. HostsOf(hosts \cup more, annotated, cnames)
            = ((hosts \cup more) \ known) \cup (known \ remove)
      BY <1>3 DEF HostsOf
    <2>2. known = annotated \cup cnames /\ known \ remove = cnames
      BY DEF CNamesToAdd, CNamesToRemove
    <2>3. (hosts \cup more) \ (annotated \cup cnames)
            = (hosts \ (annotated \cup cnames)) \cup more
      OBVIOUS
    <2> HIDE DEF known, remove
    <2> QED
      BY <1>1, <2>1, <2>2, <2>3
  <1> QED
    BY <1>2, <1>3

LEMMA PublishedIs ==
    ASSUME NEW o \in VirtualService, o.annotated \subseteq o.hosts, NEW r \in EnsureRequest
    PROVE  LET m == Published(o, r) IN
           /\ m \in VirtualService
           /\ m.annotated = r.cnames
           /\ m.hosts = (o.hosts \ o.annotated) \cup r.cnames \cup {GatewayHost[r.id], r.service}
           /\ m.routes = o.routes \cup {r.service}
           /\ m.gateways = o.gateways \cup {ResourceName[r.id]}
  <1> DEFINE more == {GatewayHost[r.id], r.service}
             m == Published(o, r)
  <1>1. /\ o.annotated \in SUBSET CNames /\ r.cnames \in SUBSET CNames
        /\ more \subseteq Services \cup AppHosts
    BY DEF VirtualService, EnsureRequest, AppHosts
  <1>2. more \cap CNames = {}
    BY <1>1, NamesAssumption
  <1>3. Exists(o)
    BY NilAssumption DEF Exists
  <1>4. m \in VirtualService
    BY <1>3, PublishedType DEF Served
  <1>5. o.hosts \cup more = o.hosts \cup {GatewayHost[r.id], r.service}
    OBVIOUS
  <1>6. /\ m.hosts = HostsOf(o.hosts \cup more, o.annotated, r.cnames)
        /\ m.annotated = AnnotatedOf(o.hosts \cup more, o.annotated, r.cnames)
        /\ m.routes = o.routes \cup {r.service}
        /\ m.gateways = o.gateways \cup {ResourceName[r.id]}
    BY DEF Published, VirtualService
  <1>7. PICK extra : extra = more
    OBVIOUS
  <1>8. ASSUME NEW hosts, NEW annotated \in SUBSET CNames, annotated \subseteq hosts,
               NEW cnames \in SUBSET CNames
        PROVE  /\ HostsOf(hosts \cup extra, annotated, cnames)
                    = (hosts \ annotated) \cup cnames \cup extra
               /\ AnnotatedOf(hosts \cup extra, annotated, cnames) = cnames
    <2>1. extra \cap CNames = {}
      BY <1>2, <1>7
    <2> QED
      BY <1>8, <2>1, HostsOfIs
  <1>9. /\ HostsOf(o.hosts \cup extra, o.annotated, r.cnames)
                = (o.hosts \ o.annotated) \cup r.cnames \cup extra
        /\ AnnotatedOf(o.hosts \cup extra, o.annotated, r.cnames) = r.cnames
    BY <1>1, <1>8
  <1> QED
    BY <1>4, <1>6, <1>7, <1>9

LEMMA ViewIs ==
    ASSUME NEW o \in VirtualService
    PROVE  /\ Exists(o)
           /\ View(o) = [cnames |-> o.annotated, hosts |-> o.hosts, routes |-> o.routes,
                         gateways |-> o.gateways]
           /\ View(o) # Nil
  <1>1. Exists(o)
    BY NilAssumption DEF Exists
  <1>2. View(o) \in [cnames : SUBSET CNames, hosts : SUBSET Hosts, routes : SUBSET Services,
                     gateways : SUBSET (Names \cup {Mesh})]
    BY <1>1 DEF View, VirtualService
  <1> QED
    BY <1>1, <1>2, ViewAssumption DEF View

LEMMA BecomesIs ==
    ASSUME NEW n \in Names, \A k \in Names \ {n} : vs'[k] = vs[k],
           NEW o, View(vs'[n]) = o
    PROVE  Abstract!Becomes(n, o)
  <1>1. Views' = [k \in Names |-> View(vs'[k])]
    BY DEF Views, View, Exists
  <1>2. \A k \in Names : Views'[k] = (IF k = n THEN o ELSE Views[k])
    BY <1>1 DEF Views
  <1>3. Views' = [Views EXCEPT ![n] = o]
    BY <1>1, <1>2 DEF Views
  <1> QED
    BY <1>3 DEF Abstract!Becomes

\* A write leaves the other names alone, and shows what was sent.
LEMMA WriteShows ==
    ASSUME IInv, NEW n \in Names, NEW m \in VirtualService, Write(n, m)
    PROVE  /\ \A k \in Names \ {n} : vs'[k] = vs[k]
           /\ View(vs'[n]) = View(m)
  <1>1. vs \in [Names -> VirtualService \cup {Nil}]
    BY DEF IInv, TypeOK
  <1>2. CASE Unchanged(vs[n], m)
    <2>1. vs' = vs
      BY <1>2 DEF Write, services
    <2>2. Exists(vs[n]) /\ [m EXCEPT !.rv = vs[n].rv] = vs[n]
      BY <1>2 DEF Unchanged
    <2>3. /\ [m EXCEPT !.rv = vs[n].rv].hosts = m.hosts
          /\ [m EXCEPT !.rv = vs[n].rv].routes = m.routes
          /\ [m EXCEPT !.rv = vs[n].rv].gateways = m.gateways
          /\ [m EXCEPT !.rv = vs[n].rv].annotated = m.annotated
      BY DEF VirtualService
    <2> QED
      BY <2>1, <2>2, <2>3, ViewIs DEF View
  <1>3. CASE ~Unchanged(vs[n], m)
    <2> DEFINE o == [m EXCEPT !.rv = version[n] + 1]
    <2>1. vs' = [vs EXCEPT ![n] = o]
      BY <1>3 DEF Write
    <2>2. /\ o.hosts = m.hosts /\ o.routes = m.routes /\ o.gateways = m.gateways
          /\ o.annotated = m.annotated
      BY DEF VirtualService
    <2>3. o \in VirtualService
      <3>1. version[n] + 1 \in Nat
        BY DEF IInv, TypeOK
      <3> QED
        BY <3>1 DEF VirtualService
    <2> HIDE DEF o
    <2>4. View(o) = View(m)
      BY <2>2, <2>3, ViewIs
    <2> QED
      BY <1>1, <2>1, <2>4
  <1> QED
    BY <1>2, <1>3

\* A handler at work has one of the requests that may arrive.
Requested == \A p \in Handlers : handler[p].pc \in Steps => handler[p].req \in Requests

LEMMA StaysRequested == IInv /\ Requested /\ [Next]_vars => Requested'
  <1> SUFFICES ASSUME IInv, Requested, Next, NEW p \in Handlers, handler'[p].pc \in Steps
               PROVE  handler'[p].req \in Requests
    BY DEF Requested, vars
  <1>1. handler \in [Handlers -> Handler] /\ "idle" \notin Steps
    BY DEF IInv, TypeOK, Steps
  <1>2. CASE handler'[p] = handler[p]
    BY <1>2 DEF Requested
  <1>3. ASSUME NEW q \in Handlers, NEW outcome \in Ends, End(q, outcome)
        PROVE  handler'[p].req \in Requests
    BY <1>1, <1>2, <1>3 DEF End, Idle, Ends, Steps
  <1>4. ASSUME NEW q \in Handlers, Receive(q)
        PROVE  handler'[p].req \in Requests
    BY <1>1, <1>2, <1>4 DEF Receive, Idle
  <1>5. ASSUME NEW q \in Handlers, handler'[q].req = handler[q].req, handler[q].pc \in Steps,
               \A k \in Handlers \ {q} : handler'[k] = handler[k]
        PROVE  handler'[p].req \in Requests
    BY <1>2, <1>5 DEF Requested
  <1>6. ASSUME NEW q \in Handlers, EnsureStep(q)
        PROVE  handler'[p].req \in Requests
    <2>1. CASE CreateGateway(q) \/ GetVS(q)
      <3>1. handler[q].pc \in Steps
        BY <2>1 DEF CreateGateway, GetVS, At, Steps
      <3>2. CASE CreateGateway(q)
        <4>1. PICK a : handler' = [handler EXCEPT ![q] = [@ EXCEPT !.pc = "get", !.answer = a]]
          BY <3>2 DEF CreateGateway
        <4> QED
          BY <1>1, <1>5, <3>1, <4>1 DEF Handler
      <3>3. CASE GetVS(q)
        <4>1. PICK o : handler' = [handler EXCEPT ![q] = [@ EXCEPT !.pc = "put", !.seen = o]]
          BY <3>3 DEF GetVS
        <4> QED
          BY <1>1, <1>5, <3>1, <4>1 DEF Handler
      <3> QED
        BY <2>1, <3>2, <3>3
    <2>2. CASE PutVS(q)
      <3>1. handler[q].answer \in Ends
        BY <1>1 DEF Handler, Ends
      <3>2. End(q, handler[q].answer) \/ (End(q, "error") /\ "error" \in Ends)
        BY <2>2 DEF PutVS, Ends
      <3> QED
        BY <1>3, <3>1, <3>2
    <2> QED
      BY <1>6, <2>1, <2>2 DEF EnsureStep
  <1>7. ASSUME NEW q \in Handlers, RemoveStep(q)
        PROVE  handler'[p].req \in Requests
    <2>1. CASE RemoveGet(q)
      BY <1>1, <1>3, <1>5, <2>1 DEF RemoveGet, At, Steps, Ends, Handler
    <2>2. CASE DetachVS(q)
      BY <1>1, <1>3, <1>5, <2>2 DEF DetachVS, At, Steps, Ends, Handler
    <2>3. CASE DeleteGateway(q)
      BY <1>3, <2>3 DEF DeleteGateway, Ends
    <2> QED
      BY <1>7, <2>1, <2>2, <2>3 DEF RemoveStep
  <1> QED
    BY <1>2, <1>3, <1>4, <1>6, <1>7 DEF Next, Fail, Ends, AddHost, DeleteVS

LEMMA AlwaysRequested == Spec => []Requested
  <1>1. Init => Requested
    BY DEF Init, Requested, Idle, Steps
  <1> QED
    BY <1>1, StaysRequested, Invariant, PTL DEF Spec

LEMMA PutRefines ==
    ASSUME IInv, Requested, NEW p \in Handlers, PutVS(p)
    PROVE  Abstract!Next \/ UNCHANGED vs
  <1> DEFINE h == handler[p]
             o == IF Exists(h.seen) THEN h.seen ELSE New
             m == Published(o, h.req)
  <1>1. CASE UNCHANGED services
    BY <1>1 DEF services
  <1>2. CASE Accepted(vs[NameOf(p)], h.seen) /\ Write(NameOf(p), m)
    <2>1. PICK n \in Names : n = NameOf(p)
      BY PutSends DEF PutVS
    <2>2. PICK r \in EnsureRequest : r = h.req
      BY PutSends DEF PutVS
    <2>3. n = ResourceName[r.id]
      BY <2>1, <2>2 DEF NameOf
    <2>4. r \in Requests
      <3>1. h.req \in Requests \cup {Nil} /\ h.req # Nil
        BY RequestsAssumption DEF IInv, TypeOK, Handler, PutVS, At, Requested, Steps
      <3> QED
        BY <2>2, <3>1
    <2>5. PICK i \in VirtualService :
            i = o /\ i.annotated \subseteq i.hosts
      BY PutSends, ViewIs DEF PutVS, Served
    <2>6. i = (IF Exists(vs[n]) THEN vs[n] ELSE New)
      <3>1. CASE Exists(vs[n])
        BY <1>2, <2>1, <2>5, <3>1, AcceptedIsCurrent
      <3>2. CASE ~Exists(vs[n])
        BY <1>2, <2>1, <2>5, <3>2 DEF Accepted, Accepts
      <3> QED
        BY <3>1, <3>2
    <2> DEFINE w == [cnames |-> r.cnames, host |-> GatewayHost[r.id], service |-> r.service]
               old == IF Views[n] = Nil THEN Abstract!Empty ELSE Views[n]
               new == [cnames |-> w.cnames,
                       hosts |-> (old.hosts \ old.cnames) \cup w.cnames \cup {w.host, w.service},
                       routes |-> old.routes \cup {w.service},
                       gateways |-> old.gateways \cup {n}]
    <2>7. /\ old.cnames = i.annotated /\ old.hosts = i.hosts
          /\ old.routes = i.routes /\ old.gateways = i.gateways
      <3>1. CASE Exists(vs[n])
        <4>1. i = vs[n] /\ Views[n] = View(i)
          BY <2>6, <3>1 DEF Views
        <4> QED
          BY <4>1, ViewIs
      <3>2. CASE ~Exists(vs[n])
        <4>1. i = New /\ Views[n] = Nil
          BY <2>6, <3>2 DEF Views, View
        <4> QED
          BY <4>1 DEF Abstract!Empty, New
      <3> QED
        BY <3>1, <3>2
    <2>8. View(m) = new
      <3>1. /\ m \in VirtualService /\ m.annotated = r.cnames
            /\ m.hosts = (i.hosts \ i.annotated) \cup r.cnames
                            \cup {GatewayHost[r.id], r.service}
            /\ m.routes = i.routes \cup {r.service}
            /\ m.gateways = i.gateways \cup {n}
        <4>1. m = Published(i, r)
          BY <2>2, <2>5
        <4> QED
          BY <2>3, <2>5, <4>1, PublishedIs
      <3>2. /\ w.cnames = r.cnames /\ w.host = GatewayHost[r.id] /\ w.service = r.service
        OBVIOUS
      <3> HIDE DEF m, old, w
      <3> QED
        BY <2>7, <3>1, <3>2, ViewIs
    <2>9. m \in VirtualService
      BY <2>2, <2>5, PublishedIs
    <2>10. View(vs'[n]) = new /\ \A k \in Names \ {n} : vs'[k] = vs[k]
      <3> HIDE DEF m, new
      <3> QED
        BY <1>2, <2>1, <2>8, <2>9, WriteShows
    <2>11. Abstract!Becomes(n, new)
      <3> HIDE DEF new
      <3> QED
        BY <2>10, BecomesIs
    <2>12. Abstract!Publish(n, w)
      BY <2>11 DEF Abstract!Publish
    <2>13. w \in Wanted[n]
      BY <2>2, <2>3, <2>4 DEF Wanted, EnsureRequest
    <2> HIDE DEF w
    <2> QED
      BY <2>12, <2>13 DEF Abstract!Next
  <1> QED
    BY <1>1, <1>2 DEF PutVS

LEMMA DetachRefines ==
    ASSUME IInv, NEW p \in Handlers, DetachVS(p)
    PROVE  Abstract!Next \/ UNCHANGED vs
  <1> DEFINE h == handler[p]
             m == Detached(h.seen, h.req.id)
  <1>1. CASE UNCHANGED services
    BY <1>1 DEF services
  <1>2. CASE Accepted(vs[NameOf(p)], h.seen) /\ Write(NameOf(p), m)
    <2>1. PICK n \in Names : n = NameOf(p)
      BY DetachSends DEF DetachVS
    <2>2. PICK o \in VirtualService : o = h.seen /\ Exists(o)
      BY DetachSends, ViewIs DEF DetachVS
    <2>3. Exists(vs[n]) /\ o = vs[n]
      <3>1. Exists(vs[n])
        BY <1>2, <2>1, <2>2 DEF Accepted, Accepts, SentVersion
      <3> QED
        BY <1>2, <2>1, <2>2, <3>1, AcceptedIsCurrent
    <2>4. m = [o EXCEPT !.gateways = @ \ {n}]
      BY <2>1, <2>2 DEF Detached, NameOf
    <2>5. /\ m \in VirtualService /\ m.annotated = o.annotated /\ m.hosts = o.hosts
          /\ m.routes = o.routes /\ m.gateways = o.gateways \ {n}
      BY <2>4 DEF VirtualService
    <2>6. Views[n] = View(o) /\ Views[n] # Nil
      BY <2>3, ViewIs DEF Views
    <2>7. View(m) = [Views[n] EXCEPT !.gateways = @ \ {n}]
      <3> HIDE DEF m
      <3>1. View(m) = [cnames |-> o.annotated, hosts |-> o.hosts, routes |-> o.routes,
                       gateways |-> o.gateways \ {n}]
        BY <2>5, ViewIs
      <3> QED
        BY <2>6, <3>1, ViewIs
    <2>8. View(vs'[n]) = View(m) /\ \A k \in Names \ {n} : vs'[k] = vs[k]
      <3> HIDE DEF m
      <3> QED
        BY <1>2, <2>1, <2>5, WriteShows
    <2>9. Abstract!Becomes(n, [Views[n] EXCEPT !.gateways = @ \ {n}])
      <3> HIDE DEF m
      <3> QED
        BY <2>7, <2>8, BecomesIs
    <2> QED
      BY <2>6, <2>9 DEF Abstract!Next, Abstract!Detach
  <1> QED
    BY <1>1, <1>2 DEF DetachVS

LEMMA AddHostRefines ==
    ASSUME IInv, NEW n \in Names, NEW host \in OtherHosts \cup CNames, AddHost(n, host)
    PROVE  Abstract!Next
  <1>1. vs \in [Names -> VirtualService \cup {Nil}] /\ version \in [Names -> Nat]
    BY DEF IInv, TypeOK
  <1>2. PICK o \in VirtualService : o = vs[n]
    BY <1>1 DEF AddHost, Exists
  <1>3. PICK v \in Nat : v = version[n] + 1
    BY <1>1
  <1>4. PICK m : m = [o EXCEPT !.hosts = @ \cup {host}, !.rv = v]
    OBVIOUS
  <1>5. /\ m \in VirtualService /\ m.annotated = o.annotated /\ m.hosts = o.hosts \cup {host}
        /\ m.routes = o.routes /\ m.gateways = o.gateways
    BY <1>4 DEF VirtualService, Hosts
  <1>6. vs' = [vs EXCEPT ![n] = m]
    BY <1>1, <1>2, <1>3, <1>4 DEF AddHost
  <1>7. vs'[n] = m /\ \A k \in Names \ {n} : vs'[k] = vs[k]
    BY <1>1, <1>6
  <1>8. Views[n] = View(o) /\ Views[n] # Nil
    BY <1>2, ViewIs DEF Views
  <1>9. View(m) = [Views[n] EXCEPT !.hosts = @ \cup {host}]
    <2>1. PICK a, h, r, g :
            /\ Views[n] = [cnames |-> a, hosts |-> h, routes |-> r, gateways |-> g]
            /\ View(m) = [cnames |-> a, hosts |-> h \cup {host}, routes |-> r, gateways |-> g]
      BY <1>5, <1>8, ViewIs
    <2> QED
      BY <2>1
  <1>10. Abstract!Becomes(n, [Views[n] EXCEPT !.hosts = @ \cup {host}])
    BY <1>7, <1>9, BecomesIs
  <1> QED
    BY <1>8, <1>10 DEF Abstract!Next, Abstract!AddHost

LEMMA StepRefines == IInv /\ Requested /\ [Next]_vars => [Abstract!Next]_Views
  <1> SUFFICES ASSUME IInv, Requested, [Next]_vars, ~UNCHANGED vs
               PROVE  Abstract!Next
    BY DEF Views, View, Exists
  <1>1. ASSUME NEW p \in Handlers, Receive(p) \/ Fail(p) \/ CreateGateway(p) \/ GetVS(p)
                                    \/ RemoveGet(p) \/ DeleteGateway(p)
        PROVE  FALSE
    BY <1>1 DEF Receive, Fail, CreateGateway, GetVS, RemoveGet, DeleteGateway, services
  <1>2. ASSUME NEW n \in Names, DeleteVS(n)
        PROVE  Abstract!Next
    <2>1. vs \in [Names -> VirtualService \cup {Nil}]
      BY DEF IInv, TypeOK
    <2>2. vs'[n] = Nil /\ \A k \in Names \ {n} : vs'[k] = vs[k]
      BY <1>2, <2>1 DEF DeleteVS
    <2>3. View(vs'[n]) = Nil
      BY <2>2 DEF View, Exists
    <2> QED
      BY <2>2, <2>3, BecomesIs DEF Abstract!Next, Abstract!Vanish
  <1> QED
    BY <1>1, <1>2, PutRefines, DetachRefines, AddHostRefines
       DEF Next, EnsureStep, RemoveStep, vars, services

\* Every request takes effect atomically on the VirtualService it writes, on the one that
\* is there then, however its calls interleave with those of others: IstioGateway
\* implements AtomicVirtualService (istiogateway.go Ensure and Remove: Get, then Update with
\* the version of that Get).
THEOREM Implements == Spec => Atomic
  <1>1. Init => Abstract!Init
    BY DEF Init, Abstract!Init, Views, View, Exists
  <1> QED
    BY <1>1, StepRefines, Invariant, AlwaysRequested, PTL DEF Spec, Atomic, Abstract!Spec
=============================================================================
