------------------------- MODULE LoadBalancerProofs -------------------------
(***************************************************************************)
(* Proofs about LoadBalancer, for any requests, web Services, handlers and *)
(* bounds: it implements AtomicService.                                    *)
(*                                                                         *)
(* The argument: every write gives the Service a version no handler has    *)
(* seen, so a Service that still has the version a handler read is the one *)
(* it read, and an Update the server accepts is computed from the Service  *)
(* that is there.                                                          *)
(***************************************************************************)
EXTENDS LoadBalancerProperties, TLAPS

EnsurePCs == {"get", "web", "put"}

\* What the position of a handler says of its request and of its locals.
StageOK(h) ==
    /\ h.pc \in EnsurePCs => h.req \in EnsureRequest \cap Requests
    /\ h.pc \in {"web", "put"} => ~IsFrozenSvc(h.seen)
    /\ h.pc = "put" => h.web \in WebServices
    /\ h.pc = "ok" /\ h.req # Nil => h.req \in EnsureRequest

Staged == \A p \in Handlers : StageOK(handler[p])

VersionsBound ==
    /\ Exists(service) => service.rv <= version
    /\ \A p \in Handlers : Exists(handler[p].seen) =>
            0 < handler[p].seen.rv /\ handler[p].seen.rv <= version

\* A Service that has the version a handler read is the Service it read.
SeenIsCurrent ==
    \A p \in Handlers :
        LET seen == handler[p].seen IN
        Exists(seen) /\ Exists(service) /\ service.rv = seen.rv => service = seen

Positive == Exists(service) => 0 < service.rv

IInv == TypeOK /\ Staged /\ VersionsBound /\ SeenIsCurrent /\ Positive

-----------------------------------------------------------------------------
(* The values the operators return.                                        *)

LEMMA WantedPortsType ==
    ASSUME NEW r \in EnsureRequest, NEW w \in WebService
    PROVE  WantedPorts(r, w) \subseteq Port
  <1>1. ExposedPort(r) \in Int
    <2>1. CASE r.exposed \in {Nil, 0}
      BY <2>1, WidthAssumption DEF ExposedPort
    <2>2. CASE r.exposed \notin {Nil, 0}
      <3>1. r.exposed \in Int
        BY <2>2 DEF EnsureRequest
      <3>2. Width \div 2 \in Int /\ Width \in Int /\ Width > 0
        BY WidthAssumption
      <3>3. (r.exposed + Width \div 2) % Width \in Int
        BY <3>1, <3>2
      <3> QED
        BY <2>2, <3>2, <3>3 DEF ExposedPort, Int32
    <2> QED
      BY <2>1, <2>2
  <1>2. ExtraPort(r, w) \in Port
    BY <1>1, WidthAssumption DEF ExtraPort, Port, WebService
  <1> QED
    BY <1>2 DEF WantedPorts, WebService

\* The ports of a manifest are the wanted ones, each with a NodePort of its number
\* or with none.
LEMMA SentPortsType ==
    ASSUME NEW o, NEW r \in EnsureRequest, NEW w \in WebService,
           NEW P \in SentPorts(o, r, w)
    PROVE  /\ P \subseteq SentPort
           /\ {e.port : e \in P} = WantedPorts(r, w)
           /\ \A e \in P : e.node \in KeptNodes(o, e.port.number)
  <1>1. PICK m \in SentNodes(o, r, w) : P = WithNodes(m)
    BY DEF SentPorts
  <1>2. /\ m \in [WantedPorts(r, w) -> NodePorts \cup {Nil}]
        /\ \A q \in WantedPorts(r, w) : m[q] \in KeptNodes(o, q.number)
    BY DEF SentNodes
  <1>3. P = {[port |-> q, node |-> m[q]] : q \in WantedPorts(r, w)}
    BY <1>1, <1>2 DEF WithNodes
  <1>4. P \subseteq SentPort
    BY <1>2, <1>3, WantedPortsType DEF SentPort
  <1>5. \A e \in P : e.port \in WantedPorts(r, w) /\ e.node \in KeptNodes(o, e.port.number)
    BY <1>2, <1>3
  <1>6. \A q \in WantedPorts(r, w) : \E e \in P : q = e.port
    <2> SUFFICES ASSUME NEW q \in WantedPorts(r, w)
                 PROVE  \E e \in P : q = e.port
      OBVIOUS
    <2>1. [port |-> q, node |-> m[q]] \in P
      BY <1>3
    <2> QED
      BY <2>1
  <1> QED
    BY <1>4, <1>5, <1>6

\* The server leaves the ports and the NodePorts it is sent.
LEMMA AllocatedType ==
    ASSUME NEW P \in SUBSET SentPort, NEW f \in Allocations(P)
    PROVE  /\ Allocated(P, f) \subseteq NodePort
           /\ {e.port : e \in Allocated(P, f)} = {e.port : e \in P}
           /\ \A d \in Allocated(P, f) : \E e \in P :
                d.port = e.port /\ (e.node # Nil => d.node = e.node)
  <1>1. /\ f \in [P -> NodePorts]
        /\ \A e \in P : e.node # Nil => f[e] = e.node
    BY DEF Allocations
  <1>2. Allocated(P, f) \subseteq NodePort
    BY <1>1 DEF Allocated, SentPort, NodePort
  <1>3. \A d \in Allocated(P, f) : \E e \in P :
            d.port = e.port /\ (e.node # Nil => d.node = e.node)
    BY <1>1 DEF Allocated
  <1>4. \A e \in P : \E d \in Allocated(P, f) : e.port = d.port
    <2> SUFFICES ASSUME NEW e \in P
                 PROVE  \E d \in Allocated(P, f) : e.port = d.port
      OBVIOUS
    <2>1. [port |-> e.port, node |-> f[e]] \in Allocated(P, f)
      BY DEF Allocated
    <2> QED
      BY <2>1
  <1>5. {e.port : e \in Allocated(P, f)} \subseteq {e.port : e \in P}
    BY <1>3
  <1>6. {e.port : e \in P} \subseteq {e.port : e \in Allocated(P, f)}
    BY <1>4
  <1> QED
    BY <1>2, <1>3, <1>5, <1>6

\* What Ensure stores when it sends the Service o back, or creates it (o = Nil).
LEMMA StoredType ==
    ASSUME NEW o \in Service \cup {Nil},
           NEW r \in EnsureRequest \cap Requests, NEW w \in WebServices,
           NEW P \in SentPorts(o, r, w),
           version \in Nat, Store(Manifest(o, r, w, P))
    PROVE  /\ service' \in Service
           /\ service'.rv = version + 1 /\ version' = version + 1
           /\ ~service'.frozen
           /\ service'.terminating = (Exists(o) /\ o.terminating)
           /\ {e.port : e \in service'.ports} = WantedPorts(r, w)
           /\ service'.selector = w.selector /\ service'.marks = w.marks
           /\ service'.policy = IF r.policy # Nil THEN r.policy
                                ELSE IF Exists(o) THEN o.policy ELSE Nil
           /\ \A d \in service'.ports :
                d.node \in KeptNodes(o, d.port.number) \/ KeptNodes(o, d.port.number) = {Nil}
  <1> DEFINE M == Manifest(o, r, w, P)
  <1>1. w \in WebService
    BY WebAssumption
  <1>2. M.ports = P
    BY DEF Manifest
  <1>3. PICK f \in Allocations(P) :
            service' = [M EXCEPT !.ports = Allocated(P, f), !.rv = version + 1]
    BY <1>2 DEF Store
  <1>4. /\ P \subseteq SentPort
        /\ {e.port : e \in P} = WantedPorts(r, w)
        /\ \A e \in P : e.node \in KeptNodes(o, e.port.number)
    BY <1>1, SentPortsType
  <1>5. /\ Allocated(P, f) \subseteq NodePort
        /\ {e.port : e \in Allocated(P, f)} = WantedPorts(r, w)
        /\ \A d \in Allocated(P, f) : \E e \in P :
                d.port = e.port /\ (e.node # Nil => d.node = e.node)
    BY <1>4, AllocatedType
  <1>6. service'.ports = Allocated(P, f)
    BY <1>3 DEF Manifest
  <1>7. service' \in Service
    <2>1. M.terminating \in BOOLEAN /\ M.policy \in Policies \cup {Nil}
      BY DEF Manifest, Service, EnsureRequest, Exists
    <2>2. w.selector \in Selectors /\ w.marks \in SUBSET Marks
      BY <1>1 DEF WebService
    <2>3. service' = [rv |-> version + 1, terminating |-> M.terminating, frozen |-> FALSE,
                      ports |-> Allocated(P, f), selector |-> w.selector,
                      policy |-> M.policy, opts |-> r, marks |-> w.marks]
      BY <1>3 DEF Manifest
    <2>4. version + 1 \in Nat
      OBVIOUS
    <2> QED
      BY <1>5, <2>1, <2>2, <2>3, <2>4 DEF Service
  <1>8. \A d \in service'.ports :
            d.node \in KeptNodes(o, d.port.number) \/ KeptNodes(o, d.port.number) = {Nil}
    <2> SUFFICES ASSUME NEW d \in Allocated(P, f), KeptNodes(o, d.port.number) # {Nil}
                 PROVE  d.node \in KeptNodes(o, d.port.number)
      BY <1>6
    <2>1. PICK e \in P : d.port = e.port /\ (e.node # Nil => d.node = e.node)
      BY <1>5
    <2>2. e.node \in NodesOf(o, d.port.number)
      BY <1>4, <2>1 DEF KeptNodes
    <2>3. e.node # Nil
      BY <2>2, NilAssumption DEF NodesOf, Numbered, Service, NodePort, Exists
    <2> QED
      BY <1>4, <2>1, <2>3
  <1>9. version' = version + 1
    BY DEF Store
  <1> QED
    BY <1>3, <1>5, <1>6, <1>7, <1>8, <1>9 DEF Manifest

\* The NodePort of a port alone with its number is kept.
LEMMA StoredKeepsNodes ==
    ASSUME NEW o \in Service, NEW P \in SUBSET NodePort,
           \A d \in P : d.node \in KeptNodes(o, d.port.number)
                            \/ KeptNodes(o, d.port.number) = {Nil}
    PROVE  Abstract!KeepsNodes(o.ports, P)
  <1> SUFFICES ASSUME NEW e \in o.ports, NEW d \in P,
                      e.port.number = d.port.number,
                      \A t \in o.ports : t.port.number = e.port.number => t = e
               PROVE  d.node = e.node
    BY DEF Abstract!KeepsNodes
  <1>1. Exists(o)
    BY ServiceAssumption DEF Exists
  <1>2. NodesOf(o, d.port.number) = {e.node}
    BY <1>1 DEF NodesOf, Numbered
  <1>3. e.node # Nil
    BY NilAssumption DEF Service, NodePort
  <1> QED
    BY <1>2, <1>3 DEF KeptNodes

-----------------------------------------------------------------------------
(* The invariant.                                                          *)

LEMMA Initially == Init => IInv
  <1> SUFFICES ASSUME Init PROVE IInv
    OBVIOUS
  <1>1. Idle \in Handler
    BY DEF Idle, Handler, Ends
  <1>2. \A p \in Handlers : handler[p] = Idle
    BY DEF Init
  <1>3. TypeOK
    BY <1>1 DEF Init, TypeOK
  <1>4. Staged
    BY <1>2 DEF Staged, StageOK, Idle, EnsurePCs
  <1>5. VersionsBound /\ SeenIsCurrent /\ Positive
    BY <1>2 DEF Init, VersionsBound, SeenIsCurrent, Positive, Idle, Exists
  <1> QED
    BY <1>3, <1>4, <1>5 DEF IInv

\* Reading, receiving and returning leave the Service as it is, and a handler
\* with a Service it had read or the one that is there.
LEMMA LocalSteps ==
    ASSUME IInv, UNCHANGED cluster, NEW p \in Handlers,
           NEW h \in Handler, handler' = [handler EXCEPT ![p] = h], StageOK(h),
           h.seen \in {Nil, handler[p].seen, service},
           web' \in WebServices \cup {Nil},
           received' \in Nat, faults' \in Nat, events' \in Nat
    PROVE  IInv'
  <1> USE DEF IInv, cluster
  <1>1. service' = service /\ version' = version
    OBVIOUS
  <1>2. \A q \in Handlers : handler'[q] = IF q = p THEN h ELSE handler[q]
    BY DEF TypeOK
  <1>3. TypeOK'
    BY <1>1 DEF TypeOK
  <1>4. Staged'
    BY <1>2 DEF Staged, StageOK, IsFrozenSvc
  <1>5. \A q \in Handlers : Exists(handler'[q].seen) =>
            \/ Exists(handler[q].seen) /\ handler'[q].seen = handler[q].seen
            \/ Exists(service) /\ handler'[q].seen = service
    BY <1>2 DEF Exists
  <1>6. VersionsBound'
    <2>1. \A q \in Handlers : Exists(handler'[q].seen) =>
            0 < handler'[q].seen.rv /\ handler'[q].seen.rv <= version
      BY <1>5 DEF VersionsBound, Positive
    <2> QED
      BY <1>1, <2>1 DEF VersionsBound
  <1>7. SeenIsCurrent'
    <2>1. ASSUME NEW q \in Handlers,
                 Exists(handler'[q].seen), Exists(service),
                 service.rv = handler'[q].seen.rv
          PROVE  service = handler'[q].seen
      BY <1>5, <2>1 DEF SeenIsCurrent
    <2> QED
      BY <1>1, <2>1 DEF SeenIsCurrent
  <1> QED
    BY <1>1, <1>3, <1>4, <1>6, <1>7 DEF Positive

\* A write by anyone gives the Service a new version; a deletion leaves none.
LEMMA Writes ==
    ASSUME IInv,
           \/ service' = Nil /\ version' \in {version, version + 1}
           \/ service' \in Service /\ service'.rv = version + 1 /\ version' = version + 1
           \/ service' = service /\ version' \in {version, version + 1},
           handler' \in [Handlers -> Handler], Staged',
           \A q \in Handlers : handler'[q].seen \in {Nil, handler[q].seen},
           web' \in WebServices \cup {Nil},
           received' \in Nat, faults' \in Nat, events' \in Nat
    PROVE  IInv'
  <1> USE DEF IInv
  <1>1. version \in Nat /\ version' \in Nat /\ version <= version'
    BY DEF TypeOK
  <1>2. TypeOK'
    BY <1>1 DEF TypeOK
  <1>3. VersionsBound' /\ Positive'
    <2>1. ASSUME NEW q \in Handlers, Exists(handler'[q].seen)
          PROVE  0 < handler'[q].seen.rv /\ handler'[q].seen.rv <= version'
      <3>1. handler'[q].seen = handler[q].seen
        BY <2>1 DEF Exists
      <3>2. handler[q].seen \in Service
        BY <2>1, <3>1 DEF TypeOK, Handler, Exists
      <3> QED
        BY <1>1, <2>1, <3>1, <3>2 DEF VersionsBound, Service
    <2>2. Exists(service') => 0 < service'.rv /\ service'.rv <= version'
      <3>1. CASE service' = service
        <4>1. Exists(service) => service \in Service
          BY DEF TypeOK, Exists
        <4> QED
          BY <1>1, <3>1, <4>1 DEF VersionsBound, Positive, Service
      <3>2. CASE service'.rv = version + 1 /\ version' = version + 1
        BY <1>1, <3>2
      <3>3. CASE service' = Nil
        BY <3>3 DEF Exists
      <3> QED
        BY <3>1, <3>2, <3>3
    <2> QED
      BY <2>1, <2>2 DEF VersionsBound, Positive
  <1>4. SeenIsCurrent'
    <2> SUFFICES ASSUME NEW q \in Handlers,
                        Exists(handler'[q].seen), Exists(service'),
                        service'.rv = handler'[q].seen.rv
                 PROVE  service' = handler'[q].seen
      BY DEF SeenIsCurrent
    <2>1. handler'[q].seen = handler[q].seen
      BY DEF Exists
    <2>2. handler[q].seen \in Service
      BY <2>1 DEF TypeOK, Handler, Exists
    <2>3. handler[q].seen.rv <= version /\ handler[q].seen.rv \in Nat
      BY <2>1, <2>2 DEF VersionsBound, Service
    <2>4. service'.rv # version + 1
      BY <1>1, <2>1, <2>3
    <2>5. service' = service
      BY <2>4 DEF Exists
    <2> QED
      BY <2>1, <2>5 DEF SeenIsCurrent
  <1> QED
    BY <1>2, <1>3, <1>4

\* A handler that returns holds nothing that could be out of date.
LEMMA EndedOK ==
    ASSUME NEW outcome \in Ends
    PROVE  LET h == [Idle EXCEPT !.pc = outcome] IN
           h \in Handler /\ StageOK(h) /\ h.seen = Nil
  BY DEF Idle, Handler, Ends, Steps, StageOK, EnsurePCs

LEMMA SucceededOK ==
    ASSUME NEW h \in Handler, h.req \in EnsureRequest
    PROVE  LET g == [h EXCEPT !.pc = "ok"] IN
           g \in Handler /\ StageOK(g) /\ g.seen = h.seen
  BY DEF Handler, Ends, Steps, StageOK, EnsurePCs

LEMMA UnchangedInvariant == IInv /\ UNCHANGED vars => IInv'
  <1> SUFFICES ASSUME IInv, UNCHANGED vars PROVE IInv'
    OBVIOUS
  <1>1. /\ service' = service /\ version' = version /\ web' = web
        /\ handler' = handler
        /\ received' = received /\ faults' = faults /\ events' = events
    BY DEF vars, cluster, bounds
  <1> QED
    BY <1>1 DEF IInv, TypeOK, Staged, VersionsBound, SeenIsCurrent, Positive

\* The steps that leave the Service as it is: handler p goes on as h.
LEMMA HandlerGoesOn ==
    ASSUME IInv, NEW p \in Handlers, Receive(p) \/ Fail(p) \/ EnsureGet(p)
                                        \/ GetWebService(p) \/ RemoveGet(p)
    PROVE  IInv'
  <1> USE DEF IInv
  <1>1. /\ handler[p] \in Handler /\ StageOK(handler[p])
        /\ service \in Service \cup {Nil} /\ web \in WebServices \cup {Nil}
        /\ received \in Nat /\ faults \in Nat /\ events \in Nat
    BY DEF TypeOK, Staged
  <1>2. CASE Receive(p)
    <2>1. PICK r \in Requests : handler' = [handler EXCEPT ![p] =
            [Idle EXCEPT !.pc = IF r.op = "Ensure" THEN "get" ELSE "find", !.req = r]]
      BY <1>2 DEF Receive
    <2> DEFINE h == [Idle EXCEPT !.pc = IF r.op = "Ensure" THEN "get" ELSE "find", !.req = r]
    <2>2. h \in Handler /\ h.seen = Nil
      BY DEF Idle, Handler, Steps
    <2>3. r.op = "Ensure" => r \in EnsureRequest
      BY RequestsAssumption DEF RequestType, EnsureRequest
    <2>4. StageOK(h)
      BY <2>3 DEF Idle, StageOK, EnsurePCs
    <2>5. /\ UNCHANGED cluster /\ web' = web
          /\ received' \in Nat /\ faults' \in Nat /\ events' \in Nat
      <3>1. received' = received + 1 /\ UNCHANGED <<cluster, web, faults, events>>
        BY <1>2 DEF Receive
      <3> QED
        BY <1>1, <3>1
    <2> QED
      BY <1>1, <2>1, <2>2, <2>4, <2>5, LocalSteps
  <1>3. ASSUME NEW outcome \in Ends, End(p, outcome), UNCHANGED <<cluster, web>>,
               received' \in Nat, faults' \in Nat, events' \in Nat
        PROVE  IInv'
    <2>1. handler' = [handler EXCEPT ![p] = [Idle EXCEPT !.pc = outcome]]
      BY <1>3 DEF End
    <2> QED
      BY <1>1, <1>3, <2>1, EndedOK, LocalSteps
  <1>4. CASE Fail(p)
    <2>1. /\ End(p, "error") /\ UNCHANGED <<cluster, web>>
          /\ received' \in Nat /\ faults' \in Nat /\ events' \in Nat
      BY <1>1, <1>4 DEF Fail
    <2> QED
      BY <1>3, <2>1 DEF Ends
  <1>5. ASSUME Local
        PROVE  /\ UNCHANGED <<cluster, web>>
               /\ received' \in Nat /\ faults' \in Nat /\ events' \in Nat
    BY <1>1, <1>5 DEF Local, bounds
  <1>6. CASE EnsureGet(p)
    <2>1. Local
      BY <1>6 DEF EnsureGet
    <2>2. CASE End(p, "ok")
      BY <1>3, <1>5, <2>1, <2>2 DEF Ends
    <2>3. CASE /\ ~IsFrozenSvc(service)
               /\ handler' = [handler EXCEPT ![p].pc = "web", ![p].seen = service]
      <3> DEFINE h == [handler[p] EXCEPT !.pc = "web", !.seen = service]
      <3>1. handler' = [handler EXCEPT ![p] = h]
        BY <2>3 DEF TypeOK
      <3>2. h \in Handler /\ h.seen = service
        BY <1>1 DEF Handler, Steps
      <3>3. StageOK(h)
        BY <1>1, <1>6, <2>3 DEF StageOK, EnsureGet, At, EnsurePCs, Handler
      <3> QED
        BY <1>1, <1>5, <2>1, <3>1, <3>2, <3>3, LocalSteps
    <2> QED
      BY <1>6, <2>2, <2>3 DEF EnsureGet
  <1>7. CASE GetWebService(p)
    <2>1. Local
      BY <1>7 DEF GetWebService
    <2>2. CASE End(p, "error")
      BY <1>3, <1>5, <2>1, <2>2 DEF Ends
    <2>3. CASE /\ Exists(web)
               /\ handler' = [handler EXCEPT ![p].pc = "put", ![p].web = web]
      <3> DEFINE h == [handler[p] EXCEPT !.pc = "put", !.web = web]
      <3>1. handler' = [handler EXCEPT ![p] = h]
        BY <2>3 DEF TypeOK
      <3>2. h \in Handler /\ h.seen = handler[p].seen
        BY <1>1 DEF Handler, Steps
      <3>3. StageOK(h)
        BY <1>1, <1>7, <2>3 DEF StageOK, GetWebService, At, EnsurePCs, Handler, Exists
      <3> QED
        BY <1>1, <1>5, <2>1, <3>1, <3>2, <3>3, LocalSteps
    <2> QED
      BY <1>7, <2>2, <2>3 DEF GetWebService
  <1>8. CASE RemoveGet(p)
    <2>1. Local
      BY <1>8 DEF RemoveGet
    <2>2. CASE End(p, "ok")
      BY <1>3, <1>5, <2>1, <2>2 DEF Ends
    <2>3. CASE handler' = [handler EXCEPT ![p].pc = "delete"]
      <3> DEFINE h == [handler[p] EXCEPT !.pc = "delete"]
      <3>1. handler' = [handler EXCEPT ![p] = h]
        BY <2>3 DEF TypeOK
      <3>2. h \in Handler /\ h.seen = handler[p].seen
        BY <1>1 DEF Handler, Steps
      <3>3. StageOK(h)
        BY <1>1 DEF StageOK, EnsurePCs, Handler
      <3> QED
        BY <1>1, <1>5, <2>1, <3>1, <3>2, <3>3, LocalSteps
    <2> QED
      BY <1>8, <2>2, <2>3 DEF RemoveGet
  <1> QED
    BY <1>2, <1>4, <1>6, <1>7, <1>8

\* Handler p returns, the others go on.
LEMMA Returns ==
    ASSUME IInv, NEW p \in Handlers, NEW outcome \in Ends,
           End(p, outcome) \/ (Succeed(p) /\ handler[p].req \in EnsureRequest)
    PROVE  /\ handler' \in [Handlers -> Handler] /\ Staged'
           /\ \A q \in Handlers : handler'[q].seen \in {Nil, handler[q].seen}
  <1>1. handler \in [Handlers -> Handler]
    BY DEF IInv, TypeOK
  <1>2. PICK h \in Handler : /\ handler' = [handler EXCEPT ![p] = h]
                             /\ StageOK(h) /\ h.seen \in {Nil, handler[p].seen}
    <2>1. CASE End(p, outcome)
      BY <2>1, EndedOK DEF End
    <2>2. CASE Succeed(p) /\ handler[p].req \in EnsureRequest
      <3>1. handler' = [handler EXCEPT ![p] = [handler[p] EXCEPT !.pc = "ok"]]
        BY <1>1, <2>2 DEF Succeed
      <3> QED
        BY <1>1, <2>2, <3>1, SucceededOK
    <2> QED
      BY <2>1, <2>2
  <1>3. Staged'
    BY <1>1, <1>2 DEF IInv, Staged, StageOK, IsFrozenSvc
  <1> QED
    BY <1>1, <1>2, <1>3

\* What an Ensure that goes through leaves: a Service built from the one that was
\* there, if there was one.
Ensured(p) ==
    /\ ~IsFrozenSvc(service)
    /\ \E P \in SentPorts(service, handler[p].req, handler[p].web) :
            Store(Manifest(service, handler[p].req, handler[p].web, P))

\* An accepted Create or Update is computed from what is stored.
LEMMA EnsureIsCurrent ==
    ASSUME IInv, NEW p \in Handlers, EnsureCreate(p) \/ EnsureUpdate(p)
    PROVE  /\ UNCHANGED <<web, bounds>>
           /\ End(p, "error") \/ Succeed(p)
           /\ UNCHANGED cluster \/ Ensured(p)
           /\ handler[p].req \in EnsureRequest \cap Requests
           /\ handler[p].web \in WebServices
  <1>1. /\ handler[p].req \in EnsureRequest \cap Requests
        /\ handler[p].web \in WebServices
        /\ ~IsFrozenSvc(handler[p].seen)
    BY DEF IInv, Staged, StageOK, EnsureCreate, EnsureUpdate, At, EnsurePCs
  <1>2. CASE EnsureCreate(p)
    <2>1. PICK P \in SentPorts(Nil, handler[p].req, handler[p].web) :
            \/ /\ ~Exists(service)
               /\ Store(Manifest(Nil, handler[p].req, handler[p].web, P))
               /\ Succeed(p)
            \/ End(p, "error") /\ UNCHANGED cluster
      BY <1>2 DEF EnsureCreate
    <2>2. ~Exists(service) => service = Nil
      BY DEF Exists
    <2> QED
      BY <1>1, <1>2, <2>1, <2>2 DEF EnsureCreate, Ensured, IsFrozenSvc
  <1>3. CASE EnsureUpdate(p)
    <2> DEFINE seen == handler[p].seen
    <2>1. PICK P \in SentPorts(seen, handler[p].req, handler[p].web) :
            \/ /\ Accepts(service, SentVersion(seen))
               /\ Store(Manifest(seen, handler[p].req, handler[p].web, P))
               /\ Succeed(p)
            \/ (Succeed(p) \/ End(p, "error")) /\ UNCHANGED cluster
      BY <1>3 DEF EnsureUpdate
    <2>2. Exists(seen)
      BY <1>3 DEF EnsureUpdate
    <2>3. Accepts(service, SentVersion(seen)) => service = seen
      BY <2>2 DEF Accepts, SentVersion, IInv, VersionsBound, SeenIsCurrent
    <2> QED
      BY <1>1, <1>3, <2>1, <2>3 DEF EnsureUpdate, Ensured
  <1> QED
    BY <1>1, <1>2, <1>3

LEMMA EnsuredStores ==
    ASSUME IInv, NEW p \in Handlers, Ensured(p),
           handler[p].req \in EnsureRequest \cap Requests, handler[p].web \in WebServices
    PROVE  /\ service' \in Service
           /\ service'.rv = version + 1 /\ version' = version + 1
  <1>1. version \in Nat /\ service \in Service \cup {Nil}
    BY DEF IInv, TypeOK
  <1>2. PICK P \in SentPorts(service, handler[p].req, handler[p].web) :
            Store(Manifest(service, handler[p].req, handler[p].web, P))
    BY DEF Ensured
  <1> QED
    BY <1>1, <1>2, StoredType

\* The steps that write the Service keep the invariant.
LEMMA HandlerWrites ==
    ASSUME IInv, NEW p \in Handlers,
           EnsureCreate(p) \/ EnsureUpdate(p) \/ RemoveDelete(p)
    PROVE  IInv'
  <1>1. /\ service \in Service \cup {Nil} /\ web \in WebServices \cup {Nil}
        /\ received \in Nat /\ faults \in Nat /\ events \in Nat
        /\ "ok" \in Ends /\ "error" \in Ends
    BY DEF IInv, TypeOK, Ends
  <1>2. CASE EnsureCreate(p) \/ EnsureUpdate(p)
    <2>1. /\ UNCHANGED <<web, bounds>>
          /\ End(p, "error") \/ Succeed(p)
          /\ UNCHANGED cluster \/ Ensured(p)
          /\ handler[p].req \in EnsureRequest \cap Requests
          /\ handler[p].web \in WebServices
      BY <1>2, EnsureIsCurrent
    <2>2. /\ web' \in WebServices \cup {Nil}
          /\ received' \in Nat /\ faults' \in Nat /\ events' \in Nat
      BY <1>1, <2>1 DEF bounds
    <2>3. \/ service' = service /\ version' = version
          \/ service' \in Service /\ service'.rv = version + 1 /\ version' = version + 1
      BY <2>1, EnsuredStores DEF cluster
    <2>4. /\ handler' \in [Handlers -> Handler] /\ Staged'
          /\ \A q \in Handlers : handler'[q].seen \in {Nil, handler[q].seen}
      BY <1>1, <2>1, Returns
    <2> QED
      BY <2>2, <2>3, <2>4, Writes
  <1>3. CASE RemoveDelete(p)
    <2>1. /\ web' \in WebServices \cup {Nil}
          /\ received' \in Nat /\ faults' \in Nat /\ events' \in Nat
          /\ End(p, "ok")
      BY <1>1, <1>3 DEF RemoveDelete, bounds
    <2>2. \/ service' = Nil /\ version' = version
          \/ service' \in Service /\ service'.rv = version + 1 /\ version' = version + 1
          \/ service' = service /\ version' = version + 1
      <3>1. CASE service' = Nil /\ UNCHANGED version
        BY <3>1
      <3>2. CASE /\ Exists(service)
                 /\ service' = Marked(service, version + 1) /\ version' = version + 1
        <4>1. service \in Service /\ version + 1 \in Nat
          BY <1>1, <3>2 DEF Exists, IInv, TypeOK
        <4>2. ~service.terminating =>
                service' \in Service /\ service'.rv = version + 1
          BY <3>2, <4>1 DEF Marked, Service
        <4>3. service.terminating => service' = service
          BY <3>2 DEF Marked
        <4> QED
          BY <3>2, <4>2, <4>3
      <3> QED
        BY <1>3, <3>1, <3>2 DEF RemoveDelete
    <2>3. /\ handler' \in [Handlers -> Handler] /\ Staged'
          /\ \A q \in Handlers : handler'[q].seen \in {Nil, handler[q].seen}
      BY <1>1, <2>1, Returns
    <2> QED
      BY <2>1, <2>2, <2>3, Writes
  <1> QED
    BY <1>2, <1>3

LEMMA OthersWrite ==
    ASSUME IInv, Release \/ WriteStatus \/ ToggleFreeze \/ Deploy
    PROVE  IInv'
  <1>1. /\ service \in Service \cup {Nil} /\ web \in WebServices \cup {Nil}
        /\ handler \in [Handlers -> Handler] /\ version \in Nat
        /\ received \in Nat /\ faults \in Nat /\ events \in Nat
    BY DEF IInv, TypeOK
  <1>2. /\ handler' = handler /\ web' \in WebServices \cup {Nil}
        /\ received' \in Nat /\ faults' \in Nat /\ events' \in Nat
    BY <1>1 DEF Release, WriteStatus, ToggleFreeze, Deploy, Event, bounds, cluster
  <1>3. \/ service' = Nil /\ version' = version
        \/ service' \in Service /\ service'.rv = version + 1 /\ version' = version + 1
        \/ service' = service /\ version' = version
    <2>1. ASSUME Exists(service)
          PROVE  service \in Service /\ version + 1 \in Nat
      BY <1>1, <2>1 DEF Exists
    <2>2. CASE WriteStatus
      BY <2>1, <2>2 DEF WriteStatus, Service
    <2>3. CASE ToggleFreeze
      BY <2>1, <2>3 DEF ToggleFreeze, Service
    <2>4. CASE Release \/ Deploy
      BY <2>4 DEF Release, Deploy, cluster
    <2> QED
      BY <2>2, <2>3, <2>4
  <1>4. Staged' /\ \A q \in Handlers : handler'[q].seen \in {Nil, handler[q].seen}
    BY <1>2 DEF IInv, Staged
  <1> QED
    BY <1>1, <1>2, <1>3, <1>4, Writes

LEMMA Inductive == IInv /\ [Next]_vars => IInv'
  <1> SUFFICES ASSUME IInv, [Next]_vars PROVE IInv'
    OBVIOUS
  <1>1. ASSUME NEW p \in Handlers,
               Receive(p) \/ Fail(p) \/ EnsureGet(p) \/ GetWebService(p) \/ RemoveGet(p)
        PROVE  IInv'
    BY <1>1, HandlerGoesOn
  <1>2. ASSUME NEW p \in Handlers, EnsureCreate(p) \/ EnsureUpdate(p) \/ RemoveDelete(p)
        PROVE  IInv'
    BY <1>2, HandlerWrites
  <1>3. CASE Release \/ WriteStatus \/ ToggleFreeze \/ Deploy
    BY <1>3, OthersWrite
  <1>4. CASE UNCHANGED vars
    BY <1>4, UnchangedInvariant
  <1> QED
    BY <1>1, <1>2, <1>3, <1>4 DEF Next, EnsureStep, RemoveStep

-----------------------------------------------------------------------------
(* The abstract specification is implemented.                              *)

\* The data of the abstract specification is that of LoadBalancer.
LEMMA SameData ==
    /\ Abstract!EnsureRequest = EnsureRequest
    /\ \A r, w : Abstract!WantedPorts(r, w) = WantedPorts(r, w)
  <1>1. Abstract!EnsureRequest = EnsureRequest
    BY DEF Abstract!EnsureRequest, EnsureRequest
  <1>2. \A r : Abstract!ExposedPort(r) = ExposedPort(r)
    BY DEF Abstract!ExposedPort, ExposedPort, Abstract!Int32, Int32
  <1>3. \A r, w : Abstract!ExtraPort(r, w) = ExtraPort(r, w)
    BY <1>2 DEF Abstract!ExtraPort, ExtraPort
  <1> QED
    BY <1>1, <1>2, <1>3 DEF Abstract!WantedPorts, WantedPorts

\* What the view of a Service shows.
LEMMA ViewType ==
    ASSUME NEW o \in Service
    PROVE  /\ View(o) = [terminating |-> o.terminating, frozen |-> o.frozen,
                         ports |-> o.ports, selector |-> o.selector,
                         policy |-> o.policy, marks |-> o.marks]
           /\ View(o) # Nil
  <1>1. Exists(o)
    BY ServiceAssumption DEF Exists
  <1>2. [terminating |-> o.terminating, frozen |-> o.frozen, ports |-> o.ports,
         selector |-> o.selector, policy |-> o.policy, marks |-> o.marks] # Nil
    BY ViewAssumption DEF Service
  <1> QED
    BY <1>1, <1>2 DEF View

\* The view with some deletion mark and freeze label.
Shown(t, f, o) ==
    [terminating |-> t, frozen |-> f, ports |-> o.ports,
     selector |-> o.selector, policy |-> o.policy, marks |-> o.marks]

\* A deletion mark shows as one.
LEMMA ViewOfMark ==
    ASSUME NEW o \in Service, NEW n \in Service, n.terminating = TRUE, n.frozen = o.frozen,
           n.ports = o.ports, n.selector = o.selector, n.policy = o.policy, n.marks = o.marks
    PROVE  View(n) = [View(o) EXCEPT !.terminating = TRUE]
  <1>1. View(n) = Shown(n.terminating, n.frozen, n)
    BY ViewType DEF Shown
  <1>2. View(o) = Shown(o.terminating, o.frozen, o)
    BY ViewType DEF Shown
  <1>3. View(n) = Shown(n.terminating, o.frozen, o)
    BY <1>1, Zenon DEF Shown
  <1>4. [View(o) EXCEPT !.terminating = n.terminating] = Shown(n.terminating, o.frozen, o)
    BY <1>2 DEF Shown
  <1>5. View(n) = [View(o) EXCEPT !.terminating = n.terminating]
    BY <1>3, <1>4, Zenon
  <1> QED
    BY <1>5, Zenon

\* A toggled label shows as one.
LEMMA ViewOfToggle ==
    ASSUME NEW o \in Service, NEW n \in Service, n.terminating = o.terminating, n.frozen = ~o.frozen,
           n.ports = o.ports, n.selector = o.selector, n.policy = o.policy, n.marks = o.marks
    PROVE  View(n) = [View(o) EXCEPT !.frozen = ~View(o).frozen]
  <1>1. View(n) = Shown(n.terminating, n.frozen, n)
    BY ViewType DEF Shown
  <1>2. View(o) = Shown(o.terminating, o.frozen, o)
    BY ViewType DEF Shown
  <1>3. View(n) = Shown(o.terminating, n.frozen, o)
    BY <1>1, Zenon DEF Shown
  <1>4. [View(o) EXCEPT !.frozen = n.frozen] = Shown(o.terminating, n.frozen, o)
    BY <1>2 DEF Shown
  <1>5. View(n) = [View(o) EXCEPT !.frozen = n.frozen]
    BY <1>3, <1>4, Zenon
  <1>6. View(o).frozen = o.frozen
    BY <1>2 DEF Shown
  <1>7. n.frozen = ~View(o).frozen
    BY <1>6
  <1> QED
    BY <1>5, <1>7, Zenon

\* What else is written does not show.
LEMMA ViewOfStatus ==
    ASSUME NEW o \in Service, NEW n \in Service,
           n.terminating = o.terminating, n.frozen = o.frozen,
           n.ports = o.ports, n.selector = o.selector, n.policy = o.policy, n.marks = o.marks
    PROVE  View(n) = View(o)
  <1>1. View(n) = Shown(n.terminating, n.frozen, n)
    BY ViewType DEF Shown
  <1>2. View(o) = Shown(o.terminating, o.frozen, o)
    BY ViewType DEF Shown
  <1> QED
    BY <1>1, <1>2, Zenon DEF Shown

LEMMA EnsureRefines ==
    ASSUME IInv, NEW p \in Handlers, Ensured(p),
           handler[p].req \in EnsureRequest \cap Requests, handler[p].web \in WebServices
    PROVE  Abstract!Create \/ Abstract!Update
  <1> DEFINE r == handler[p].req
             w == handler[p].web
  <1>1. version \in Nat /\ service \in Service \cup {Nil}
    BY DEF IInv, TypeOK
  <1>2. PICK P \in SentPorts(service, r, w) : Store(Manifest(service, r, w, P))
    BY DEF Ensured
  <1>3. /\ service' \in Service
        /\ ~service'.frozen
        /\ service'.terminating = (Exists(service) /\ service.terminating)
        /\ {e.port : e \in service'.ports} = WantedPorts(r, w)
        /\ service'.selector = w.selector /\ service'.marks = w.marks
        /\ service'.policy = IF r.policy # Nil THEN r.policy
                             ELSE IF Exists(service) THEN service.policy ELSE Nil
        /\ \A d \in service'.ports :
                d.node \in KeptNodes(service, d.port.number)
                    \/ KeptNodes(service, d.port.number) = {Nil}
    BY <1>1, <1>2, StoredType
  <1>4. View(service)' = View(service')
    BY DEF View, Exists
  <1>5. /\ View(service)' # Nil
        /\ View(service)'.frozen = service'.frozen
        /\ View(service)'.terminating = service'.terminating
        /\ View(service)'.ports = service'.ports
        /\ View(service)'.selector = service'.selector
        /\ View(service)'.policy = service'.policy
        /\ View(service)'.marks = service'.marks
    BY <1>3, <1>4, ViewType
  <1>6. Abstract!Shows(r, w)
    BY <1>3, <1>5, SameData DEF Abstract!Shows
  <1>7. CASE ~Exists(service)
    <2>1. View(service) = Nil
      BY <1>7 DEF View
    <2> QED
      BY <1>3, <1>5, <1>6, <1>7, <2>1, SameData DEF Abstract!Create
  <1>8. CASE Exists(service)
    <2>2. service \in Service
      BY <1>1, <1>8 DEF Exists
    <2>1. /\ View(service) # Nil
          /\ View(service).frozen = service.frozen
          /\ View(service).terminating = service.terminating
          /\ View(service).ports = service.ports
          /\ View(service).policy = service.policy
      BY <2>2, ViewType
    <2>3. Abstract!KeepsNodes(service.ports, service'.ports)
      <3>1. service'.ports \in SUBSET NodePort
        BY <1>3 DEF Service
      <3> QED
        BY <1>3, <2>2, <3>1, StoredKeepsNodes
    <2>4. ~service.frozen
      BY <1>8 DEF Ensured, IsFrozenSvc
    <2>5. Abstract!KeepsNodes(View(service).ports, View(service)'.ports)
      BY <1>5, <2>1, <2>3
    <2>6. w \in WebServices /\ r \in Requests \cap Abstract!EnsureRequest
      BY SameData
    <2>7. r.policy = Nil => View(service)'.policy = View(service).policy
      BY <1>3, <1>5, <1>8, <2>1
    <2>8. /\ View(service)' # Nil /\ ~View(service).frozen /\ ~View(service)'.frozen
      BY <1>3, <1>5, <2>1, <2>4
    <2>9. View(service)'.terminating = View(service).terminating
      <3>1. service.terminating \in BOOLEAN
        BY <2>2 DEF Service
      <3> QED
        BY <1>3, <1>5, <1>8, <2>1, <3>1
    <2> QED
      BY <1>6, <2>1, <2>5, <2>6, <2>7, <2>8, <2>9 DEF Abstract!Update
  <1> QED
    BY <1>7, <1>8

LEMMA StepRefines == IInv /\ [Next]_vars => [Abstract!Next]_(View(service))
  <1> SUFFICES ASSUME IInv, [Next]_vars, View(service)' # View(service)
               PROVE  Abstract!Next
    OBVIOUS
  <1>1. service' # service
    BY DEF View
  <1>2. ASSUME NEW p \in Handlers, EnsureCreate(p) \/ EnsureUpdate(p)
        PROVE  Abstract!Next
    <2>1. Ensured(p) /\ handler[p].req \in EnsureRequest \cap Requests
                     /\ handler[p].web \in WebServices
      BY <1>1, <1>2, EnsureIsCurrent DEF cluster
    <2> QED
      BY <2>1, EnsureRefines DEF Abstract!Next
  <1>3. CASE service' = Nil
    BY <1>3 DEF View, Exists, Abstract!Next, Abstract!Vanish
  <1>4. ASSUME NEW p \in Handlers, RemoveDelete(p)
        PROVE  Abstract!Next
    <2>1. CASE service' # Nil
      <3>1. Exists(service) /\ service' = Marked(service, version + 1)
        BY <1>4, <2>1 DEF RemoveDelete
      <3>2. service \in Service
        BY <3>1 DEF IInv, TypeOK, Exists
      <3>3. service' = [service EXCEPT !.terminating = TRUE, !.rv = version + 1]
        BY <1>1, <3>1 DEF Marked
      <3>4. service.frozen \in BOOLEAN /\ version + 1 \in Nat
        BY <3>2 DEF Service, IInv, TypeOK
      <3>6. View(service)' = [View(service) EXCEPT !.terminating = TRUE]
        <4>1. /\ service'.terminating = TRUE /\ service'.frozen = service.frozen
              /\ service'.ports = service.ports /\ service'.selector = service.selector
              /\ service'.policy = service.policy /\ service'.marks = service.marks
              /\ service' \in Service
          BY <3>2, <3>3, <3>4 DEF Service
        <4>2. View(service)' = View(service')
          BY DEF View, Exists
        <4> QED
          BY <3>2, <4>1, <4>2, ViewOfMark, Zenon
      <3>7. View(service) # Nil
        BY <3>2, ViewType
      <3> QED
        BY <3>6, <3>7 DEF Abstract!Next, Abstract!Mark
    <2> QED
      BY <1>3, <2>1
  <1>5. CASE ToggleFreeze
    <2>1. Exists(service) /\ service' = [service EXCEPT !.frozen = ~@, !.rv = version + 1]
      BY <1>5 DEF ToggleFreeze
    <2>2. service \in Service
      BY <2>1 DEF IInv, TypeOK, Exists
    <2>3. CASE service' # Nil
      <3>1. service.terminating \in BOOLEAN /\ service.frozen \in BOOLEAN /\ version + 1 \in Nat
        BY <2>2 DEF Service, IInv, TypeOK
      <3>4. View(service)' = [View(service) EXCEPT !.frozen = ~View(service).frozen]
        <4>1. /\ service'.terminating = service.terminating
              /\ service'.frozen = ~service.frozen
              /\ service'.ports = service.ports /\ service'.selector = service.selector
              /\ service'.policy = service.policy /\ service'.marks = service.marks
              /\ service' \in Service
          BY <2>1, <2>2, <3>1 DEF Service
        <4>2. View(service)' = View(service')
          BY DEF View, Exists
        <4> QED
          BY <2>2, <4>1, <4>2, ViewOfToggle, Zenon
      <3>5. View(service) # Nil
        BY <2>2, ViewType
      <3> QED
        BY <3>4, <3>5 DEF Abstract!Next, Abstract!ToggleFreeze
    <2> QED
      BY <1>3, <2>3
  <1>6. CASE WriteStatus
    <2>1. Exists(service) /\ service' = [service EXCEPT !.rv = version + 1]
      BY <1>6 DEF WriteStatus
    <2>2. service \in Service
      BY <2>1 DEF IInv, TypeOK, Exists
    <2>3. /\ service.terminating \in BOOLEAN /\ service.frozen \in BOOLEAN
          /\ version + 1 \in Nat
      BY <2>2 DEF Service, IInv, TypeOK
    <2>4. /\ service'.terminating = service.terminating
          /\ service'.frozen = service.frozen
          /\ service'.ports = service.ports /\ service'.selector = service.selector
          /\ service'.policy = service.policy /\ service'.marks = service.marks
          /\ service' \in Service
      BY <2>1, <2>2, <2>3 DEF Service
    <2>5. View(service') = View(service)
      BY <2>2, <2>4, ViewOfStatus, Zenon
    <2>6. View(service)' = View(service')
      BY DEF View, Exists
    <2> QED
      BY <2>5, <2>6
  <1>7. CASE Release
    BY <1>3, <1>7 DEF Release
  <1>8. ASSUME NEW p \in Handlers,
               Receive(p) \/ Fail(p) \/ EnsureGet(p) \/ GetWebService(p) \/ RemoveGet(p)
        PROVE  FALSE
    BY <1>1, <1>8 DEF Receive, Fail, EnsureGet, GetWebService, RemoveGet, Local, cluster
  <1>9. CASE Deploy
    BY <1>1, <1>9 DEF Deploy, cluster
  <1>10. CASE UNCHANGED vars
    BY <1>1, <1>10 DEF vars, cluster
  <1> QED
    BY <1>2, <1>4, <1>5, <1>6, <1>7, <1>8, <1>9, <1>10 DEF Next, EnsureStep, RemoveStep

-----------------------------------------------------------------------------
(* The theorems.                                                           *)

LEMMA Invariant == Spec => []IInv
  BY Initially, Inductive, PTL DEF Spec

\* Every reachable state is well typed, for any requests, web Services, handlers
\* and bounds.
THEOREM TypeCorrect == Spec => []TypeOK
  <1>1. IInv => TypeOK
    BY DEF IInv
  <1> QED
    BY <1>1, Invariant, PTL

\* A Service that still has the version a handler read is the Service it read:
\* an Update that is accepted is computed from what is stored.
THEOREM SeenStaysCurrent == Spec => []SeenIsCurrent
  <1>1. IInv => SeenIsCurrent
    BY DEF IInv
  <1> QED
    BY <1>1, Invariant, PTL

\* Ensure and Remove implement AtomicService, however many requests interleave
\* and whatever fails: every Ensure takes effect at once on the Service that is
\* there, leaves a frozen one alone and keeps NodePorts.
THEOREM Implements == Spec => Atomic
  <1>1. Init => Abstract!Init
    BY DEF Init, Abstract!Init, View, Exists
  <1> QED
    BY <1>1, StepRefines, Invariant, PTL DEF Spec, Atomic, Abstract!Spec

-----------------------------------------------------------------------------
(* The NodePorts: none is shared by two numbers.                           *)

\* The ports of a Service as the server keeps them: one NodePort each, and none of
\* two numbers.
Distinct(o) ==
    \A e, d \in o.ports :
        /\ e.port = d.port => e = d
        /\ e.node = d.node => e.port.number = d.port.number

PortsDistinct == Exists(service) => Distinct(service)

\* No other handler has had a request.
Alone(p) == \A q \in Handlers \ {p} : At(q, "idle")

\* What controllers and operators do not write.
SameSpec(o, s) ==
    /\ o.ports = s.ports /\ o.selector = s.selector /\ o.policy = s.policy
    /\ o.opts = s.opts /\ o.marks = s.marks

\* The Service o is as the request r on the web Service w wants it.
ShownBy(o, r, w) ==
    /\ {e.port : e \in o.ports} = WantedPorts(r, w)
    /\ o.selector = w.selector /\ w.marks \subseteq o.marks
    /\ r.policy # Nil => o.policy = r.policy
    /\ o.opts = r

\* The Service is there and not about to vanish.
Stands == Exists(service) /\ ~service.terminating

\* A handler that is alone and found no marked Service has one that stands once it
\* has seen it, or has succeeded.
Standing(p) ==
    LET h == handler[p] IN
    ~FoundMarked(p) =>
        /\ h.pc \in {"web", "put"} /\ Exists(h.seen) => Stands
        /\ h.pc = "ok" /\ h.req # Nil => Stands

\* What a handler that is alone has seen, or has achieved.
Achieved(p) ==
    LET h == handler[p] IN
    Exists(service) =>
        /\ h.pc \in {"web", "put"} /\ Exists(h.seen) => SameSpec(service, h.seen)
        /\ h.pc = "ok" /\ h.req # Nil => ShownBy(service, h.req, h.web)

InTurn == \A p \in Handlers : Alone(p) => Achieved(p) /\ Standing(p)

IInvSerial == IInv /\ PortsDistinct /\ InTurn

\* One port is sent once, and only numbers that had the same NodePort are sent with
\* the same.
LEMMA SentDistinct ==
    ASSUME NEW o \in Service \cup {Nil}, Exists(o) => Distinct(o),
           NEW r, NEW w, NEW P \in SentPorts(o, r, w), NEW e \in P, NEW d \in P
    PROVE  /\ e.port = d.port => e = d
           /\ e.node = d.node /\ e.node # Nil => e.port.number = d.port.number
  <1>1. PICK m \in SentNodes(o, r, w) : P = WithNodes(m)
    BY DEF SentPorts
  <1>2. /\ m \in [WantedPorts(r, w) -> NodePorts \cup {Nil}]
        /\ \A q \in WantedPorts(r, w) : m[q] \in KeptNodes(o, q.number)
    BY DEF SentNodes
  <1>3. P = {[port |-> q, node |-> m[q]] : q \in WantedPorts(r, w)}
    BY <1>1, <1>2 DEF WithNodes
  <1>4. e.port = d.port => e = d
    BY <1>3
  <1>5. ASSUME e.node = d.node, e.node # Nil
        PROVE  e.port.number = d.port.number
    <2>1. /\ e.node \in KeptNodes(o, e.port.number)
          /\ d.node \in KeptNodes(o, d.port.number)
      BY <1>2, <1>3
    <2>2. e.node \in NodesOf(o, e.port.number) /\ d.node \in NodesOf(o, d.port.number)
      BY <1>5, <2>1 DEF KeptNodes
    <2>3. Exists(o)
      BY <2>2 DEF NodesOf
    <2>4. PICK s \in o.ports : s.port.number = e.port.number /\ s.node = e.node
      BY <2>2, <2>3 DEF NodesOf, Numbered
    <2>5. PICK t \in o.ports : t.port.number = d.port.number /\ t.node = d.node
      BY <2>2, <2>3 DEF NodesOf, Numbered
    <2> QED
      BY <1>5, <2>3, <2>4, <2>5 DEF Distinct
  <1> QED
    BY <1>4, <1>5

\* What the server makes of such ports; new NodePorts are nobody else's.
LEMMA AllocatedDistinct ==
    ASSUME NEW P, NEW f \in Allocations(P),
           \A e, d \in P :
                /\ e.port = d.port => e = d
                /\ e.node = d.node /\ e.node # Nil => e.port.number = d.port.number
    PROVE  \A e, d \in Allocated(P, f) :
                /\ e.port = d.port => e = d
                /\ e.node = d.node => e.port.number = d.port.number
  <1> SUFFICES ASSUME NEW e \in Allocated(P, f), NEW d \in Allocated(P, f)
               PROVE  /\ e.port = d.port => e = d
                      /\ e.node = d.node => e.port.number = d.port.number
    OBVIOUS
  <1>1. PICK s \in P : e = [port |-> s.port, node |-> f[s]]
    BY DEF Allocated
  <1>2. PICK t \in P : d = [port |-> t.port, node |-> f[t]]
    BY DEF Allocated
  <1>3. \A k \in P :
            IF k.node # Nil THEN f[k] = k.node ELSE \A l \in P : k # l => f[k] # f[l]
    BY DEF Allocations
  <1>4. e.port = d.port => e = d
    BY <1>1, <1>2
  <1>5. ASSUME f[s] = f[t]
        PROVE  s.port.number = t.port.number
    <2>1. CASE s.node = Nil \/ t.node = Nil
      BY <1>3, <1>5, <2>1
    <2>2. CASE s.node # Nil /\ t.node # Nil
      BY <1>3, <1>5, <2>2
    <2> QED
      BY <2>1, <2>2
  <1> QED
    BY <1>1, <1>2, <1>4, <1>5

LEMMA StoredDistinct ==
    ASSUME NEW o \in Service \cup {Nil}, Exists(o) => Distinct(o),
           NEW r, NEW w, NEW P \in SentPorts(o, r, w), Store(Manifest(o, r, w, P))
    PROVE  Distinct(service') /\ service'.opts = r
  <1> DEFINE M == Manifest(o, r, w, P)
  <1>1. M.ports = P
    BY DEF Manifest
  <1>2. PICK f \in Allocations(P) :
            service' = [M EXCEPT !.ports = Allocated(P, f), !.rv = version + 1]
    BY <1>1 DEF Store
  <1>3. service'.ports = Allocated(P, f) /\ service'.opts = r
    BY <1>2 DEF Manifest
  <1>4. \A e, d \in P :
            /\ e.port = d.port => e = d
            /\ e.node = d.node /\ e.node # Nil => e.port.number = d.port.number
    BY SentDistinct
  <1>5. \A e, d \in Allocated(P, f) :
            /\ e.port = d.port => e = d
            /\ e.node = d.node => e.port.number = d.port.number
    BY <1>4, AllocatedDistinct
  <1> QED
    BY <1>3, <1>5 DEF Distinct

\* Whatever writes the Service, only an Ensure changes what it exposes.
LEMMA SpecChanges ==
    ASSUME IInv, [Next]_vars, Exists(service')
    PROVE  \/ Exists(service) /\ SameSpec(service', service)
           \/ \E p \in Handlers : (EnsureCreate(p) \/ EnsureUpdate(p)) /\ Ensured(p)
  <1>1. service \in Service \cup {Nil} /\ version \in Nat
    BY DEF IInv, TypeOK
  <1>2. CASE UNCHANGED service
    BY <1>2 DEF SameSpec, Exists
  <1>3. ASSUME NEW p \in Handlers, RemoveDelete(p)
        PROVE  Exists(service) /\ SameSpec(service', service)
    <2>1. Exists(service) /\ service' = Marked(service, version + 1)
      BY <1>3 DEF RemoveDelete, Exists
    <2>2. service \in Service
      BY <1>1, <2>1 DEF Exists
    <2> QED
      BY <2>1, <2>2 DEF Marked, SameSpec, Service
  <1>4. CASE WriteStatus
    <2>1. service \in Service
      BY <1>1, <1>4 DEF WriteStatus, Exists
    <2> QED
      BY <1>4, <2>1 DEF WriteStatus, SameSpec, Service
  <1>5. CASE ToggleFreeze
    <2>1. service \in Service
      BY <1>1, <1>5 DEF ToggleFreeze, Exists
    <2> QED
      BY <1>5, <2>1 DEF ToggleFreeze, SameSpec, Service
  <1>6. ASSUME NEW p \in Handlers, EnsureCreate(p) \/ EnsureUpdate(p)
        PROVE  UNCHANGED service \/ Ensured(p)
    BY <1>6, EnsureIsCurrent DEF cluster
  <1>7. ASSUME NEW p \in Handlers,
               Receive(p) \/ Fail(p) \/ EnsureGet(p) \/ GetWebService(p) \/ RemoveGet(p)
        PROVE  UNCHANGED service
    BY <1>7 DEF Receive, Fail, EnsureGet, GetWebService, RemoveGet, Local, cluster
  <1>8. CASE Release \/ Deploy
    BY <1>8 DEF Release, Deploy, cluster, Exists, SameSpec
  <1> QED
    BY <1>2, <1>3, <1>4, <1>5, <1>6, <1>7, <1>8
    DEF Next, EnsureStep, RemoveStep, vars, cluster

LEMMA StaysDistinct == IInv /\ PortsDistinct /\ [Next]_vars => PortsDistinct'
  <1> SUFFICES ASSUME IInv, PortsDistinct, [Next]_vars, Exists(service')
               PROVE  Distinct(service')
    BY DEF PortsDistinct, Distinct, Exists
  <1>1. CASE Exists(service) /\ SameSpec(service', service)
    BY <1>1 DEF PortsDistinct, Distinct, SameSpec
  <1>2. ASSUME NEW p \in Handlers, Ensured(p)
        PROVE  Distinct(service')
    <2>1. PICK P \in SentPorts(service, handler[p].req, handler[p].web) :
            Store(Manifest(service, handler[p].req, handler[p].web, P))
      BY <1>2 DEF Ensured
    <2>2. service \in Service \cup {Nil}
      BY DEF IInv, TypeOK
    <2> QED
      BY <2>1, <2>2, StoredDistinct DEF PortsDistinct
  <1> QED
    BY <1>1, <1>2, SpecChanges

-----------------------------------------------------------------------------
(* Requests one after the other.                                           *)

\* After a step of a handler, it is not idle and the others stand where they stood.
LEMMA OneMoves ==
    ASSUME IInv, NEW p \in Handlers,
           Receive(p) \/ Fail(p) \/ EnsureStep(p) \/ RemoveStep(p)
    PROVE  /\ handler'[p].pc # "idle"
           /\ \A q \in Handlers \ {p} : handler'[q] = handler[q]
  <1>1. handler \in [Handlers -> Handler] /\ handler[p] \in Handler
    BY DEF IInv, TypeOK
  <1>2. ASSUME NEW outcome, outcome # "idle", End(p, outcome)
        PROVE  /\ handler'[p].pc # "idle"
               /\ \A q \in Handlers \ {p} : handler'[q] = handler[q]
    BY <1>1, <1>2 DEF End, Idle
  <1>3. ASSUME Succeed(p)
        PROVE  /\ handler'[p].pc # "idle"
               /\ \A q \in Handlers \ {p} : handler'[q] = handler[q]
    <2> DEFINE h == [handler[p] EXCEPT !.pc = "ok"]
    <2>1. handler' = [handler EXCEPT ![p] = h] /\ h.pc = "ok"
      BY <1>1, <1>3 DEF Succeed, Handler
    <2> HIDE DEF h
    <2> QED
      BY <1>1, <2>1
  <1>4. CASE Receive(p)
    BY <1>1, <1>4 DEF Receive, Idle
  <1>5. CASE EnsureGet(p)
    BY <1>1, <1>2, <1>5 DEF EnsureGet, Handler
  <1>6. CASE GetWebService(p)
    BY <1>1, <1>2, <1>6 DEF GetWebService, Handler
  <1>7. CASE RemoveGet(p)
    BY <1>1, <1>2, <1>7 DEF RemoveGet, Handler
  <1>8. CASE EnsureCreate(p) \/ EnsureUpdate(p)
    BY <1>2, <1>3, <1>8, EnsureIsCurrent
  <1>9. CASE Fail(p) \/ RemoveDelete(p)
    BY <1>2, <1>9 DEF Fail, RemoveDelete
  <1> QED
    BY <1>4, <1>5, <1>6, <1>7, <1>8, <1>9 DEF EnsureStep, RemoveStep

LEMMA AloneMoved ==
    ASSUME IInv, NEW p \in Handlers, NEW q \in Handlers, Alone(q)',
           Receive(p) \/ Fail(p) \/ EnsureStep(p) \/ RemoveStep(p)
    PROVE  p = q /\ Alone(p)
  BY OneMoves DEF Alone, At

\* At these positions nothing is claimed.
LEMMA NothingClaimed ==
    ASSUME NEW p \in Handlers,
           \/ handler'[p].pc \notin {"web", "put", "ok"}
           \/ handler'[p].pc = "ok" /\ handler'[p].req = Nil
    PROVE  Achieved(p)'
  BY DEF Achieved

LEMMA EndedClaims ==
    ASSUME IInv, NEW p \in Handlers, NEW outcome \in {"ok", "error"}, End(p, outcome)
    PROVE  Achieved(p)'
  <1>1. handler'[p].pc = outcome /\ handler'[p].req = Nil
    BY DEF End, Idle, IInv, TypeOK
  <1> QED
    BY <1>1, NothingClaimed

\* The Service that Ensure stores shows what was asked for.
LEMMA EnsuredShows ==
    ASSUME IInv, PortsDistinct, NEW p \in Handlers, Ensured(p),
           handler[p].req \in EnsureRequest \cap Requests, handler[p].web \in WebServices
    PROVE  ShownBy(service', handler[p].req, handler[p].web)
  <1> DEFINE r == handler[p].req
             w == handler[p].web
  <1>1. version \in Nat /\ service \in Service \cup {Nil}
    BY DEF IInv, TypeOK
  <1>2. PICK P \in SentPorts(service, r, w) : Store(Manifest(service, r, w, P))
    BY DEF Ensured
  <1>3. /\ {e.port : e \in service'.ports} = WantedPorts(r, w)
        /\ service'.selector = w.selector /\ service'.marks = w.marks
        /\ service'.policy = IF r.policy # Nil THEN r.policy
                             ELSE IF Exists(service) THEN service.policy ELSE Nil
    BY <1>1, <1>2, StoredType
  <1>4. service'.opts = r
    BY <1>1, <1>2, StoredDistinct DEF PortsDistinct
  <1> QED
    BY <1>3, <1>4 DEF ShownBy

\* A Service without changes shows it already.
LEMMA UnchangedShows ==
    ASSUME NEW o \in Service, NEW r \in EnsureRequest, NEW w \in WebService,
           NEW P \in SentPorts(o, r, w),
           ~ServiceHasChanges(o, Manifest(o, r, w, P))
    PROVE  ShownBy(o, r, w)
  <1> DEFINE m == Manifest(o, r, w, P)
  <1>1. /\ m.ports = P /\ m.selector = w.selector /\ m.opts = r /\ m.marks = w.marks
        /\ r.policy # Nil => m.policy = r.policy
    BY DEF Manifest
  <1>2. /\ m.ports = o.ports /\ m.selector = o.selector /\ m.policy = o.policy
        /\ m.opts = o.opts /\ m.marks \subseteq o.marks
    BY DEF ServiceHasChanges
  <1>3. {e.port : e \in P} = WantedPorts(r, w)
    BY SentPortsType
  <1> HIDE DEF m
  <1> QED
    BY <1>1, <1>2, <1>3 DEF ShownBy

LEMMA SameShows ==
    ASSUME NEW o, NEW s, NEW r, NEW w, SameSpec(o, s), ShownBy(s, r, w)
    PROVE  ShownBy(o, r, w)
  BY DEF SameSpec, ShownBy

LEMMA SucceedsAs ==
    ASSUME IInv, NEW p \in Handlers, Succeed(p)
    PROVE  /\ handler'[p].pc = "ok" /\ handler'[p].seen = handler[p].seen
           /\ handler'[p].req = handler[p].req /\ handler'[p].web = handler[p].web
  <1> DEFINE h == [handler[p] EXCEPT !.pc = "ok"]
  <1>1. handler \in [Handlers -> Handler] /\ handler[p] \in Handler
    BY DEF IInv, TypeOK
  <1>2. /\ handler' = [handler EXCEPT ![p] = h]
        /\ h.pc = "ok" /\ h.seen = handler[p].seen
        /\ h.req = handler[p].req /\ h.web = handler[p].web
    BY <1>1 DEF Succeed, Handler
  <1> HIDE DEF h
  <1> QED
    BY <1>1, <1>2

LEMMA EnsureAchieves ==
    ASSUME IInv, PortsDistinct, NEW p \in Handlers, Achieved(p),
           EnsureCreate(p) \/ EnsureUpdate(p)
    PROVE  Achieved(p)'
  <1> DEFINE h == handler[p]
  <1>1. /\ End(p, "error") \/ Succeed(p)
        /\ UNCHANGED cluster \/ Ensured(p)
        /\ h.req \in EnsureRequest \cap Requests /\ h.web \in WebServices
    BY EnsureIsCurrent
  <1>2. CASE End(p, "error")
    BY <1>2, EndedClaims
  <1>3. CASE Succeed(p) /\ Ensured(p)
    <2>1. ShownBy(service', h.req, h.web)
      BY <1>1, <1>3, EnsuredShows
    <2> QED
      BY <1>3, <2>1, SucceedsAs DEF Achieved
  <1>4. CASE Succeed(p) /\ UNCHANGED cluster /\ ~End(p, "error") /\ ~Ensured(p)
    <2>1. EnsureUpdate(p)
      <3>1. SUFFICES ASSUME EnsureCreate(p) PROVE FALSE
        OBVIOUS
      <3>2. PICK P \in SentPorts(Nil, h.req, h.web) :
                ~Exists(service) /\ Store(Manifest(Nil, h.req, h.web, P))
        BY <1>4, <3>1 DEF EnsureCreate
      <3>3. service = Nil
        BY <3>2 DEF Exists
      <3> QED
        BY <1>4, <3>2, <3>3 DEF Ensured, IsFrozenSvc
    <2>2. Exists(h.seen) /\ h.seen \in Service
      BY <2>1 DEF EnsureUpdate, IInv, TypeOK, Handler, Exists
    <2>3. PICK P \in SentPorts(h.seen, h.req, h.web) :
            ~ServiceHasChanges(h.seen, Manifest(h.seen, h.req, h.web, P))
      <3>1. PICK P \in SentPorts(h.seen, h.req, h.web) :
                \/ ~ServiceHasChanges(h.seen, Manifest(h.seen, h.req, h.web, P))
                \/ /\ Accepts(service, SentVersion(h.seen))
                   /\ Store(Manifest(h.seen, h.req, h.web, P))
        BY <1>4, <2>1 DEF EnsureUpdate
      <3>2. Accepts(service, SentVersion(h.seen)) => service = h.seen
        BY <2>2 DEF Accepts, SentVersion, IInv, VersionsBound, SeenIsCurrent
      <3>3. ~IsFrozenSvc(h.seen)
        BY <2>1 DEF IInv, Staged, StageOK, EnsureUpdate, At
      <3> QED
        BY <1>4, <3>1, <3>2, <3>3 DEF Ensured
    <2>4. h.web \in WebService
      BY <1>1, WebAssumption
    <2>5. ShownBy(h.seen, h.req, h.web)
      BY <1>1, <2>2, <2>3, <2>4, UnchangedShows
    <2>6. Exists(service) => SameSpec(service, h.seen)
      BY <2>1, <2>2 DEF Achieved, EnsureUpdate, At
    <2>7. Exists(service) => ShownBy(service, h.req, h.web)
      BY <2>5, <2>6, SameShows
    <2>8. service' = service
      BY <1>4 DEF cluster
    <2> QED
      BY <1>4, <2>7, <2>8, SucceedsAs DEF Achieved
  <1> QED
    BY <1>1, <1>2, <1>3, <1>4

\* Reading the Service, and the web Service.
LEMMA EnsureGetAchieves ==
    ASSUME IInv, NEW p \in Handlers, EnsureGet(p)
    PROVE  Achieved(p)'
  <1>1. CASE End(p, "ok")
    BY <1>1, EndedClaims
  <1>2. CASE handler' = [handler EXCEPT ![p].pc = "web", ![p].seen = service]
    <2> DEFINE h == [handler[p] EXCEPT !.pc = "web", !.seen = service]
    <2>1. handler \in [Handlers -> Handler] /\ handler[p] \in Handler
      BY DEF IInv, TypeOK
    <2>2. handler' = [handler EXCEPT ![p] = h] /\ h.pc = "web" /\ h.seen = service
      BY <1>2, <2>1 DEF Handler
    <2> HIDE DEF h
    <2>3. handler'[p].pc = "web" /\ handler'[p].seen = service
      BY <2>1, <2>2
    <2>4. service' = service
      BY DEF EnsureGet, Local, cluster
    <2> QED
      BY <2>3, <2>4 DEF Achieved, SameSpec
  <1> QED
    BY <1>1, <1>2 DEF EnsureGet

LEMMA GetWebServiceAchieves ==
    ASSUME IInv, NEW p \in Handlers, Achieved(p), GetWebService(p)
    PROVE  Achieved(p)'
  <1>1. CASE End(p, "error")
    BY <1>1, EndedClaims
  <1>2. CASE handler' = [handler EXCEPT ![p].pc = "put", ![p].web = web]
    <2> DEFINE h == [handler[p] EXCEPT !.pc = "put", !.web = web]
    <2>1. handler \in [Handlers -> Handler] /\ handler[p] \in Handler
      BY DEF IInv, TypeOK
    <2>2. handler' = [handler EXCEPT ![p] = h] /\ h.pc = "put" /\ h.seen = handler[p].seen
      BY <1>2, <2>1 DEF Handler
    <2> HIDE DEF h
    <2>3. handler'[p].pc = "put" /\ handler'[p].seen = handler[p].seen
      BY <2>1, <2>2
    <2>4. service' = service
      BY DEF GetWebService, Local, cluster
    <2> QED
      BY <2>3, <2>4 DEF Achieved, GetWebService, At, Exists
  <1> QED
    BY <1>1, <1>2 DEF GetWebService

LEMMA OtherStepsAchieve ==
    ASSUME IInv, NEW p \in Handlers,
           Receive(p) \/ Fail(p) \/ RemoveGet(p) \/ RemoveDelete(p)
    PROVE  Achieved(p)'
  <1>1. handler \in [Handlers -> Handler] /\ handler[p] \in Handler
    BY DEF IInv, TypeOK
  <1>2. CASE Receive(p)
    <2>1. handler'[p].pc \in {"get", "find"}
      BY <1>1, <1>2 DEF Receive, Idle
    <2> QED
      BY <2>1, NothingClaimed
  <1>3. CASE RemoveGet(p)
    <2>1. CASE End(p, "ok")
      BY <2>1, EndedClaims
    <2>2. CASE handler' = [handler EXCEPT ![p].pc = "delete"]
      <3>1. handler'[p].pc = "delete"
        BY <1>1, <2>2 DEF Handler
      <3> QED
        BY <3>1, NothingClaimed
    <2> QED
      BY <1>3, <2>1, <2>2 DEF RemoveGet
  <1>4. CASE Fail(p) \/ RemoveDelete(p)
    BY <1>4, EndedClaims DEF Fail, RemoveDelete
  <1> QED
    BY <1>2, <1>3, <1>4

\* Others change neither what the Service shows nor what a handler has seen.
LEMMA OthersSpare ==
    ASSUME IInv, UNCHANGED handler, NEW p \in Handlers, Achieved(p),
           Exists(service') => Exists(service) /\ SameSpec(service', service)
    PROVE  Achieved(p)'
  <1> DEFINE h == handler[p]
  <1> SUFFICES ASSUME Exists(service')
               PROVE  /\ h.pc \in {"web", "put"} /\ Exists(h.seen) => SameSpec(service', h.seen)
                      /\ h.pc = "ok" /\ h.req # Nil => ShownBy(service', h.req, h.web)
    BY DEF Achieved, Exists, SameSpec, ShownBy
  <1>1. /\ h.pc \in {"web", "put"} /\ Exists(h.seen) => SameSpec(service, h.seen)
        /\ h.pc = "ok" /\ h.req # Nil => ShownBy(service, h.req, h.web)
    BY DEF Achieved
  <1>2. SameSpec(service', service)
    OBVIOUS
  <1>3. h.pc = "ok" /\ h.req # Nil => ShownBy(service', h.req, h.web)
    BY <1>1, <1>2, SameShows
  <1>4. h.pc \in {"web", "put"} /\ Exists(h.seen) => SameSpec(service', h.seen)
    BY <1>1, <1>2 DEF SameSpec
  <1> QED
    BY <1>3, <1>4

\* An Ensure that succeeded leaves a Service that stands, unless it found it marked.
LEMMA EnsureStands ==
    ASSUME IInv, NEW p \in Handlers, Standing(p), EnsureCreate(p) \/ EnsureUpdate(p)
    PROVE  Standing(p)'
  <1> DEFINE h == handler[p]
  <1>1. /\ End(p, "error") \/ Succeed(p)
        /\ h.req \in EnsureRequest \cap Requests /\ h.web \in WebServices
        /\ service \in Service \cup {Nil} /\ version \in Nat
    BY EnsureIsCurrent DEF IInv, TypeOK
  <1>2. CASE End(p, "error")
    BY <1>2 DEF End, Idle, IInv, TypeOK, Standing
  <1>3. CASE Succeed(p) /\ ~End(p, "error")
    <2>1. SUFFICES ASSUME ~FoundMarked(p)' PROVE Stands'
      BY DEF Standing
    <2>2. ~FoundMarked(p)
      BY <1>3, <2>1, SucceedsAs DEF FoundMarked
    <2>3. ASSUME NEW o \in Service \cup {Nil}, ~(Exists(o) /\ o.terminating),
                 NEW P \in SentPorts(o, h.req, h.web), Store(Manifest(o, h.req, h.web, P))
          PROVE  Stands'
      <3>1. service' \in Service /\ service'.terminating = (Exists(o) /\ o.terminating)
        BY <1>1, <2>3, StoredType
      <3> QED
        BY <2>3, <3>1, ServiceAssumption DEF Stands, Exists
    <2>4. CASE EnsureCreate(p)
      <3>1. PICK P \in SentPorts(Nil, h.req, h.web) : Store(Manifest(Nil, h.req, h.web, P))
        BY <1>3, <2>4 DEF EnsureCreate
      <3>2. ~Exists(Nil)
        BY DEF Exists
      <3> QED
        BY <2>3, <3>1, <3>2
    <2>5. CASE EnsureUpdate(p)
      <3>1. Exists(h.seen) /\ h.seen \in Service /\ At(p, "put")
        BY <2>5 DEF EnsureUpdate, IInv, TypeOK, Handler, Exists
      <3>2. PICK P \in SentPorts(h.seen, h.req, h.web) :
                \/ UNCHANGED cluster
                \/ Store(Manifest(h.seen, h.req, h.web, P))
        BY <1>3, <2>5 DEF EnsureUpdate
      <3>3. CASE UNCHANGED cluster
        <4>1. Stands
          BY <2>2, <3>1 DEF Standing, At
        <4> QED
          BY <3>3, <4>1 DEF cluster, Stands, Exists
      <3>4. CASE Store(Manifest(h.seen, h.req, h.web, P))
        <4>1. ~(Exists(h.seen) /\ h.seen.terminating)
          BY <2>2 DEF FoundMarked
        <4> QED
          BY <2>3, <3>1, <3>2, <3>4, <4>1
      <3> QED
        BY <3>2, <3>3, <3>4
    <2> QED
      BY <2>4, <2>5
  <1> QED
    BY <1>1, <1>2, <1>3

LEMMA OtherStepsStand ==
    ASSUME IInv, NEW p \in Handlers, Standing(p),
           \/ Receive(p) \/ Fail(p) \/ EnsureGet(p) \/ GetWebService(p)
           \/ RemoveGet(p) \/ RemoveDelete(p)
    PROVE  Standing(p)'
  <1>1. handler \in [Handlers -> Handler] /\ handler[p] \in Handler
    BY DEF IInv, TypeOK
  <1>2. ASSUME NEW outcome \in {"ok", "error"}, End(p, outcome)
        PROVE  Standing(p)'
    BY <1>1, <1>2 DEF End, Idle, Standing
  <1>3. CASE Receive(p)
    BY <1>1, <1>3 DEF Receive, Idle, Standing
  <1>4. CASE handler' = [handler EXCEPT ![p].pc = "delete"]
    <2>1. handler'[p].pc = "delete"
      BY <1>1, <1>4 DEF Handler
    <2> QED
      BY <2>1 DEF Standing
  <1>5. CASE Fail(p) \/ RemoveGet(p) \/ RemoveDelete(p)
    BY <1>2, <1>4, <1>5 DEF Fail, RemoveGet, RemoveDelete
  <1>6. CASE EnsureGet(p)
    <2>1. CASE End(p, "ok")
      BY <1>2, <2>1
    <2>2. CASE handler' = [handler EXCEPT ![p].pc = "web", ![p].seen = service]
      <3> DEFINE h == [handler[p] EXCEPT !.pc = "web", !.seen = service]
      <3>1. handler' = [handler EXCEPT ![p] = h] /\ h.pc = "web" /\ h.seen = service
        BY <1>1, <2>2 DEF Handler
      <3> HIDE DEF h
      <3>2. handler'[p].pc = "web" /\ handler'[p].seen = service
        BY <1>1, <3>1
      <3>3. service' = service
        BY <1>6 DEF EnsureGet, Local, cluster
      <3> QED
        BY <3>2, <3>3 DEF Standing, FoundMarked, Stands, Exists
    <2> QED
      BY <1>6, <2>1, <2>2 DEF EnsureGet
  <1>7. CASE GetWebService(p)
    <2>1. CASE End(p, "error")
      BY <1>2, <2>1
    <2>2. CASE handler' = [handler EXCEPT ![p].pc = "put", ![p].web = web]
      <3> DEFINE h == [handler[p] EXCEPT !.pc = "put", !.web = web]
      <3>1. /\ handler' = [handler EXCEPT ![p] = h]
            /\ h.pc = "put" /\ h.seen = handler[p].seen
        BY <1>1, <2>2 DEF Handler
      <3> HIDE DEF h
      <3>2. handler'[p].pc = "put" /\ handler'[p].seen = handler[p].seen
        BY <1>1, <3>1
      <3>3. service' = service /\ handler[p].pc = "web"
        BY <1>7 DEF GetWebService, Local, cluster, At
      <3> QED
        BY <3>2, <3>3 DEF Standing, FoundMarked, Stands, Exists
    <2> QED
      BY <1>7, <2>1, <2>2 DEF GetWebService
  <1> QED
    BY <1>3, <1>5, <1>6, <1>7

\* Others take no Service away that stands.
LEMMA OthersLetStand ==
    ASSUME IInv, UNCHANGED handler, NEW p \in Handlers, Standing(p),
           Release \/ WriteStatus \/ ToggleFreeze \/ Deploy \/ UNCHANGED vars
    PROVE  Standing(p)'
  <1>1. Stands => Stands'
    <2> SUFFICES ASSUME Stands PROVE Stands'
      OBVIOUS
    <2>1. service \in Service /\ Exists(service) /\ service.terminating = FALSE
      BY DEF Stands, IInv, TypeOK, Exists, Service
    <2>2. ~Release
      BY <2>1 DEF Release
    <2>3. CASE WriteStatus
      <3>1. PICK o : o = [service EXCEPT !.rv = version + 1]
        OBVIOUS
      <3>2. o \in Service /\ o.terminating = FALSE
        BY <2>1, <3>1 DEF Service, IInv, TypeOK
      <3>3. service' = o
        BY <2>3, <3>1 DEF WriteStatus
      <3> QED
        BY <3>2, <3>3, ServiceAssumption DEF Stands, Exists
    <2>4. CASE ToggleFreeze
      <3>1. service' = [service EXCEPT !.frozen = ~@, !.rv = version + 1]
        BY <2>4 DEF ToggleFreeze
      <3>2. version + 1 \in Nat /\ service.frozen \in BOOLEAN
        BY <2>1 DEF Service, IInv, TypeOK
      <3>3. service' \in Service
        BY <2>1, <3>1, <3>2 DEF Service
      <3>4. service'.terminating = service.terminating
        BY <2>1, <3>1 DEF Service
      <3> QED
        BY <2>1, <3>3, <3>4, ServiceAssumption DEF Stands, Exists
    <2>5. CASE Deploy \/ UNCHANGED vars
      BY <2>5 DEF Deploy, vars, cluster, Stands, Exists
    <2> QED
      BY <2>2, <2>3, <2>4, <2>5
  <1> QED
    BY <1>1 DEF Standing, FoundMarked

LEMMA InductiveSerial == IInvSerial /\ [Next]_vars => IInvSerial'
  <1> SUFFICES ASSUME IInvSerial, [Next]_vars PROVE IInvSerial'
    OBVIOUS
  <1>1. IInv /\ PortsDistinct /\ InTurn
    BY DEF IInvSerial
  <1>2. InTurn'
    <2> SUFFICES ASSUME NEW p \in Handlers, Alone(p)'
                 PROVE  Achieved(p)' /\ Standing(p)'
      BY DEF InTurn
    <2>1. ASSUME NEW q \in Handlers,
                 Receive(q) \/ Fail(q) \/ EnsureStep(q) \/ RemoveStep(q)
          PROVE  Achieved(p)' /\ Standing(p)'
      <3>1. p = q /\ Alone(p)
        BY <1>1, <2>1, AloneMoved
      <3>2. Achieved(p) /\ Standing(p)
        BY <1>1, <3>1 DEF InTurn
      <3>3. Achieved(p)'
        BY <1>1, <2>1, <3>1, <3>2, EnsureAchieves, EnsureGetAchieves, GetWebServiceAchieves,
           OtherStepsAchieve DEF EnsureStep, RemoveStep
      <3>4. Standing(p)'
        BY <1>1, <2>1, <3>1, <3>2, EnsureStands, OtherStepsStand DEF EnsureStep, RemoveStep
      <3> QED
        BY <3>3, <3>4
    <2>2. CASE Release \/ WriteStatus \/ ToggleFreeze \/ Deploy \/ UNCHANGED vars
      <3>1. UNCHANGED handler
        BY <2>2 DEF Release, WriteStatus, ToggleFreeze, Deploy, vars
      <3>2. Alone(p)
        BY <3>1 DEF Alone, At
      <3>3. Achieved(p) /\ Standing(p)
        BY <1>1, <3>2 DEF InTurn
      <3>4. ~\E q \in Handlers : EnsureCreate(q) \/ EnsureUpdate(q)
        <4> SUFFICES ASSUME NEW q \in Handlers, EnsureCreate(q) \/ EnsureUpdate(q)
                     PROVE  FALSE
          OBVIOUS
        <4>1. handler'[q].pc \in {"ok", "error"}
          <5>1. End(q, "error") => handler'[q].pc = "error"
            BY <1>1 DEF End, Idle, IInv, TypeOK
          <5> QED
            BY <1>1, <5>1, EnsureIsCurrent, SucceedsAs
        <4>2. handler[q].pc = "put"
          BY DEF EnsureCreate, EnsureUpdate, At
        <4> QED
          BY <3>1, <4>1, <4>2
      <3>5. Exists(service') => Exists(service) /\ SameSpec(service', service)
        BY <1>1, <3>4, SpecChanges
      <3>6. Standing(p)'
        BY <1>1, <2>2, <3>1, <3>3, OthersLetStand
      <3> QED
        BY <1>1, <3>1, <3>3, <3>5, <3>6, OthersSpare
    <2> QED
      BY <2>1, <2>2 DEF Next
  <1> QED
    BY <1>1, <1>2, Inductive, StaysDistinct DEF IInvSerial

LEMMA InvariantSerial == Spec => []IInvSerial
  <1>1. Init => IInvSerial
    BY Initially DEF Init, IInvSerial, PortsDistinct, InTurn, Achieved, Standing, Idle, Exists
  <1> QED
    BY <1>1, InductiveSerial, PTL DEF Spec

\* A number of a port is what it is in an int32.
LEMMA PortFits ==
    ASSUME NEW n \in 1..MaxPort
    PROVE  Int32(n) = n
  <1> DEFINE half == Width \div 2
  <1>1. Width \in Nat /\ Width > 0 /\ half \in Int /\ MaxPort < half /\ MaxPort \in Nat
    BY WidthAssumption
  <1>2. 2 * half <= Width
    BY <1>1
  <1>3. n \in Int /\ n >= 1 /\ n <= MaxPort
    BY <1>1
  <1> HIDE DEF half
  <1>4. n + half \in Int /\ 0 <= n + half /\ n + half < Width
    BY <1>1, <1>2, <1>3
  <1>5. ASSUME NEW a \in Int, 0 <= a, a < Width
        PROVE  a % Width = a
    BY <1>1, <1>5
  <1>6. (n + half) % Width = n + half
    BY <1>4, <1>5
  <1> QED
    BY <1>1, <1>3, <1>6 DEF Int32, half

\* What portsForService makes of a request is what the request asks.
LEMMA WantedAsAsked ==
    ASSUME NEW r \in EnsureRequest, NEW w
    PROVE  \E x \in WantedPorts(r, w) :
                /\ IsExtra(x, r, w)
                /\ WantedPorts(r, w) \ {x}
                    = IF r.all THEN {q \in w.ports : q.number # x.number} ELSE {}
  <1>1. PICK x : x = ExtraPort(r, w)
    OBVIOUS
  <1>2. /\ x.number = ExposedPort(r)
        /\ x.protocol = IF w.first = Nil THEN "TCP" ELSE w.first.protocol
        /\ x.target = IF w.first = Nil THEN DefaultTarget ELSE w.first.target
    BY <1>1 DEF ExtraPort
  <1>3. r.exposed \in 1..MaxPort => x.number = r.exposed
    <2> SUFFICES ASSUME r.exposed \in 1..MaxPort PROVE x.number = r.exposed
      OBVIOUS
    <2>1. r.exposed # 0 /\ r.exposed # Nil
      BY WidthAssumption, NilAssumption
    <2> QED
      BY <1>2, <2>1, PortFits DEF ExposedPort
  <1>4. r.exposed \in {Nil, 0} => x.number = DefaultPort
    BY <1>2 DEF ExposedPort
  <1>5. IsExtra(x, r, w)
    BY <1>2, <1>3, <1>4 DEF IsExtra
  <1>6. /\ x \in WantedPorts(r, w)
        /\ WantedPorts(r, w) \ {x}
            = IF r.all THEN {q \in w.ports : q.number # x.number} ELSE {}
    BY <1>1, <1>2 DEF WantedPorts
  <1> QED
    BY <1>5, <1>6

\* A successful Ensure leaves the Service there, unless it found it marked by a
\* Remove, and a Service that is there exposes what was asked for, whatever was
\* there before (Ensure, portsForService).
THEOREM EnsuredIsExposed == Spec => []Exposed
  <1>1. IInvSerial => Exposed
    <2> SUFFICES ASSUME IInvSerial, NEW p \in Handlers, Applied(p)
                 PROVE  /\ ~FoundMarked(p) => Exists(service)
                        /\ Exists(service) => ExposesAsked(handler[p].req, handler[p].web)
      BY DEF Exposed
    <2> DEFINE r == handler[p].req
               w == handler[p].web
               P == {e.port : e \in service.ports}
    <2>1. Achieved(p) /\ Standing(p)
      BY DEF IInvSerial, InTurn, Alone, Applied
    <2>2. ~FoundMarked(p) => Exists(service)
      BY <2>1 DEF Standing, Stands, Applied, At
    <2>3. ASSUME Exists(service)
          PROVE  ExposesAsked(r, w)
      <3>1. ShownBy(service, r, w)
        BY <2>1, <2>3 DEF Achieved, Applied, At
      <3>2. Distinct(service) /\ service.opts \in Requests
        BY <2>3 DEF IInvSerial, PortsDistinct, IInv, TypeOK, Service, Exists
      <3>3. P = WantedPorts(r, w)
        BY <3>1 DEF ShownBy
      <3>4. ASSUME LoneNumbers(P),
                   NEW e \in service.ports, NEW d \in service.ports, e.node = d.node
            PROVE  e = d
        <4>1. e.port \in P /\ d.port \in P
          OBVIOUS
        <4>2. e.port.number = d.port.number
          BY <3>2, <3>4 DEF Distinct
        <4>3. e.port = d.port
          BY <3>4, <4>1, <4>2 DEF LoneNumbers
        <4> QED
          BY <3>2, <4>3 DEF Distinct
      <3>5. r \in EnsureRequest
        BY DEF IInvSerial, IInv, Staged, StageOK, Applied, At
      <3>6. PICK x \in WantedPorts(r, w) :
                /\ IsExtra(x, r, w)
                /\ WantedPorts(r, w) \ {x}
                    = IF r.all THEN {q \in w.ports : q.number # x.number} ELSE {}
        BY <3>5, WantedAsAsked
      <3> QED
        BY <3>1, <3>3, <3>4, <3>6 DEF ExposesAsked, ShownBy
    <2> QED
      BY <2>2, <2>3
  <1> QED
    BY <1>1, InvariantSerial, PTL

\* The same request again changes nothing: portsForService finds the NodePort of each
\* port, and serviceHasChanges nothing to do.
THEOREM EnsuredIsSettled == Spec => []Settled
  <1>1. IInvSerial => Settled
    <2> SUFFICES ASSUME IInvSerial, NEW p \in Handlers, Applied(p), Exists(service),
                        LoneNumbers(WantedPorts(handler[p].req, handler[p].web)),
                        NEW P \in SentPorts(service, handler[p].req, handler[p].web)
                 PROVE  ~ServiceHasChanges(service,
                            Manifest(service, handler[p].req, handler[p].web, P))
      BY DEF Settled
    <2> DEFINE r == handler[p].req
               w == handler[p].web
    <2>1. ShownBy(service, r, w)
      BY DEF IInvSerial, InTurn, Alone, Applied, Achieved, At
    <2>2. Distinct(service)
      BY DEF IInvSerial, PortsDistinct
    <2>3. service \in Service
      BY DEF IInvSerial, IInv, TypeOK, Exists
    <2>4. PICK m \in SentNodes(service, r, w) : P = WithNodes(m)
      BY DEF SentPorts
    <2>5. /\ m \in [WantedPorts(r, w) -> NodePorts \cup {Nil}]
          /\ \A q \in WantedPorts(r, w) : m[q] \in KeptNodes(service, q.number)
      BY DEF SentNodes
    <2>6. P = {[port |-> q, node |-> m[q]] : q \in WantedPorts(r, w)}
      BY <2>4, <2>5 DEF WithNodes
    <2>7. ASSUME NEW e \in service.ports
          PROVE  /\ e.port \in WantedPorts(r, w) /\ m[e.port] = e.node
                 /\ e = [port |-> e.port, node |-> m[e.port]]
      <3>1. e.port \in WantedPorts(r, w)
        BY <2>1 DEF ShownBy
      <3>2. \A d \in service.ports : d.port.number = e.port.number => d = e
        <4> SUFFICES ASSUME NEW d \in service.ports, d.port.number = e.port.number
                     PROVE  d = e
          OBVIOUS
        <4>1. d.port \in WantedPorts(r, w)
          BY <2>1 DEF ShownBy
        <4>2. d.port = e.port
          BY <3>1, <4>1 DEF LoneNumbers
        <4> QED
          BY <2>2, <4>2 DEF Distinct
      <3>3. NodesOf(service, e.port.number) = {e.node}
        BY <3>2 DEF NodesOf, Numbered
      <3>4. m[e.port] = e.node
        BY <2>5, <3>1, <3>3 DEF KeptNodes
      <3>5. e \in NodePort
        BY <2>3 DEF Service
      <3> QED
        BY <3>1, <3>4, <3>5 DEF NodePort
    <2>8. P = service.ports
      <3>1. service.ports \subseteq P
        BY <2>6, <2>7
      <3>2. ASSUME NEW q \in WantedPorts(r, w)
            PROVE  [port |-> q, node |-> m[q]] \in service.ports
        <4>1. PICK e \in service.ports : e.port = q
          BY <2>1 DEF ShownBy
        <4> QED
          BY <2>7, <4>1
      <3> QED
        BY <2>6, <3>1, <3>2
    <2> DEFINE M == Manifest(service, r, w, P)
    <2>9. /\ M.ports = P /\ M.selector = w.selector /\ M.opts = r /\ M.marks = w.marks
          /\ M.policy = IF r.policy # Nil THEN r.policy ELSE service.policy
      BY DEF Manifest
    <2> HIDE DEF M
    <2>10. ~ServiceHasChanges(service, M)
      BY <2>1, <2>8, <2>9 DEF ShownBy, ServiceHasChanges
    <2> QED
      BY <2>10 DEF M
  <1> QED
    BY <1>1, InvariantSerial, PTL
=============================================================================
