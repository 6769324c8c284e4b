---------------------------- MODULE IngressProofs ----------------------------
(***************************************************************************)
(* Proofs about IngressService, for any apps, CNames, handlers and bounds. *)
(*                                                                         *)
(* The argument: every write to an ingress gives it a version no handler   *)
(* has seen, so an ingress that still has the version a handler read is    *)
(* the ingress it read (Versioned).  An Update the server accepts is thus  *)
(* computed from what is stored, and what an Update keeps of the ingress   *)
(* it read (a TLS entry, the freeze) is kept of the ingress that is there. *)
(***************************************************************************)
EXTENDS IngressProperties, FiniteSetTheorems, TLAPS

EnsurePCs == {"get", "put", "cnames", "cput", "cdelete"}
FoundPCs == {"mksecret", "getsecret", "putsecret", "addtls", "untls", "unsecret"}
CertPCs == {"target", "main"} \cup FoundPCs

\* What the position of a handler says of its request and of its locals.
StageOK(h) ==
    /\ h.pc \in EnsurePCs => h.req \in EnsureRequest
    /\ h.pc = "delete" => h.req \in RemoveRequest
    /\ h.pc \in CertPCs => h.req \in CertRequest
    /\ h.pc = "put" => h.name = h.req.app
    /\ h.pc \in {"cput", "cdelete"} => h.name \in CNames
    /\ h.pc \in {"put", "cput"} => ~Frozen(h.seen)
    /\ h.pc \in FoundPCs => h.name \in Names /\ Exists(h.seen)
    /\ Exists(h.seen) => h.name \in Names

Staged == \A p \in Handlers : StageOK(handler[p])

VersionsBound ==
    /\ \A n \in Names : Exists(ingress[n]) =>
            0 < ingress[n].rv /\ ingress[n].rv <= version[n]
    /\ \A p \in Handlers : Exists(handler[p].seen) =>
            0 < handler[p].seen.rv /\ handler[p].seen.rv <= version[handler[p].name]

Versioned == VersionsBound /\ SeenIsCurrent

IInv == TypeOK /\ Staged /\ Versioned

-----------------------------------------------------------------------------
(* The values the operators return.                                        *)

\* The rules of an ingress list each of its hosts once.
LEMMA RuleOrdersType ==
    ASSUME NEW hosts \in SUBSET Hosts, NEW s \in RuleOrders(hosts)
    PROVE  s \in HostList
  <1>1. IsFiniteSet(hosts)
    BY NamesAssumption, FS_Subset
  <1>2. Cardinality(hosts) \in Nat
    BY <1>1, FS_CardinalityType
  <1>3. /\ s \in [1..Cardinality(hosts) -> hosts]
        /\ \A i, j \in 1..Cardinality(hosts) : i # j => s[i] # s[j]
    BY DEF RuleOrders, SetToSeqs
  <1>4. s \in Seq(hosts)
    BY <1>2, <1>3
  <1>5. s \in Seq(Hosts)
    BY <1>4
  <1> QED
    BY <1>3, <1>5 DEF HostList, IsInjective

\* A list of one host.
LEMMA SingletonType ==
    ASSUME NEW h \in Hosts
    PROVE  <<h>> \in HostList /\ <<>> \in HostList
  BY DEF HostList, IsInjective

LEMMA MainIngressType ==
    ASSUME NEW r \in EnsureRequest, NEW rules \in RuleOrders(r.hosts)
    PROVE  MainIngress(r, rules) \in Ingress
  <1>1. rules \in HostList
    BY RuleOrdersType DEF EnsureRequest
  <1>2. <<>> \in HostList
    BY DEF HostList, IsInjective
  <1> QED
    BY <1>1, <1>2 DEF MainIngress, FillIngressTLS, Ingress, EnsureRequest

LEMMA CNameIngressType ==
    ASSUME NEW r \in EnsureRequest, NEW c \in CNames, NEW parent \in Nat
    PROVE  CNameIngress(r, c, parent) \in Ingress
  <1>1. <<c>> \in HostList /\ <<>> \in HostList
    BY SingletonType DEF Hosts
  <1> QED
    BY <1>1 DEF CNameIngress, CNameOwner, FillIngressTLS, Ingress, EnsureRequest

LEMMA MergeIngressType ==
    ASSUME NEW new \in Ingress, NEW old \in Ingress
    PROVE  MergeIngress(new, old) \in Ingress
  BY DEF MergeIngress, FillIngressTLS, Ingress

LEMMA AddTLSEntryType ==
    ASSUME NEW tls \in HostList, NEW host \in Hosts
    PROVE  AddTLSEntry(tls, host) \in HostList
  <1>1. CASE host \in ToSet(tls)
    BY <1>1 DEF AddTLSEntry
  <1>2. CASE host \notin ToSet(tls)
    <2>1. \A i \in 1..Len(tls) : tls[i] # host
      BY <1>2 DEF ToSet, HostList
    <2>2. Append(tls, host) \in Seq(Hosts)
      BY DEF HostList
    <2>3. IsInjective(Append(tls, host))
      BY <2>1 DEF IsInjective, HostList
    <2> QED
      BY <1>2, <2>2, <2>3 DEF AddTLSEntry, HostList
  <1> QED
    BY <1>1, <1>2

LEMMA DropTLSEntryType ==
    ASSUME NEW tls \in HostList, NEW host \in Hosts
    PROVE  DropTLSEntry(tls, host) \in HostList
  <1>1. CASE tls # <<>> /\ tls[Len(tls)] = host
    <2>1. Len(tls) \in Nat \ {0} /\ tls \in Seq(Hosts)
      BY <1>1 DEF HostList
    <2>2. SubSeq(tls, 1, Len(tls) - 1) \in Seq(Hosts)
      BY <2>1
    <2>3. IsInjective(SubSeq(tls, 1, Len(tls) - 1))
      BY <2>1 DEF IsInjective, HostList
    <2> QED
      BY <1>1, <2>2, <2>3 DEF DropTLSEntry, HostList
  <1>2. CASE ~(tls # <<>> /\ tls[Len(tls)] = host)
    BY <1>2 DEF DropTLSEntry
  <1> QED
    BY <1>1, <1>2

\* What the API server stores is an ingress, with the next version unless
\* nothing changed.
LEMMA CreatedType ==
    ASSUME NEW m \in Ingress, NEW v \in Nat
    PROVE  /\ Created(m, v) \in Ingress
           /\ Created(m, v).rv = v /\ Created(m, v).uid = v
  BY DEF Created, Ingress

LEMMA OverType ==
    ASSUME NEW m \in Ingress, NEW o \in Ingress
    PROVE  Over(o, m) \in Ingress
  BY DEF Over, Ingress

LEMMA EditedType ==
    ASSUME NEW m \in Ingress, NEW o \in Ingress, NEW v \in Nat
    PROVE  /\ Edited(o, m, v) \in Ingress
           /\ Over(o, m) = o => Edited(o, m, v) = o
           /\ Over(o, m) # o => Edited(o, m, v).rv = v
  <1>1. Over(o, m) \in Ingress
    BY OverType
  <1>2. [Over(o, m) EXCEPT !.rv = v] \in Ingress /\ [Over(o, m) EXCEPT !.rv = v].rv = v
    BY <1>1 DEF Ingress
  <1> QED
    BY <1>2 DEF Edited

LEMMA ReplacedType ==
    ASSUME NEW m \in Ingress, NEW o \in Ingress, NEW v \in Nat
    PROVE  /\ Replaced(o, m, v) \in Ingress \cup {Nil}
           /\ Over(o, m) = o => Replaced(o, m, v) \in {Nil, o}
           /\ Over(o, m) # o => Replaced(o, m, v) = Nil \/ Replaced(o, m, v).rv = v
  <1>1. CASE o.terminating
    BY <1>1 DEF Replaced
  <1>2. CASE ~o.terminating
    <2>1. Replaced(o, m, v) = Edited(o, m, v)
      BY <1>2 DEF Replaced, Edited
    <2>2. /\ Edited(o, m, v) \in Ingress
          /\ Over(o, m) = o => Edited(o, m, v) = o
          /\ Over(o, m) # o => Edited(o, m, v).rv = v
      BY EditedType
    <2> QED
      BY <2>1, <2>2
  <1> QED
    BY <1>1, <1>2

LEMMA MarkedType ==
    ASSUME NEW o \in Ingress, NEW v \in Nat
    PROVE  /\ Marked(o, v) \in Ingress
           /\ o.terminating => Marked(o, v) = o
           /\ ~o.terminating => Marked(o, v).rv = v
  BY DEF Marked, Ingress

-----------------------------------------------------------------------------
(* Typing: one step per action.                                            *)

\* A handler that got a well-typed, well-staged state keeps both invariants.
LEMMA HandlerSet ==
    ASSUME TypeOK, Staged, NEW p \in Handlers, NEW h \in Handler, StageOK(h),
           handler' = [handler EXCEPT ![p] = h]
    PROVE  handler' \in [Handlers -> Handler] /\ Staged'
  <1>1. handler' \in [Handlers -> Handler]
    BY DEF TypeOK
  <1>2. \A q \in Handlers : StageOK(handler'[q])
    BY DEF TypeOK, Staged
  <1>3. Staged'
    BY <1>2 DEF Staged
  <1> QED
    BY <1>1, <1>3

\* A handler that returns.
LEMMA EndTyped ==
    ASSUME TypeOK, Staged, NEW p \in Handlers, NEW outcome \in Ends, End(p, outcome)
    PROVE  handler' \in [Handlers -> Handler] /\ Staged'
  <1> DEFINE h == [Idle EXCEPT !.pc = outcome, !.req = handler[p].req,
                               !.parent = handler[p].parent]
  <1>1. handler[p] \in Handler
    BY DEF TypeOK
  <1>2. h \in Handler
    BY <1>1 DEF Handler, Idle
  <1>3. StageOK(h)
    BY <1>1 DEF StageOK, Idle, Ends, Exists, EnsurePCs, FoundPCs, CertPCs
  <1>4. handler' = [handler EXCEPT ![p] = h]
    BY DEF End
  <1> HIDE DEF h
  <1> QED
    BY <1>2, <1>3, <1>4, HandlerSet

\* A write to one ingress.
LEMMA WriteTyped ==
    ASSUME TypeOK, NEW n \in Names, NEW o \in Ingress \cup {Nil}, NEW v \in Nat,
           ingress' = [ingress EXCEPT ![n] = o], version' = [version EXCEPT ![n] = v]
    PROVE  /\ ingress' \in [Names -> Ingress \cup {Nil}]
           /\ version' \in [Names -> Nat]
  BY DEF TypeOK

\* A call the server refuses.
LEMMA RefusedTyped ==
    ASSUME TypeOK, Staged, NEW p \in Handlers, Refused(p)
    PROVE  TypeOK' /\ Staged'
  <1>1. handler' \in [Handlers -> Handler] /\ Staged'
    BY EndTyped DEF Refused, Ends
  <1> QED
    BY <1>1 DEF Refused, TypeOK, cluster, bounds

\* Receive, Fail and Return.
LEMMA OutlineTyped ==
    ASSUME TypeOK, Staged, NEW p \in Handlers, Receive(p) \/ Fail(p) \/ Return(p)
    PROVE  TypeOK' /\ Staged'
  <1>1. CASE Receive(p)
    <2>1. PICK r \in Requests :
            handler' = [handler EXCEPT ![p] = [Idle EXCEPT !.pc = FirstStep(r.op), !.req = r]]
      BY <1>1 DEF Receive
    <2> DEFINE h == [Idle EXCEPT !.pc = FirstStep(r.op), !.req = r]
    <2>2. r \in EnsureRequest \cup RemoveRequest \cup CertRequest
      BY RequestsAssumption DEF RequestType
    <2>3. h \in Handler
      BY <2>2 DEF Handler, Idle, FirstStep, Steps
    <2>4. StageOK(h)
      <3>1. CASE r \in EnsureRequest
        <4>1. h.pc = "get" /\ h.req = r /\ h.seen = Nil
          BY <3>1 DEF Idle, FirstStep, EnsureRequest
        <4> HIDE DEF h
        <4> QED
          BY <3>1, <4>1 DEF StageOK, Exists, EnsurePCs, FoundPCs, CertPCs
      <3>2. CASE r \in RemoveRequest
        <4>1. h.pc = "delete" /\ h.req = r /\ h.seen = Nil
          BY <3>2 DEF Idle, FirstStep, RemoveRequest
        <4> HIDE DEF h
        <4> QED
          BY <3>2, <4>1 DEF StageOK, Exists, EnsurePCs, FoundPCs, CertPCs
      <3>3. CASE r \in CertRequest
        <4>1. h.pc = "target" /\ h.req = r /\ h.seen = Nil
          BY <3>3 DEF Idle, FirstStep, CertRequest
        <4> HIDE DEF h
        <4> QED
          BY <3>3, <4>1 DEF StageOK, Exists, EnsurePCs, FoundPCs, CertPCs
      <3> QED
        BY <2>2, <3>1, <3>2, <3>3
    <2>5. handler' \in [Handlers -> Handler] /\ Staged'
      <3> HIDE DEF h
      <3> QED
        BY <2>1, <2>3, <2>4, HandlerSet DEF h
    <2>6. UNCHANGED <<cluster, faults, events>> /\ received' = received + 1
      BY <1>1 DEF Receive
    <2> HIDE DEF h
    <2> QED
      BY <2>5, <2>6 DEF TypeOK, cluster
  <1>2. CASE Fail(p)
    <2>1. handler' \in [Handlers -> Handler] /\ Staged'
      BY <1>2, EndTyped DEF Fail, Ends
    <2> QED
      BY <1>2, <2>1 DEF Fail, TypeOK, cluster
  <1>3. CASE Return(p)
    <2>1. handler' \in [Handlers -> Handler] /\ Staged'
      BY <1>3, EndTyped DEF Return, Ends
    <2> QED
      BY <1>3, <2>1 DEF Return, TypeOK, cluster, bounds
  <1> QED
    BY <1>1, <1>2, <1>3

LEMMA EnsureGetTyped ==
    ASSUME TypeOK, Staged, NEW p \in Handlers, EnsureGet(p)
    PROVE  TypeOK' /\ Staged'
  <1> DEFINE a == handler[p].req.app
             done == [handler[p] EXCEPT !.pc = "return"]
             put == [handler[p] EXCEPT !.pc = "put", !.name = a, !.seen = ingress[a]]
  <1>1. handler[p] \in Handler /\ StageOK(handler[p]) /\ handler[p].pc = "get"
    BY DEF TypeOK, Staged, EnsureGet, At
  <1>2. handler[p].req \in EnsureRequest /\ a \in Names
    BY <1>1 DEF StageOK, EnsurePCs, EnsureRequest, Names
  <1>3. ingress[a] \in Ingress \cup {Nil}
    BY <1>2 DEF TypeOK
  <1>4. done \in Handler /\ put \in Handler
    BY <1>1, <1>2, <1>3 DEF Handler, Steps
  <1>5. StageOK(done) /\ (~Frozen(ingress[a]) => StageOK(put))
    BY <1>1, <1>2, <1>3 DEF Handler, StageOK, Exists, EnsurePCs, FoundPCs, CertPCs
  <1>6. \/ handler' = [handler EXCEPT ![p] = done]
        \/ handler' = [handler EXCEPT ![p] = put] /\ ~Frozen(ingress[a])
    BY DEF EnsureGet
  <1> HIDE DEF done, put
  <1>7. handler' \in [Handlers -> Handler] /\ Staged'
    BY <1>4, <1>5, <1>6, HandlerSet
  <1> QED
    BY <1>7 DEF EnsureGet, TypeOK, cluster, bounds

\* Going on to the CNames.
LEMMA GoToCNamesTyped ==
    ASSUME TypeOK, Staged, NEW p \in Handlers, NEW parent \in Nat,
           handler[p].req \in EnsureRequest, GoToCNames(p, parent)
    PROVE  handler' \in [Handlers -> Handler] /\ Staged'
  <1> DEFINE h == [Idle EXCEPT !.pc = "cnames", !.req = handler[p].req, !.parent = parent,
                               !.todo = handler[p].req.cnames,
                               !.drop = CNamesToRemove(handler[p].seen, handler[p].req.cnames)]
  <1>1. handler[p] \in Handler
    BY DEF TypeOK
  <1>2. CNamesToRemove(handler[p].seen, handler[p].req.cnames) \in SUBSET CNames
    BY <1>1 DEF CNamesToRemove, Exists, Handler, Ingress
  <1>3. h \in Handler
    BY <1>1, <1>2 DEF Handler, Idle, Steps, EnsureRequest
  <1>4. StageOK(h)
    BY DEF Idle, StageOK, Exists, EnsurePCs, FoundPCs, CertPCs
  <1>5. handler' = [handler EXCEPT ![p] = h]
    BY DEF GoToCNames
  <1> HIDE DEF h
  <1> QED
    BY <1>3, <1>4, <1>5, HandlerSet

\* The writes that the handlers do.
LEMMA CreateTyped ==
    ASSUME TypeOK, NEW n \in Names, NEW m \in Ingress, CreateIngress(n, m)
    PROVE  /\ ingress' \in [Names -> Ingress \cup {Nil}]
           /\ version' \in [Names -> Nat]
  <1> DEFINE v == version[n] + 1
             o == Created(m, version[n] + 1)
  <1>1. v \in Nat
    BY DEF TypeOK
  <1>2. o \in Ingress
    BY <1>1, CreatedType
  <1>3. ingress' = [ingress EXCEPT ![n] = o] /\ version' = [version EXCEPT ![n] = v]
    BY DEF CreateIngress
  <1> HIDE DEF o, v
  <1> QED
    BY <1>1, <1>2, <1>3, WriteTyped

LEMMA ReplaceTyped ==
    ASSUME TypeOK, NEW n \in Names, Exists(ingress[n]), NEW m \in Ingress,
           ReplaceIngress(n, m)
    PROVE  /\ ingress' \in [Names -> Ingress \cup {Nil}]
           /\ version' \in [Names -> Nat]
  <1> DEFINE v == IF Over(ingress[n], m) = ingress[n] THEN version[n] ELSE version[n] + 1
             o == Replaced(ingress[n], m, version[n] + 1)
  <1>1. version[n] + 1 \in Nat /\ v \in Nat /\ ingress[n] \in Ingress
    BY DEF TypeOK, Exists
  <1>2. o \in Ingress \cup {Nil}
    BY <1>1, ReplacedType
  <1>3. ingress' = [ingress EXCEPT ![n] = o] /\ version' = [version EXCEPT ![n] = v]
    BY DEF ReplaceIngress
  <1> HIDE DEF o, v
  <1> QED
    BY <1>1, <1>2, <1>3, WriteTyped

LEMMA EditTyped ==
    ASSUME TypeOK, NEW n \in Names, Exists(ingress[n]), NEW m \in Ingress,
           EditIngress(n, m)
    PROVE  /\ ingress' \in [Names -> Ingress \cup {Nil}]
           /\ version' \in [Names -> Nat]
  <1> DEFINE v == IF Over(ingress[n], m) = ingress[n] THEN version[n] ELSE version[n] + 1
             o == Edited(ingress[n], m, version[n] + 1)
  <1>1. version[n] + 1 \in Nat /\ v \in Nat /\ ingress[n] \in Ingress
    BY DEF TypeOK, Exists
  <1>2. o \in Ingress \cup {Nil}
    BY <1>1, EditedType
  <1>3. ingress' = [ingress EXCEPT ![n] = o] /\ version' = [version EXCEPT ![n] = v]
    BY DEF EditIngress
  <1> HIDE DEF o, v
  <1> QED
    BY <1>1, <1>2, <1>3, WriteTyped

LEMMA EnsureCreateTyped ==
    ASSUME TypeOK, Staged, NEW p \in Handlers, EnsureCreate(p)
    PROVE  TypeOK' /\ Staged'
  <1> DEFINE n == handler[p].name
  <1>1. handler[p] \in Handler /\ StageOK(handler[p]) /\ handler[p].pc = "put"
    BY DEF TypeOK, Staged, EnsureCreate, At
  <1>2. handler[p].req \in EnsureRequest /\ n \in Names
    BY <1>1 DEF StageOK, EnsurePCs, EnsureRequest, Names
  <1>3. CASE Refused(p)
    BY <1>3, RefusedTyped
  <1>4. CASE ~Refused(p)
    <2>1. PICK rules \in RuleOrders(handler[p].req.hosts) :
            CreateIngress(n, MainIngress(handler[p].req, rules))
      BY <1>4 DEF EnsureCreate
    <2>2. /\ GoToCNames(p, version[n] + 1)
          /\ UNCHANGED <<secrets, certificate, bounds>>
      BY <1>4 DEF EnsureCreate
    <2>3. MainIngress(handler[p].req, rules) \in Ingress
      BY <1>2, MainIngressType
    <2>4. version[n] \in Nat
      BY <1>2 DEF TypeOK
    <2>5. /\ ingress' \in [Names -> Ingress \cup {Nil}]
          /\ version' \in [Names -> Nat]
      BY <1>2, <2>1, <2>3, CreateTyped
    <2>6. handler' \in [Handlers -> Handler] /\ Staged'
      BY <1>2, <2>2, <2>4, GoToCNamesTyped
    <2> QED
      BY <2>2, <2>5, <2>6 DEF TypeOK, secrets, bounds
  <1> QED
    BY <1>3, <1>4

LEMMA EnsureUpdateTyped ==
    ASSUME TypeOK, Staged, NEW p \in Handlers, EnsureUpdate(p)
    PROVE  TypeOK' /\ Staged'
  <1> DEFINE n == handler[p].name
             seen == handler[p].seen
  <1>1. /\ handler[p] \in Handler /\ StageOK(handler[p])
        /\ handler[p].pc = "put" /\ Exists(seen)
    BY DEF TypeOK, Staged, EnsureUpdate, At
  <1>2. handler[p].req \in EnsureRequest /\ n \in Names /\ seen \in Ingress
    BY <1>1 DEF StageOK, EnsurePCs, EnsureRequest, Names, Handler, Exists
  <1>3. seen.uid \in Nat
    BY <1>2 DEF Ingress
  <1>4. PICK rules \in RuleOrders(handler[p].req.hosts) :
          LET new == MainIngress(handler[p].req, rules) IN
          \/ GoToCNames(p, seen.uid) /\ UNCHANGED <<cluster, bounds>>
          \/ /\ Accepts(ingress[n], MergeVersion(seen))
             /\ ReplaceIngress(n, MergeIngress(new, seen))
             /\ GoToCNames(p, seen.uid)
             /\ UNCHANGED <<secrets, certificate, bounds>>
          \/ Refused(p)
    BY DEF EnsureUpdate
  <1>5. CASE GoToCNames(p, seen.uid) /\ UNCHANGED <<cluster, bounds>>
    <2>1. handler' \in [Handlers -> Handler] /\ Staged'
      BY <1>2, <1>3, <1>5, GoToCNamesTyped
    <2> QED
      BY <1>5, <2>1 DEF TypeOK, cluster, bounds
  <1>6. CASE /\ Accepts(ingress[n], MergeVersion(seen))
             /\ ReplaceIngress(n, MergeIngress(MainIngress(handler[p].req, rules), seen))
             /\ GoToCNames(p, seen.uid)
             /\ UNCHANGED <<secrets, certificate, bounds>>
    <2>1. MergeIngress(MainIngress(handler[p].req, rules), seen) \in Ingress
      BY <1>2, MainIngressType, MergeIngressType
    <2>2. /\ ingress' \in [Names -> Ingress \cup {Nil}]
          /\ version' \in [Names -> Nat]
      BY <1>2, <1>6, <2>1, ReplaceTyped DEF Accepts
    <2>3. handler' \in [Handlers -> Handler] /\ Staged'
      BY <1>2, <1>3, <1>6, GoToCNamesTyped
    <2> QED
      BY <1>6, <2>2, <2>3 DEF TypeOK, secrets, bounds
  <1> QED
    BY <1>4, <1>5, <1>6, RefusedTyped

LEMMA CNameGetTyped ==
    ASSUME TypeOK, Staged, NEW p \in Handlers, CNameGet(p)
    PROVE  TypeOK' /\ Staged'
  <1>1. handler[p] \in Handler /\ StageOK(handler[p]) /\ handler[p].pc = "cnames"
    BY DEF TypeOK, Staged, CNameGet, At
  <1>2. PICK c \in handler[p].todo :
          \/ handler' = [handler EXCEPT ![p] = [handler[p] EXCEPT !.todo = @ \ {c}]]
          \/ /\ handler' = [handler EXCEPT ![p] =
                  [handler[p] EXCEPT !.pc = "cput", !.name = c, !.seen = ingress[c]]]
             /\ ~Frozen(ingress[c])
    BY DEF CNameGet
  <1> DEFINE skip == [handler[p] EXCEPT !.todo = @ \ {c}]
             put == [handler[p] EXCEPT !.pc = "cput", !.name = c, !.seen = ingress[c]]
  <1>3. c \in CNames /\ c \in Names /\ ingress[c] \in Ingress \cup {Nil}
    BY <1>1 DEF Handler, Names, TypeOK
  <1>4. skip \in Handler /\ put \in Handler
    BY <1>1, <1>3 DEF Handler, Steps
  <1>5. StageOK(skip) /\ (~Frozen(ingress[c]) => StageOK(put))
    BY <1>1, <1>3 DEF Handler, StageOK, Exists, EnsurePCs, FoundPCs, CertPCs
  <1>6. \/ handler' = [handler EXCEPT ![p] = skip]
        \/ handler' = [handler EXCEPT ![p] = put] /\ ~Frozen(ingress[c])
    BY <1>2
  <1> HIDE DEF skip, put
  <1>7. handler' \in [Handlers -> Handler] /\ Staged'
    BY <1>4, <1>5, <1>6, HandlerSet
  <1> QED
    BY <1>7 DEF CNameGet, TypeOK, cluster, bounds

LEMMA NextCNameTyped ==
    ASSUME TypeOK, Staged, NEW p \in Handlers, handler[p].pc \in {"cput", "cdelete"},
           NextCName(p)
    PROVE  handler' \in [Handlers -> Handler] /\ Staged'
  <1> DEFINE h == [handler[p] EXCEPT !.pc = "cnames", !.todo = @ \ {handler[p].name},
                                     !.name = Nil, !.seen = Nil]
  <1>1. handler[p] \in Handler /\ StageOK(handler[p])
    BY DEF TypeOK, Staged
  <1>2. h \in Handler
    BY <1>1 DEF Handler, Steps
  <1>3. StageOK(h)
    BY <1>1 DEF Handler, StageOK, Exists, EnsurePCs, FoundPCs, CertPCs
  <1>4. handler' = [handler EXCEPT ![p] = h]
    BY DEF NextCName
  <1> HIDE DEF h
  <1> QED
    BY <1>2, <1>3, <1>4, HandlerSet

LEMMA AfterCNamePutTyped ==
    ASSUME TypeOK, Staged, NEW p \in Handlers, handler[p].pc = "cput", NEW tls,
           AfterCNamePut(p, tls)
    PROVE  handler' \in [Handlers -> Handler] /\ Staged'
  <1> DEFINE h == [handler[p] EXCEPT !.pc = "cdelete"]
  <1>1. CASE NextCName(p)
    BY <1>1, NextCNameTyped
  <1>2. CASE handler' = [handler EXCEPT ![p] = h]
    <2>1. handler[p] \in Handler /\ StageOK(handler[p])
      BY DEF TypeOK, Staged
    <2>2. h \in Handler
      BY <2>1 DEF Handler, Steps
    <2>3. StageOK(h)
      BY <2>1 DEF Handler, StageOK, Exists, EnsurePCs, FoundPCs, CertPCs
    <2> HIDE DEF h
    <2> QED
      BY <1>2, <2>2, <2>3, HandlerSet
  <1> QED
    BY <1>1, <1>2 DEF AfterCNamePut

LEMMA CNameCreateTyped ==
    ASSUME TypeOK, Staged, NEW p \in Handlers, CNameCreate(p)
    PROVE  TypeOK' /\ Staged'
  <1> DEFINE n == handler[p].name
             m == CNameIngress(handler[p].req, n, handler[p].parent)
  <1>1. handler[p] \in Handler /\ StageOK(handler[p]) /\ handler[p].pc = "cput"
    BY DEF TypeOK, Staged, CNameCreate, At
  <1>2. /\ handler[p].req \in EnsureRequest /\ n \in CNames /\ n \in Names
        /\ handler[p].parent \in Nat
    BY <1>1 DEF StageOK, EnsurePCs, Handler, Names
  <1>3. CASE CreateIngress(n, m) /\ NextCName(p) /\ UNCHANGED <<secrets, certificate, bounds>>
    <2>1. m \in Ingress
      BY <1>2, CNameIngressType
    <2>2. /\ ingress' \in [Names -> Ingress \cup {Nil}]
          /\ version' \in [Names -> Nat]
      BY <1>2, <1>3, <2>1, CreateTyped
    <2>3. handler' \in [Handlers -> Handler] /\ Staged'
      BY <1>1, <1>3, NextCNameTyped
    <2> QED
      BY <1>3, <2>2, <2>3 DEF TypeOK, secrets, bounds
  <1> QED
    BY <1>3, RefusedTyped DEF CNameCreate

LEMMA CNameUpdateTyped ==
    ASSUME TypeOK, Staged, NEW p \in Handlers, CNameUpdate(p)
    PROVE  TypeOK' /\ Staged'
  <1> DEFINE n == handler[p].name
             seen == handler[p].seen
             new == CNameIngress(handler[p].req, n, handler[p].parent)
             merged == MergeIngress(new, seen)
  <1>1. /\ handler[p] \in Handler /\ StageOK(handler[p])
        /\ handler[p].pc = "cput" /\ Exists(seen)
    BY DEF TypeOK, Staged, CNameUpdate, At
  <1>2. /\ handler[p].req \in EnsureRequest /\ n \in CNames /\ n \in Names
        /\ handler[p].parent \in Nat /\ seen \in Ingress
    BY <1>1 DEF StageOK, EnsurePCs, Handler, Names, Exists
  <1>3. \/ AfterCNamePut(p, new.tls) /\ UNCHANGED <<cluster, bounds>>
        \/ /\ Accepts(ingress[n], MergeVersion(seen))
           /\ ReplaceIngress(n, merged)
           /\ AfterCNamePut(p, merged.tls)
           /\ UNCHANGED <<secrets, certificate, bounds>>
        \/ Refused(p)
    BY DEF CNameUpdate
  <1>4. CASE AfterCNamePut(p, new.tls) /\ UNCHANGED <<cluster, bounds>>
    <2>1. handler' \in [Handlers -> Handler] /\ Staged'
      BY <1>1, <1>4, AfterCNamePutTyped
    <2> QED
      BY <1>4, <2>1 DEF TypeOK, cluster, bounds
  <1>5. CASE /\ Accepts(ingress[n], MergeVersion(seen))
             /\ ReplaceIngress(n, merged)
             /\ AfterCNamePut(p, merged.tls)
             /\ UNCHANGED <<secrets, certificate, bounds>>
    <2>1. merged \in Ingress
      BY <1>2, CNameIngressType, MergeIngressType
    <2>2. /\ ingress' \in [Names -> Ingress \cup {Nil}]
          /\ version' \in [Names -> Nat]
      <3> HIDE DEF merged
      <3> QED
        BY <1>2, <1>5, <2>1, ReplaceTyped DEF Accepts
    <2>3. handler' \in [Handlers -> Handler] /\ Staged'
      BY <1>1, <1>5, AfterCNamePutTyped
    <2> QED
      BY <1>5, <2>2, <2>3 DEF TypeOK, secrets, bounds
  <1> QED
    BY <1>3, <1>4, <1>5, RefusedTyped

LEMMA CNameRestTyped ==
    ASSUME TypeOK, Staged, NEW p \in Handlers,
           CNameDeleteCertificate(p) \/ CNameRemove(p) \/ EnsureDone(p)
    PROVE  TypeOK' /\ Staged'
  <1>1. handler[p] \in Handler /\ StageOK(handler[p])
    BY DEF TypeOK, Staged
  <1>2. CASE CNameDeleteCertificate(p)
    <2>1. handler' \in [Handlers -> Handler] /\ Staged'
      BY <1>2, NextCNameTyped DEF CNameDeleteCertificate, At
    <2>2. certificate' \in [SecretKeys -> Nat]
      BY <1>2 DEF CNameDeleteCertificate, TypeOK
    <2> QED
      BY <1>2, <2>1, <2>2 DEF CNameDeleteCertificate, TypeOK, ingresses, secrets, bounds
  <1>3. CASE CNameRemove(p)
    <2>1. PICK c \in handler[p].drop :
            /\ DeleteIngress(c)
            /\ handler' = [handler EXCEPT ![p].drop = @ \ {c}]
      BY <1>3 DEF CNameRemove
    <2> DEFINE h == [handler[p] EXCEPT !.drop = @ \ {c}]
    <2>2. h \in Handler /\ StageOK(h)
      BY <1>1 DEF Handler, StageOK, Exists, EnsurePCs, FoundPCs, CertPCs
    <2>3. handler' \in [Handlers -> Handler] /\ Staged'
      <3>1. handler' = [handler EXCEPT ![p] = h]
        BY <2>1
      <3> HIDE DEF h
      <3> QED
        BY <2>2, <3>1, HandlerSet
    <2>4. ingress' \in [Names -> Ingress \cup {Nil}]
      BY <2>1 DEF DeleteIngress, TypeOK
    <2> HIDE DEF h
    <2> QED
      BY <1>3, <2>1, <2>3, <2>4 DEF CNameRemove, DeleteIngress, TypeOK, secrets, bounds
  <1>4. CASE EnsureDone(p)
    <2>1. handler' \in [Handlers -> Handler] /\ Staged'
      BY <1>4, EndTyped DEF EnsureDone, Ends
    <2> QED
      BY <1>4, <2>1 DEF EnsureDone, TypeOK, cluster, bounds
  <1> QED
    BY <1>2, <1>3, <1>4

LEMMA RemoveMainTyped ==
    ASSUME TypeOK, Staged, NEW p \in Handlers, RemoveMain(p)
    PROVE  TypeOK' /\ Staged'
  <1> DEFINE a == handler[p].req.app
             h == [handler[p] EXCEPT !.pc = "return"]
  <1>1. handler[p] \in Handler /\ StageOK(handler[p]) /\ handler[p].pc = "delete"
    BY DEF TypeOK, Staged, RemoveMain, At
  <1>2. a \in Names
    BY <1>1 DEF StageOK, RemoveRequest, Names
  <1>3. h \in Handler /\ StageOK(h)
    BY <1>1 DEF Handler, Steps, StageOK, Exists, EnsurePCs, FoundPCs, CertPCs
  <1>4. handler' \in [Handlers -> Handler] /\ Staged'
    <2>1. handler' = [handler EXCEPT ![p] = h]
      BY DEF RemoveMain
    <2> HIDE DEF h
    <2> QED
      BY <1>3, <2>1, HandlerSet
  <1>5. /\ ingress' \in [Names -> Ingress \cup {Nil}]
        /\ version' \in [Names -> Nat]
    <2>1. CASE UNCHANGED ingresses
      BY <2>1 DEF ingresses, TypeOK
    <2>2. CASE /\ Exists(ingress[a])
               /\ ingress' = [ingress EXCEPT ![a] = Marked(@, version[a] + 1)]
               /\ version' = [version EXCEPT ![a] = IF ingress[a].terminating THEN @ ELSE @ + 1]
      <3> DEFINE o == Marked(ingress[a], version[a] + 1)
                 v == IF ingress[a].terminating THEN version[a] ELSE version[a] + 1
      <3>1. ingress[a] \in Ingress /\ version[a] + 1 \in Nat /\ v \in Nat
        BY <1>2, <2>2 DEF TypeOK, Exists
      <3>2. o \in Ingress
        BY <3>1, MarkedType
      <3>3. ingress' = [ingress EXCEPT ![a] = o] /\ version' = [version EXCEPT ![a] = v]
        BY <2>2
      <3> HIDE DEF o, v
      <3> QED
        BY <1>2, <3>1, <3>2, <3>3, WriteTyped
    <2> QED
      BY <2>1, <2>2 DEF RemoveMain
  <1> QED
    BY <1>4, <1>5 DEF RemoveMain, TypeOK, secrets, bounds

-----------------------------------------------------------------------------
(* Typing of the certificate steps.                                        *)

LEMMA TargetedTyped ==
    ASSUME TypeOK, Staged, NEW p \in Handlers, handler[p].pc \in {"target", "main"},
           NEW n \in Names, Exists(ingress[n]), Targeted(p, n)
    PROVE  handler' \in [Handlers -> Handler] /\ Staged'
  <1> DEFINE h(step) == [handler[p] EXCEPT !.pc = step, !.name = n, !.seen = ingress[n]]
  <1>1. handler[p] \in Handler /\ StageOK(handler[p])
    BY DEF TypeOK, Staged
  <1>2. ingress[n] \in Ingress
    BY DEF TypeOK, Exists
  <1>3. \/ \E outcome \in Ends : End(p, outcome)
        \/ \E step \in {"mksecret", "untls"} : handler' = [handler EXCEPT ![p] = h(step)]
    BY DEF Targeted, Ends
  <1>4. ASSUME NEW step \in {"mksecret", "untls"}, handler' = [handler EXCEPT ![p] = h(step)]
        PROVE  handler' \in [Handlers -> Handler] /\ Staged'
    <2>1. h(step) \in Handler
      BY <1>1, <1>2 DEF Handler, Steps
    <2>2. StageOK(h(step))
      BY <1>1, <1>2, NilAssumption DEF Handler, StageOK, Exists, EnsurePCs, FoundPCs, CertPCs
    <2> HIDE DEF h
    <2> QED
      BY <1>4, <2>1, <2>2, HandlerSet
  <1> QED
    BY <1>3, <1>4, EndTyped

LEMMA FindTyped ==
    ASSUME TypeOK, Staged, NEW p \in Handlers, FindTarget(p) \/ FindMain(p)
    PROVE  TypeOK' /\ Staged'
  <1>1. handler[p] \in Handler /\ StageOK(handler[p]) /\ handler[p].pc \in {"target", "main"}
    BY DEF TypeOK, Staged, FindTarget, FindMain, At
  <1>2. handler[p].req \in CertRequest
    BY <1>1 DEF StageOK, CertPCs
  <1>3. \/ \E n \in Names : Exists(ingress[n]) /\ Targeted(p, n)
        \/ End(p, "error")
        \/ handler' = [handler EXCEPT ![p].pc = "main"]
    BY <1>2 DEF FindTarget, FindMain, Names, CertRequest
  <1>4. CASE handler' = [handler EXCEPT ![p].pc = "main"]
    <2> DEFINE h == [handler[p] EXCEPT !.pc = "main"]
    <2>1. h \in Handler /\ StageOK(h)
      BY <1>1, <1>2 DEF Handler, Steps, StageOK, Exists, EnsurePCs, FoundPCs, CertPCs
    <2>2. handler' = [handler EXCEPT ![p] = h]
      BY <1>4
    <2> HIDE DEF h
    <2> QED
      BY <1>4, <2>1, <2>2, HandlerSet DEF TypeOK, FindTarget, FindMain, cluster, bounds
  <1>5. CASE ~(handler' = [handler EXCEPT ![p].pc = "main"])
    <2>1. handler' \in [Handlers -> Handler] /\ Staged'
      BY <1>1, <1>3, <1>5, TargetedTyped, EndTyped DEF Ends
    <2> QED
      BY <2>1 DEF TypeOK, FindTarget, FindMain, cluster, bounds
  <1> QED
    BY <1>4, <1>5

\* A handler that moves on with the ingress it found.
LEMMA MoveTyped ==
    ASSUME TypeOK, Staged, NEW p \in Handlers, handler[p].pc \in FoundPCs,
           NEW step \in FoundPCs \cup {"return"}, NEW rv \in Nat,
           handler' = [handler EXCEPT ![p] = [handler[p] EXCEPT !.pc = step, !.secretRV = rv]]
    PROVE  handler' \in [Handlers -> Handler] /\ Staged'
  <1> DEFINE h == [handler[p] EXCEPT !.pc = step, !.secretRV = rv]
  <1>1. handler[p] \in Handler /\ StageOK(handler[p])
    BY DEF TypeOK, Staged
  <1>2. h \in Handler
    BY <1>1 DEF Handler, Steps, FoundPCs
  <1>3. StageOK(h)
    BY <1>1 DEF Handler, StageOK, Exists, EnsurePCs, FoundPCs, CertPCs
  <1>4. handler' = [handler EXCEPT ![p] = h]
    OBVIOUS
  <1> HIDE DEF h
  <1> QED
    BY <1>2, <1>3, <1>4, HandlerSet

\* The same, the version of the Secret left alone.
LEMMA StepTyped ==
    ASSUME TypeOK, Staged, NEW p \in Handlers, handler[p].pc \in FoundPCs,
           NEW step \in FoundPCs \cup {"return"},
           handler' = [handler EXCEPT ![p].pc = step]
    PROVE  handler' \in [Handlers -> Handler] /\ Staged'
  <1>1. handler[p] \in Handler
    BY DEF TypeOK
  <1>2. [handler[p] EXCEPT !.pc = step]
          = [handler[p] EXCEPT !.pc = step, !.secretRV = handler[p].secretRV]
    BY <1>1 DEF Handler
  <1>3. handler[p].secretRV \in Nat
    BY <1>1 DEF Handler
  <1> QED
    BY <1>2, <1>3, MoveTyped

LEMMA KeyType ==
    ASSUME TypeOK, Staged, NEW p \in Handlers, handler[p].pc \in FoundPCs
    PROVE  /\ Key(p) \in SecretKeys
           /\ handler[p].req.host \in Hosts
           /\ handler[p].name \in Names /\ handler[p].seen \in Ingress
  BY DEF TypeOK, Staged, StageOK, CertPCs, FoundPCs, CertRequest, Key, SecretKeys,
         Handler, Exists

LEMMA WriteSecretTyped ==
    ASSUME TypeOK, NEW k \in SecretKeys, WriteSecret(k)
    PROVE  secret' \in [SecretKeys -> Nat] /\ secretVersion' \in [SecretKeys -> Nat]
  BY DEF TypeOK, WriteSecret

LEMMA SecretStepTyped ==
    ASSUME TypeOK, Staged, NEW p \in Handlers,
           CreateSecret(p) \/ GetSecret(p) \/ UpdateSecret(p) \/ DeleteSecret(p)
    PROVE  TypeOK' /\ Staged'
  <1>1. handler[p].pc \in FoundPCs
    BY DEF CreateSecret, GetSecret, UpdateSecret, DeleteSecret, At, FoundPCs
  <1>2. Key(p) \in SecretKeys
    BY <1>1, KeyType
  <1>3. CASE CreateSecret(p)
    <2>1. handler' \in [Handlers -> Handler] /\ Staged'
      BY <1>1, <1>3, StepTyped DEF CreateSecret, FoundPCs
    <2>2. secret' \in [SecretKeys -> Nat] /\ secretVersion' \in [SecretKeys -> Nat]
      BY <1>2, <1>3, WriteSecretTyped DEF CreateSecret, secrets, TypeOK
    <2> QED
      BY <1>3, <2>1, <2>2 DEF CreateSecret, TypeOK, ingresses, bounds
  <1>4. CASE GetSecret(p)
    <2>1. secret[Key(p)] \in Nat
      BY <1>2 DEF TypeOK
    <2>2. handler' \in [Handlers -> Handler] /\ Staged'
      BY <1>1, <1>4, <2>1, MoveTyped, EndTyped DEF GetSecret, FoundPCs, Ends
    <2> QED
      BY <1>4, <2>2 DEF GetSecret, TypeOK, cluster, bounds
  <1>5. CASE UpdateSecret(p)
    <2>1. CASE Refused(p)
      BY <2>1, RefusedTyped
    <2>2. CASE ~Refused(p)
      <3>1. handler' \in [Handlers -> Handler] /\ Staged'
        BY <1>1, <1>5, <2>2, MoveTyped DEF UpdateSecret, FoundPCs
      <3>2. secret' \in [SecretKeys -> Nat] /\ secretVersion' \in [SecretKeys -> Nat]
        BY <1>2, <1>5, <2>2, WriteSecretTyped DEF UpdateSecret
      <3> QED
        BY <1>5, <2>2, <3>1, <3>2 DEF UpdateSecret, TypeOK, ingresses, bounds
    <2> QED
      BY <2>1, <2>2
  <1>6. CASE DeleteSecret(p)
    <2>1. CASE Refused(p)
      BY <2>1, RefusedTyped
    <2>2. CASE ~Refused(p)
      <3>1. handler' \in [Handlers -> Handler] /\ Staged'
        BY <1>1, <1>6, <2>2, StepTyped DEF DeleteSecret, FoundPCs
      <3>2. secret' \in [SecretKeys -> Nat]
        BY <1>6, <2>2 DEF DeleteSecret, TypeOK
      <3> QED
        BY <1>6, <2>2, <3>1, <3>2 DEF DeleteSecret, TypeOK, ingresses, bounds
    <2> QED
      BY <2>1, <2>2
  <1> QED
    BY <1>3, <1>4, <1>5, <1>6

LEMMA TLSStepTyped ==
    ASSUME TypeOK, Staged, NEW p \in Handlers, AddTLS(p) \/ RemoveTLS(p)
    PROVE  TypeOK' /\ Staged'
  <1> DEFINE n == handler[p].name
             seen == handler[p].seen
             added == [seen EXCEPT !.tls = AddTLSEntry(@, handler[p].req.host)]
             dropped == [seen EXCEPT !.tls = DropTLSEntry(@, handler[p].req.host)]
  <1>1. handler[p].pc \in FoundPCs
    BY DEF AddTLS, RemoveTLS, At, FoundPCs
  <1>2. n \in Names /\ seen \in Ingress /\ handler[p].req.host \in Hosts
    BY <1>1, KeyType
  <1>3. seen.tls \in HostList
    BY <1>2 DEF Ingress
  <1>4. /\ AddTLSEntry(seen.tls, handler[p].req.host) \in HostList
        /\ DropTLSEntry(seen.tls, handler[p].req.host) \in HostList
    BY <1>2, <1>3, AddTLSEntryType, DropTLSEntryType
  <1>5. added \in Ingress /\ dropped \in Ingress
    BY <1>2, <1>4 DEF Ingress
  <1>6. CASE Refused(p)
    BY <1>6, RefusedTyped
  <1>7. CASE ~Refused(p)
    <2>1. /\ Exists(ingress[n])
          /\ EditIngress(n, added) \/ EditIngress(n, dropped)
          /\ UNCHANGED <<secrets, certificate, bounds>>
      BY <1>7 DEF AddTLS, RemoveTLS, Accepts
    <2>2. /\ ingress' \in [Names -> Ingress \cup {Nil}]
          /\ version' \in [Names -> Nat]
      <3> HIDE DEF added, dropped
      <3> QED
        BY <1>2, <1>5, <2>1, EditTyped
    <2>3. handler' \in [Handlers -> Handler] /\ Staged'
      BY <1>1, <1>7, StepTyped DEF AddTLS, RemoveTLS, FoundPCs
    <2> QED
      BY <2>1, <2>2, <2>3 DEF TypeOK, secrets, bounds
  <1> QED
    BY <1>6, <1>7

-----------------------------------------------------------------------------
(* Typing of the environment.                                              *)

LEMMA EnvironmentTyped ==
    ASSUME TypeOK, Staged, Environment
    PROVE  TypeOK' /\ Staged'
  <1>1. UNCHANGED handler
    BY DEF Environment, Collect, CollectCName, CollectMain, CollectCertificate,
           IssueCertificate, OwnerServiceDeleted, ToggleFreeze
  <1>2. received' \in Nat /\ faults' \in Nat /\ events' \in Nat
    <2>1. UNCHANGED bounds \/ Event
      BY DEF Environment, Collect, CollectCName, CollectMain, CollectCertificate,
             IssueCertificate, OwnerServiceDeleted, ToggleFreeze
    <2> QED
      BY <2>1 DEF Event, bounds, TypeOK
  <1>3. CASE \E n \in Names : DeleteIngress(n) /\ UNCHANGED <<secrets, certificate>>
    BY <1>1, <1>2, <1>3 DEF DeleteIngress, secrets, TypeOK, Staged
  <1>4. CASE \E k \in SecretKeys : CollectCertificate(k)
    <2>1. certificate' \in [SecretKeys -> Nat]
      BY <1>4 DEF CollectCertificate, TypeOK
    <2> QED
      BY <1>1, <1>2, <1>4, <2>1 DEF CollectCertificate, ingresses, secrets, TypeOK, Staged
  <1>5. CASE \E n \in Names : IssueCertificate(n)
    <2>1. PICK n \in Names : IssueCertificate(n)
      BY <1>5
    <2>2. ingress[n] \in Ingress
      BY <2>1 DEF IssueCertificate, Exists, TypeOK
    <2>3. PICK host \in ToSet(ingress[n].tls) :
            /\ certificate' = [certificate EXCEPT ![<<ingress[n].app, host>>] = ingress[n].uid]
            /\ WriteSecret(<<ingress[n].app, host>>) \/ UNCHANGED secrets
      BY <2>1 DEF IssueCertificate
    <2>4. host \in Hosts
      BY <2>2 DEF ToSet, Ingress, HostList
    <2>5. <<ingress[n].app, host>> \in SecretKeys /\ ingress[n].uid \in Nat
      BY <2>2, <2>4 DEF SecretKeys, Ingress
    <2>6. certificate' \in [SecretKeys -> Nat]
      BY <2>3, <2>5 DEF TypeOK
    <2>7. secret' \in [SecretKeys -> Nat] /\ secretVersion' \in [SecretKeys -> Nat]
      BY <2>3, <2>5, WriteSecretTyped DEF secrets, TypeOK
    <2> QED
      BY <1>1, <1>2, <2>1, <2>6, <2>7 DEF IssueCertificate, ingresses, TypeOK, Staged
  <1>6. CASE \E n \in Names : ToggleFreeze(n)
    <2>1. PICK n \in Names : ToggleFreeze(n)
      BY <1>6
    <2> DEFINE o == [ingress[n] EXCEPT !.frozen = ~ingress[n].frozen, !.rv = version[n] + 1]
               v == version[n] + 1
    <2>2. ingress[n] \in Ingress /\ v \in Nat
      BY <2>1 DEF ToggleFreeze, Exists, TypeOK
    <2>3. o \in Ingress
      BY <2>2 DEF Ingress
    <2>4. ingress' = [ingress EXCEPT ![n] = o] /\ version' = [version EXCEPT ![n] = v]
      BY <2>1, <2>2 DEF ToggleFreeze
    <2>5. /\ ingress' \in [Names -> Ingress \cup {Nil}]
          /\ version' \in [Names -> Nat]
      <3> HIDE DEF o, v
      <3> QED
        BY <2>2, <2>3, <2>4, WriteTyped
    <2> QED
      BY <1>1, <1>2, <2>1, <2>5 DEF ToggleFreeze, secrets, TypeOK, Staged
  <1> QED
    BY <1>3, <1>4, <1>5, <1>6
       DEF Environment, Collect, CollectCName, CollectMain, OwnerServiceDeleted, Names

-----------------------------------------------------------------------------
\* Type correctness: every object, handler and counter keeps its type, and no
\* ingress ever lists a host twice among its rules or its TLS entries.
LEMMA NextTyped ==
    ASSUME TypeOK, Staged, [Next]_vars
    PROVE  TypeOK' /\ Staged'
  <1>1. CASE UNCHANGED vars
    BY <1>1 DEF vars, cluster, bounds, TypeOK, Staged
  <1>2. ASSUME NEW p \in Handlers, HandlerStep(p)
        PROVE  TypeOK' /\ Staged'
    <2>1. CASE EnsureStep(p)
      BY <2>1, EnsureGetTyped, EnsureCreateTyped, EnsureUpdateTyped, CNameGetTyped,
         CNameCreateTyped, CNameUpdateTyped, CNameRestTyped DEF EnsureStep
    <2>2. CASE CertificateStep(p)
      BY <2>2, FindTyped, SecretStepTyped, TLSStepTyped DEF CertificateStep
    <2> QED
      BY <1>2, <2>1, <2>2, OutlineTyped, RemoveMainTyped DEF HandlerStep
  <1> QED
    BY <1>1, <1>2, EnvironmentTyped DEF Next

LEMMA InitTyped ==
    ASSUME Init
    PROVE  TypeOK /\ Staged
  <1>1. Idle \in Handler /\ StageOK(Idle)
    BY DEF Idle, Handler, Ends, StageOK, Exists, EnsurePCs, FoundPCs, CertPCs
  <1>2. handler \in [Handlers -> Handler] /\ Staged
    BY <1>1 DEF Init, Staged
  <1> QED
    BY <1>2 DEF Init, TypeOK

THEOREM TypeCorrect == Spec => []TypeOK
  <1>1. Init => TypeOK /\ Staged
    BY InitTyped
  <1>2. TypeOK /\ Staged /\ [Next]_vars => (TypeOK /\ Staged)'
    BY NextTyped
  <1> QED
    BY <1>1, <1>2, PTL DEF Spec

-----------------------------------------------------------------------------
(* Versions.                                                               *)

\* What any step does to an ingress: nothing, a removal, or a version that was
\* never given out ...
StoreStep ==
    \A n \in Names :
        /\ version'[n] >= version[n]
        /\ \/ ingress'[n] \in {Nil, ingress[n]}
           \/ ingress'[n].rv = version[n] + 1 /\ version'[n] = version[n] + 1

\* ... and to what a handler has seen: nothing, forgetting it, or reading it.
SeenStep ==
    \A p \in Handlers :
        LET old == handler[p]
            new == handler'[p]
        IN  \/ new.seen = Nil
            \/ new.seen = old.seen /\ new.name = old.name
            \/ UNCHANGED ingress /\ UNCHANGED version /\ new.seen = ingress[new.name]

LEMMA VersionedStep ==
    ASSUME TypeOK, Staged, Versioned, TypeOK', Staged', StoreStep, SeenStep
    PROVE  Versioned'
  <1>1. \A n \in Names : version[n] \in Nat /\ version'[n] \in Nat
    BY DEF TypeOK
  <1>2. \A n \in Names : Exists(ingress[n]) => ingress[n].rv \in Nat
    BY DEF TypeOK, Exists, Ingress
  <1>3. \A n \in Names : Exists(ingress'[n]) =>
            0 < ingress'[n].rv /\ ingress'[n].rv <= version'[n]
    BY <1>1, <1>2 DEF StoreStep, Versioned, VersionsBound, Exists
  <1>4. ASSUME NEW p \in Handlers, Exists(handler'[p].seen)
        PROVE  /\ 0 < handler'[p].seen.rv
               /\ handler'[p].seen.rv <= version'[handler'[p].name]
               /\ Exists(ingress'[handler'[p].name])
                  /\ ingress'[handler'[p].name].rv = handler'[p].seen.rv
                    => ingress'[handler'[p].name] = handler'[p].seen
    <2> DEFINE n == handler'[p].name
    <2>1. n \in Names
      BY <1>4 DEF Staged, StageOK
    <2>2. CASE handler'[p].seen = handler[p].seen /\ n = handler[p].name
      <3>1. /\ 0 < handler[p].seen.rv /\ handler[p].seen.rv <= version[n]
            /\ Exists(ingress[n]) /\ ingress[n].rv = handler[p].seen.rv
                 => ingress[n] = handler[p].seen
        BY <1>4, <2>2 DEF Versioned, VersionsBound, SeenIsCurrent, Exists
      <3>2. handler[p].seen \in Ingress
        BY <1>4, <2>2 DEF TypeOK, Handler, Exists
      <3>3. handler[p].seen.rv \in Nat
        BY <3>2 DEF Ingress
      <3>4. /\ version'[n] >= version[n]
            /\ \/ ingress'[n] \in {Nil, ingress[n]}
               \/ ingress'[n].rv = version[n] + 1
        BY <2>1 DEF StoreStep
      <3> QED
        BY <1>1, <2>1, <2>2, <3>1, <3>3, <3>4 DEF Exists
    <2>3. CASE UNCHANGED ingress /\ UNCHANGED version /\ handler'[p].seen = ingress[n]
      <3>1. 0 < ingress[n].rv /\ ingress[n].rv <= version[n]
        BY <1>4, <2>1, <2>3 DEF Versioned, VersionsBound, Exists
      <3> QED
        BY <2>3, <3>1
    <2> QED
      BY <1>4, <2>2, <2>3 DEF SeenStep, Exists
  <1>5. VersionsBound'
    BY <1>3, <1>4 DEF VersionsBound, Exists
  <1>6. SeenIsCurrent'
    BY <1>4 DEF SeenIsCurrent, Exists
  <1> QED
    BY <1>5, <1>6 DEF Versioned

\* The writes, each with the next version of what it writes.
LEMMA WriteStores ==
    ASSUME TypeOK, NEW n \in Names, NEW m \in Ingress,
           \/ CreateIngress(n, m)
           \/ Exists(ingress[n]) /\ (ReplaceIngress(n, m) \/ EditIngress(n, m))
           \/ DeleteIngress(n)
    PROVE  StoreStep
  <1>1. \A k \in Names : version[k] \in Nat
    BY DEF TypeOK
  <1>2. version[n] + 1 \in Nat
    BY <1>1
  <1>3. CASE CreateIngress(n, m)
    <2>1. Created(m, version[n] + 1).rv = version[n] + 1
      BY <1>2, CreatedType
    <2> QED
      BY <1>1, <1>3, <2>1 DEF CreateIngress, StoreStep, TypeOK
  <1>4. CASE DeleteIngress(n)
    BY <1>1, <1>4 DEF DeleteIngress, StoreStep, TypeOK
  <1>5. CASE Exists(ingress[n]) /\ ReplaceIngress(n, m)
    <2> DEFINE o == Replaced(ingress[n], m, version[n] + 1)
    <2>1. ingress[n] \in Ingress
      BY <1>5 DEF Exists, TypeOK
    <2>2. /\ Over(ingress[n], m) = ingress[n] => o \in {Nil, ingress[n]}
          /\ Over(ingress[n], m) # ingress[n] => o = Nil \/ o.rv = version[n] + 1
      BY <1>2, <2>1, ReplacedType
    <2>3. /\ ingress' = [ingress EXCEPT ![n] = o]
          /\ version' = [version EXCEPT ![n] =
                IF Over(ingress[n], m) = ingress[n] THEN version[n] ELSE version[n] + 1]
      BY <1>5 DEF ReplaceIngress
    <2> HIDE DEF o
    <2> QED
      BY <1>1, <2>2, <2>3 DEF StoreStep, TypeOK
  <1>6. CASE Exists(ingress[n]) /\ EditIngress(n, m)
    <2> DEFINE o == Edited(ingress[n], m, version[n] + 1)
    <2>1. ingress[n] \in Ingress
      BY <1>6 DEF Exists, TypeOK
    <2>2. /\ Over(ingress[n], m) = ingress[n] => o = ingress[n]
          /\ Over(ingress[n], m) # ingress[n] => o.rv = version[n] + 1
      BY <1>2, <2>1, EditedType
    <2>3. /\ ingress' = [ingress EXCEPT ![n] = o]
          /\ version' = [version EXCEPT ![n] =
                IF Over(ingress[n], m) = ingress[n] THEN version[n] ELSE version[n] + 1]
      BY <1>6 DEF EditIngress
    <2> HIDE DEF o
    <2> QED
      BY <1>1, <2>2, <2>3 DEF StoreStep, TypeOK
  <1> QED
    BY <1>3, <1>4, <1>5, <1>6

LEMMA NoStore ==
    ASSUME TypeOK, UNCHANGED ingress, UNCHANGED version
    PROVE  StoreStep
  BY DEF StoreStep, TypeOK

\* Which ingress each handler step writes, if any, and how.
LEMMA EnsureStores ==
    ASSUME TypeOK, Staged, NEW p \in Handlers, EnsureStep(p)
    PROVE  StoreStep
  <1> DEFINE h == handler[p]
             n == handler[p].name
  <1>1. h \in Handler /\ StageOK(h)
    BY DEF TypeOK, Staged
  <1>2. CASE UNCHANGED ingress /\ UNCHANGED version
    BY <1>2, NoStore
  <1>3. CASE EnsureCreate(p) /\ ~(UNCHANGED ingress /\ UNCHANGED version)
    <2>1. h.req \in EnsureRequest /\ n \in Names
      BY <1>1, <1>3 DEF StageOK, EnsureCreate, At, EnsurePCs, EnsureRequest, Names
    <2>2. PICK rules \in RuleOrders(h.req.hosts) : CreateIngress(n, MainIngress(h.req, rules))
      BY <1>3 DEF EnsureCreate, Refused, cluster
    <2> QED
      BY <2>1, <2>2, MainIngressType, WriteStores
  <1>4. CASE EnsureUpdate(p) /\ ~(UNCHANGED ingress /\ UNCHANGED version)
    <2>1. h.req \in EnsureRequest /\ n \in Names /\ h.seen \in Ingress
      BY <1>1, <1>4
         DEF StageOK, EnsureUpdate, At, EnsurePCs, EnsureRequest, Names, Handler, Exists
    <2>2. PICK rules \in RuleOrders(h.req.hosts) :
            /\ Exists(ingress[n])
            /\ ReplaceIngress(n, MergeIngress(MainIngress(h.req, rules), h.seen))
      BY <1>4 DEF EnsureUpdate, Refused, cluster, Accepts
    <2>3. MergeIngress(MainIngress(h.req, rules), h.seen) \in Ingress
      BY <2>1, MainIngressType, MergeIngressType
    <2> QED
      BY <2>1, <2>2, <2>3, WriteStores
  <1>5. CASE CNameCreate(p) /\ ~(UNCHANGED ingress /\ UNCHANGED version)
    <2>1. h.req \in EnsureRequest /\ n \in CNames /\ n \in Names /\ h.parent \in Nat
      BY <1>1, <1>5 DEF StageOK, CNameCreate, At, EnsurePCs, Handler, Names
    <2>2. CreateIngress(n, CNameIngress(h.req, n, h.parent))
      BY <1>5 DEF CNameCreate, Refused, cluster
    <2>3. CNameIngress(h.req, n, h.parent) \in Ingress
      BY <2>1, CNameIngressType
    <2> QED
      BY <2>1, <2>2, <2>3, WriteStores
  <1>6. CASE CNameUpdate(p) /\ ~(UNCHANGED ingress /\ UNCHANGED version)
    <2>1. /\ h.req \in EnsureRequest /\ n \in CNames /\ n \in Names
          /\ h.parent \in Nat /\ h.seen \in Ingress
      BY <1>1, <1>6 DEF StageOK, CNameUpdate, At, EnsurePCs, Handler, Names, Exists
    <2>2. /\ Exists(ingress[n])
          /\ ReplaceIngress(n, MergeIngress(CNameIngress(h.req, n, h.parent), h.seen))
      BY <1>6 DEF CNameUpdate, Refused, cluster, Accepts
    <2>3. MergeIngress(CNameIngress(h.req, n, h.parent), h.seen) \in Ingress
      BY <2>1, CNameIngressType, MergeIngressType
    <2> QED
      BY <2>1, <2>2, <2>3, WriteStores
  <1>7. CASE CNameRemove(p)
    <2>1. PICK c \in h.drop : DeleteIngress(c)
      BY <1>7 DEF CNameRemove
    <2>2. c \in Names
      BY <1>1 DEF Handler, Names
    <2> QED
      BY <1>1, <2>1, <2>2 DEF DeleteIngress, StoreStep, TypeOK
  <1> QED
    BY <1>2, <1>3, <1>4, <1>5, <1>6, <1>7
       DEF EnsureStep, EnsureGet, CNameGet, CNameDeleteCertificate, EnsureDone,
           cluster, ingresses

LEMMA CertificateStores ==
    ASSUME TypeOK, Staged, NEW p \in Handlers, CertificateStep(p)
    PROVE  StoreStep
  <1> DEFINE n == handler[p].name
             seen == handler[p].seen
             added == [seen EXCEPT !.tls = AddTLSEntry(@, handler[p].req.host)]
             dropped == [seen EXCEPT !.tls = DropTLSEntry(@, handler[p].req.host)]
  <1>1. CASE UNCHANGED ingress /\ UNCHANGED version
    BY <1>1, NoStore
  <1>2. CASE AddTLS(p) \/ RemoveTLS(p)
    <2>1. handler[p].pc \in FoundPCs
      BY <1>2 DEF AddTLS, RemoveTLS, At, FoundPCs
    <2>2. n \in Names /\ seen \in Ingress /\ handler[p].req.host \in Hosts
      BY <2>1, KeyType
    <2>3. /\ AddTLSEntry(seen.tls, handler[p].req.host) \in HostList
          /\ DropTLSEntry(seen.tls, handler[p].req.host) \in HostList
      BY <2>2, AddTLSEntryType, DropTLSEntryType DEF Ingress
    <2>4. added \in Ingress /\ dropped \in Ingress
      BY <2>2, <2>3 DEF Ingress
    <2>5. \/ UNCHANGED ingress /\ UNCHANGED version
          \/ Exists(ingress[n]) /\ (EditIngress(n, added) \/ EditIngress(n, dropped))
      BY <1>2 DEF AddTLS, RemoveTLS, Accepts, Refused, cluster
    <2> HIDE DEF added, dropped
    <2> QED
      BY <2>2, <2>4, <2>5, WriteStores, NoStore
  <1> QED
    BY <1>1, <1>2
       DEF CertificateStep, FindTarget, FindMain, CreateSecret, GetSecret, UpdateSecret,
           DeleteSecret, Refused, cluster, ingresses

LEMMA NextStores ==
    ASSUME TypeOK, Staged, [Next]_vars
    PROVE  StoreStep
  <1>1. CASE UNCHANGED ingress /\ UNCHANGED version
    BY <1>1, NoStore
  <1>2. ASSUME NEW p \in Handlers, RemoveMain(p)
        PROVE  StoreStep
    <2> DEFINE a == handler[p].req.app
    <2>1. a \in Names
      BY <1>2 DEF TypeOK, Staged, RemoveMain, At, StageOK, RemoveRequest, Names
    <2>2. CASE Exists(ingress[a])
      <3>1. ingress[a] \in Ingress /\ version[a] + 1 \in Nat
        BY <2>1, <2>2 DEF Exists, TypeOK
      <3>2. /\ ingress[a].terminating => Marked(ingress[a], version[a] + 1) = ingress[a]
            /\ ~ingress[a].terminating
                 => Marked(ingress[a], version[a] + 1).rv = version[a] + 1
        BY <3>1, MarkedType
      <3>3. /\ ingress' = [ingress EXCEPT ![a] = Marked(ingress[a], version[a] + 1)]
            /\ version' = [version EXCEPT ![a] =
                  IF ingress[a].terminating THEN version[a] ELSE version[a] + 1]
        BY <1>2, <2>2 DEF RemoveMain
      <3> QED
        BY <2>1, <3>2, <3>3 DEF StoreStep, TypeOK
    <2> QED
      BY <1>2, <2>2, NoStore DEF RemoveMain, ingresses
  <1>3. ASSUME NEW n \in Names, DeleteIngress(n)
        PROVE  StoreStep
    BY <1>3 DEF DeleteIngress, StoreStep, TypeOK
  <1>4. ASSUME NEW n \in Names, ToggleFreeze(n)
        PROVE  StoreStep
    <2> DEFINE o == [ingress[n] EXCEPT !.frozen = ~ingress[n].frozen, !.rv = version[n] + 1]
    <2>1. ingress[n] \in Ingress
      BY <1>4 DEF ToggleFreeze, Exists, TypeOK
    <2>2. o.rv = version[n] + 1
      BY <2>1 DEF Ingress
    <2>3. /\ ingress' = [ingress EXCEPT ![n] = o]
          /\ version' = [version EXCEPT ![n] = version[n] + 1]
      BY <1>4, <2>1 DEF ToggleFreeze
    <2> HIDE DEF o
    <2> QED
      BY <2>2, <2>3 DEF StoreStep, TypeOK
  <1> QED
    BY <1>1, <1>2, <1>3, <1>4, EnsureStores, CertificateStores
       DEF Next, vars, HandlerStep, Environment, Collect, CollectCName, CollectMain,
           CollectCertificate, IssueCertificate, OwnerServiceDeleted, Receive, Fail,
           Return, cluster, ingresses, Names

LEMMA HandlerSeen ==
    ASSUME TypeOK, NEW p \in Handlers, NEW h, handler' = [handler EXCEPT ![p] = h],
           \/ h.seen = Nil
           \/ h.seen = handler[p].seen /\ h.name = handler[p].name
           \/ UNCHANGED ingress /\ UNCHANGED version /\ h.seen = ingress[h.name]
    PROVE  SeenStep
  BY DEF SeenStep, TypeOK

LEMMA EndSeen ==
    ASSUME TypeOK, NEW p \in Handlers, NEW outcome, End(p, outcome)
    PROVE  SeenStep
  BY HandlerSeen DEF End, Idle

\* A step that leaves what was seen alone.
LEMMA KeepSeen ==
    ASSUME TypeOK, NEW p \in Handlers, NEW step,
           \/ handler' = [handler EXCEPT ![p].pc = step]
           \/ \E rv : handler' = [handler EXCEPT ![p] =
                                    [handler[p] EXCEPT !.pc = step, !.secretRV = rv]]
           \/ \E c : handler' = [handler EXCEPT ![p].todo = @ \ {c}]
           \/ \E c : handler' = [handler EXCEPT ![p].drop = @ \ {c}]
    PROVE  SeenStep
  <1>1. handler[p] \in Handler
    BY DEF TypeOK
  <1>2. PICK h : /\ handler' = [handler EXCEPT ![p] = h]
                 /\ h.seen = handler[p].seen /\ h.name = handler[p].name
    <2>1. CASE handler' = [handler EXCEPT ![p].pc = step]
      <3> DEFINE h == [handler[p] EXCEPT !.pc = step]
      <3> WITNESS h
      <3> QED
        BY <1>1, <2>1 DEF Handler
    <2>2. ASSUME NEW rv, handler' = [handler EXCEPT ![p] =
                            [handler[p] EXCEPT !.pc = step, !.secretRV = rv]]
          PROVE \E h : /\ handler' = [handler EXCEPT ![p] = h]
                       /\ h.seen = handler[p].seen /\ h.name = handler[p].name
      <3> DEFINE h == [handler[p] EXCEPT !.pc = step, !.secretRV = rv]
      <3> WITNESS h
      <3> QED
        BY <1>1, <2>2 DEF Handler
    <2>3. ASSUME NEW c, handler' = [handler EXCEPT ![p].todo = @ \ {c}]
          PROVE \E h : /\ handler' = [handler EXCEPT ![p] = h]
                       /\ h.seen = handler[p].seen /\ h.name = handler[p].name
      <3> DEFINE h == [handler[p] EXCEPT !.todo = @ \ {c}]
      <3> WITNESS h
      <3> QED
        BY <1>1, <2>3 DEF Handler
    <2>4. ASSUME NEW c, handler' = [handler EXCEPT ![p].drop = @ \ {c}]
          PROVE \E h : /\ handler' = [handler EXCEPT ![p] = h]
                       /\ h.seen = handler[p].seen /\ h.name = handler[p].name
      <3> DEFINE h == [handler[p] EXCEPT !.drop = @ \ {c}]
      <3> WITNESS h
      <3> QED
        BY <1>1, <2>4 DEF Handler
    <2> QED
      BY <2>1, <2>2, <2>3, <2>4
  <1> QED
    BY <1>2, HandlerSeen

\* A step that reads an ingress.
LEMMA ReadSeen ==
    ASSUME TypeOK, NEW p \in Handlers, NEW step, NEW n \in Names,
           handler' = [handler EXCEPT ![p] =
                [handler[p] EXCEPT !.pc = step, !.name = n, !.seen = ingress[n]]],
           UNCHANGED ingress, UNCHANGED version
    PROVE  SeenStep
  <1> DEFINE h == [handler[p] EXCEPT !.pc = step, !.name = n, !.seen = ingress[n]]
  <1>1. h.seen = ingress[h.name]
    BY DEF TypeOK, Handler
  <1>2. handler' = [handler EXCEPT ![p] = h]
    OBVIOUS
  <1> HIDE DEF h
  <1> QED
    BY <1>1, <1>2, HandlerSeen

LEMMA EnsureSeen ==
    ASSUME TypeOK, Staged, NEW p \in Handlers, EnsureStep(p)
    PROVE  SeenStep
  <1>1. handler[p] \in Handler /\ StageOK(handler[p])
    BY DEF TypeOK, Staged
  <1>2. CASE \E outcome : End(p, outcome)
    BY <1>2, EndSeen
  <1>3. CASE \E parent : GoToCNames(p, parent)
    <2>1. PICK parent : GoToCNames(p, parent)
      BY <1>3
    <2> DEFINE h == [Idle EXCEPT !.pc = "cnames", !.req = handler[p].req, !.parent = parent,
                               !.todo = handler[p].req.cnames,
                               !.drop = CNamesToRemove(handler[p].seen, handler[p].req.cnames)]
    <2>2. h.seen = Nil
      BY DEF Idle
    <2>3. handler' = [handler EXCEPT ![p] = h]
      BY <2>1 DEF GoToCNames
    <2> HIDE DEF h
    <2> QED
      BY <2>2, <2>3, HandlerSeen
  <1>4. CASE NextCName(p)
    <2> DEFINE h == [handler[p] EXCEPT !.pc = "cnames", !.todo = @ \ {handler[p].name},
                                       !.name = Nil, !.seen = Nil]
    <2>1. h.seen = Nil
      BY <1>1 DEF Handler
    <2>2. handler' = [handler EXCEPT ![p] = h]
      BY <1>4 DEF NextCName
    <2> HIDE DEF h
    <2> QED
      BY <2>1, <2>2, HandlerSeen
  <1>5. CASE EnsureGet(p)
    <2> DEFINE a == handler[p].req.app
    <2>1. a \in Names
      BY <1>1, <1>5 DEF EnsureGet, At, StageOK, EnsurePCs, EnsureRequest, Names
    <2>2. UNCHANGED ingress /\ UNCHANGED version
      BY <1>5 DEF EnsureGet, cluster
    <2>3. \/ handler' = [handler EXCEPT ![p].pc = "return"]
          \/ handler' = [handler EXCEPT ![p] =
                [handler[p] EXCEPT !.pc = "put", !.name = a, !.seen = ingress[a]]]
      BY <1>5 DEF EnsureGet
    <2>4. CASE handler' = [handler EXCEPT ![p].pc = "return"]
      BY <2>4, KeepSeen
    <2>5. CASE handler' = [handler EXCEPT ![p] =
                [handler[p] EXCEPT !.pc = "put", !.name = a, !.seen = ingress[a]]]
      <3> HIDE DEF a
      <3> QED
        BY <2>1, <2>2, <2>5, ReadSeen
    <2> QED
      BY <2>3, <2>4, <2>5
  <1>6. CASE CNameGet(p)
    <2>1. PICK c \in handler[p].todo :
            \/ handler' = [handler EXCEPT ![p].todo = @ \ {c}]
            \/ handler' = [handler EXCEPT ![p] =
                 [handler[p] EXCEPT !.pc = "cput", !.name = c, !.seen = ingress[c]]]
      BY <1>6 DEF CNameGet
    <2>2. c \in Names /\ UNCHANGED ingress /\ UNCHANGED version
      BY <1>1, <1>6 DEF Handler, Names, CNameGet, cluster
    <2>3. CASE handler' = [handler EXCEPT ![p].todo = @ \ {c}]
      <3>1. \E d : handler' = [handler EXCEPT ![p].todo = @ \ {d}]
        BY <2>3
      <3> QED
        BY <3>1, KeepSeen
    <2>4. CASE handler' = [handler EXCEPT ![p] =
                 [handler[p] EXCEPT !.pc = "cput", !.name = c, !.seen = ingress[c]]]
      BY <2>2, <2>4, ReadSeen
    <2> QED
      BY <2>1, <2>3, <2>4
  <1>7. CASE handler' = [handler EXCEPT ![p].pc = "cdelete"]
    BY <1>7, KeepSeen
  <1>8. CASE CNameRemove(p)
    <2>1. \E c : handler' = [handler EXCEPT ![p].drop = @ \ {c}]
      BY <1>8 DEF CNameRemove
    <2> QED
      BY <2>1, KeepSeen
  <1>9. \/ \E outcome : End(p, outcome)
        \/ \E parent : GoToCNames(p, parent)
        \/ NextCName(p) \/ EnsureGet(p) \/ CNameGet(p)
        \/ handler' = [handler EXCEPT ![p].pc = "cdelete"]
        \/ CNameRemove(p)
    <2>1. CASE EnsureCreate(p)
      BY <2>1 DEF EnsureCreate, Refused
    <2>2. CASE EnsureUpdate(p)
      BY <2>2 DEF EnsureUpdate, Refused
    <2>3. CASE CNameCreate(p)
      BY <2>3 DEF CNameCreate, Refused
    <2>4. CASE CNameUpdate(p)
      BY <2>4 DEF CNameUpdate, AfterCNamePut, Refused
    <2>5. CASE CNameDeleteCertificate(p) \/ EnsureDone(p)
      BY <2>5 DEF CNameDeleteCertificate, EnsureDone
    <2> QED
      BY <2>1, <2>2, <2>3, <2>4, <2>5 DEF EnsureStep
  <1> QED
    BY <1>2, <1>3, <1>4, <1>5, <1>6, <1>7, <1>8, <1>9

LEMMA CertificateSeen ==
    ASSUME TypeOK, Staged, NEW p \in Handlers, CertificateStep(p)
    PROVE  SeenStep
  <1>1. handler[p] \in Handler /\ StageOK(handler[p])
    BY DEF TypeOK, Staged
  <1>2. CASE \E outcome : End(p, outcome)
    BY <1>2, EndSeen
  <1>3. CASE \E step : handler' = [handler EXCEPT ![p].pc = step]
    BY <1>3, KeepSeen
  <1>4. CASE \E n \in Names : Targeted(p, n) /\ UNCHANGED ingress /\ UNCHANGED version
    <2>1. PICK n \in Names : Targeted(p, n) /\ UNCHANGED ingress /\ UNCHANGED version
      BY <1>4
    <2>2. CASE \E step : handler' = [handler EXCEPT ![p] =
                 [handler[p] EXCEPT !.pc = step, !.name = n, !.seen = ingress[n]]]
      BY <2>1, <2>2, ReadSeen
    <2> QED
      BY <1>2, <2>1, <2>2 DEF Targeted
  <1>5. CASE \E step, rv : handler' = [handler EXCEPT ![p] =
                              [handler[p] EXCEPT !.pc = step, !.secretRV = rv]]
    BY <1>5, KeepSeen
  <1>6. CASE FindTarget(p) \/ FindMain(p)
    <2>1. handler[p].req \in CertRequest
      BY <1>1, <1>6 DEF FindTarget, FindMain, At, StageOK, CertPCs
    <2> QED
      BY <1>2, <1>3, <1>4, <1>6, <2>1 DEF FindTarget, FindMain, cluster, CertRequest, Names
  <1>7. CASE CreateSecret(p) \/ GetSecret(p) \/ UpdateSecret(p) \/ DeleteSecret(p)
    BY <1>2, <1>3, <1>5, <1>7 DEF CreateSecret, GetSecret, UpdateSecret, DeleteSecret, Refused
  <1>8. CASE AddTLS(p) \/ RemoveTLS(p)
    BY <1>2, <1>3, <1>8 DEF AddTLS, RemoveTLS, Refused
  <1> QED
    BY <1>6, <1>7, <1>8 DEF CertificateStep

LEMMA NextSeen ==
    ASSUME TypeOK, Staged, [Next]_vars
    PROVE  SeenStep
  <1>1. CASE UNCHANGED handler
    BY <1>1 DEF SeenStep
  <1>2. ASSUME NEW p \in Handlers, Receive(p)
        PROVE  SeenStep
    <2>1. PICK r \in Requests :
            handler' = [handler EXCEPT ![p] = [Idle EXCEPT !.pc = FirstStep(r.op), !.req = r]]
      BY <1>2 DEF Receive
    <2>2. [Idle EXCEPT !.pc = FirstStep(r.op), !.req = r].seen = Nil
      BY DEF Idle
    <2> QED
      BY <2>1, <2>2, HandlerSeen
  <1>3. ASSUME NEW p \in Handlers, Fail(p) \/ Return(p)
        PROVE  SeenStep
    BY <1>3, EndSeen DEF Fail, Return
  <1>4. ASSUME NEW p \in Handlers, RemoveMain(p)
        PROVE  SeenStep
    BY <1>4, KeepSeen DEF RemoveMain
  <1>5. CASE Environment
    BY <1>1, <1>5 DEF Environment, Collect, CollectCName, CollectMain, CollectCertificate,
                      IssueCertificate, OwnerServiceDeleted, ToggleFreeze
  <1> QED
    BY <1>1, <1>2, <1>3, <1>4, <1>5, EnsureSeen, CertificateSeen DEF Next, vars, HandlerStep

-----------------------------------------------------------------------------
\* The invariant of the argument holds in every reachable state.
LEMMA InvariantHolds == Spec => []IInv
  <1>1. Init => IInv
    <2> SUFFICES ASSUME Init PROVE IInv
      OBVIOUS
    <2>1. TypeOK /\ Staged
      BY InitTyped
    <2>2. Versioned
      BY DEF Init, Idle, Versioned, VersionsBound, SeenIsCurrent, Exists
    <2> QED
      BY <2>1, <2>2 DEF IInv
  <1>2. IInv /\ [Next]_vars => IInv'
    <2> SUFFICES ASSUME IInv, [Next]_vars PROVE IInv'
      OBVIOUS
    <2>1. TypeOK' /\ Staged'
      BY NextTyped DEF IInv
    <2>2. StoreStep /\ SeenStep
      BY NextStores, NextSeen DEF IInv
    <2> QED
      BY <2>1, <2>2, VersionedStep DEF IInv
  <1> QED
    BY <1>1, <1>2, PTL DEF Spec

\* An ingress that still has the version a handler read is what it read.
THEOREM SeenStaysCurrent == Spec => []SeenIsCurrent
  <1>1. IInv => SeenIsCurrent
    BY DEF IInv, Versioned
  <1> QED
    BY <1>1, InvariantHolds, PTL

\* An Update that Ensure sends and the server accepts replaces the ingress that
\* Ensure read.
LEMMA AcceptedIsSeen ==
    ASSUME IInv, NEW p \in Handlers, Exists(handler[p].seen),
           NEW v \in {handler[p].seen.rv, MergeVersion(handler[p].seen)},
           Accepts(ingress[handler[p].name], v)
    PROVE  /\ handler[p].name \in Names
           /\ ingress[handler[p].name] = handler[p].seen
           /\ handler[p].seen \in Ingress
  <1>1. handler[p].name \in Names /\ handler[p].seen \in Ingress
    BY DEF IInv, TypeOK, Staged, StageOK, Handler, Exists
  <1>2. handler[p].seen.rv \in Nat /\ 0 < handler[p].seen.rv
    BY <1>1 DEF IInv, Versioned, VersionsBound, Ingress
  <1> QED
    BY <1>1, <1>2 DEF Accepts, MergeVersion, Exists, IInv, Versioned, SeenIsCurrent

-----------------------------------------------------------------------------
(* Certificates.                                                           *)

\* The part of CertificatePinnedStep that a step proves for each ingress.
Pinned(n) ==
    Exists(ingress[n]) /\ Exists(ingress'[n]) =>
        \A host \in ToSet(ingress[n].tls) :
            \/ IsManagedByCertManager(ingress[n])
            \/ host \in ToSet(ingress'[n].tls)
            \/ host \notin ToSet(ingress'[n].rules)
            \/ \E p \in Handlers :
                /\ At(p, "untls") /\ handler'[p].pc = "unsecret"
                /\ handler[p].name = n /\ handler[p].req.host = host

\* Merging keeps the entries nobody manages, for the hosts that stay.
LEMMA MergePins ==
    ASSUME NEW new \in Ingress, NEW old \in Ingress, NEW v \in Nat,
           Exists(Replaced(old, MergeIngress(new, old), v)), ~IsManagedByCertManager(old),
           NEW host \in ToSet(old.tls)
    PROVE  \/ host \in ToSet(Replaced(old, MergeIngress(new, old), v).tls)
           \/ host \notin ToSet(Replaced(old, MergeIngress(new, old), v).rules)
  <1> DEFINE m == MergeIngress(new, old)
  <1>1. old.tls # <<>>
    BY DEF ToSet, Ingress
  <1>2. m \in Ingress /\ m.tls = m.rules
    BY <1>1 DEF MergeIngress, FillIngressTLS, Ingress
  <1>3. Over(old, m).tls = m.tls /\ Over(old, m).rules = m.rules /\ Over(old, m) \in Ingress
    BY <1>2 DEF Over, Ingress
  <1>4. ~old.terminating
    BY DEF Replaced, Exists
  <1>5. \/ Replaced(old, m, v) = old
        \/ Replaced(old, m, v) = [Over(old, m) EXCEPT !.rv = v]
    BY <1>4 DEF Replaced
  <1>6. CASE Replaced(old, m, v) = old
    BY <1>6
  <1>7. CASE Replaced(old, m, v) = [Over(old, m) EXCEPT !.rv = v]
    <2>1. Replaced(old, m, v).tls = m.tls /\ Replaced(old, m, v).rules = m.rules
      BY <1>3, <1>7 DEF Ingress
    <2> QED
      BY <1>2, <2>1
  <1> QED
    BY <1>5, <1>6, <1>7

LEMMA ReplacePins ==
    ASSUME IInv, NEW p \in Handlers, NEW new \in Ingress, Exists(handler[p].seen),
           Accepts(ingress[handler[p].name], MergeVersion(handler[p].seen)),
           ReplaceIngress(handler[p].name, MergeIngress(new, handler[p].seen))
    PROVE  \A n \in Names : Pinned(n)
  <1> DEFINE k == handler[p].name
             seen == handler[p].seen
  <1>1. k \in Names /\ ingress[k] = seen /\ seen \in Ingress
    BY AcceptedIsSeen
  <1>2. version[k] + 1 \in Nat
    BY <1>1 DEF IInv, TypeOK
  <1>3. ingress' = [ingress EXCEPT ![k] = Replaced(seen, MergeIngress(new, seen), version[k] + 1)]
    BY <1>1 DEF ReplaceIngress
  <1>4. Pinned(k)
    BY <1>1, <1>2, <1>3, MergePins DEF Pinned, IInv, TypeOK
  <1>5. ASSUME NEW n \in Names, n # k
        PROVE  Pinned(n)
    BY <1>3, <1>5 DEF Pinned, IInv, TypeOK
  <1> QED
    BY <1>4, <1>5

\* A step that leaves the TLS entries of every ingress alone.
LEMMA SameTLSPins ==
    ASSUME \A n \in Names : Exists(ingress[n]) /\ Exists(ingress'[n])
                => ingress'[n].tls = ingress[n].tls
    PROVE  \A n \in Names : Pinned(n)
  BY DEF Pinned

LEMMA CreatePins ==
    ASSUME IInv, NEW n \in Names, NEW m, ~Exists(ingress[n]), CreateIngress(n, m)
    PROVE  \A k \in Names : Pinned(k)
  BY DEF CreateIngress, Pinned, IInv, TypeOK

LEMMA EnsurePins ==
    ASSUME IInv, NEW p \in Handlers, EnsureStep(p)
    PROVE  \A n \in Names : Pinned(n)
  <1> DEFINE h == handler[p]
  <1>1. h \in Handler /\ StageOK(h)
    BY DEF IInv, TypeOK, Staged
  <1>2. CASE UNCHANGED ingress
    BY <1>2, SameTLSPins
  <1>3. CASE EnsureCreate(p) /\ ~UNCHANGED ingress
    <2>1. h.name \in Names
      BY <1>1, <1>3 DEF StageOK, EnsureCreate, At, EnsurePCs, EnsureRequest, Names
    <2>2. ~Exists(ingress[h.name]) /\ \E m : CreateIngress(h.name, m)
      BY <1>3 DEF EnsureCreate, Refused, cluster
    <2> QED
      BY <2>1, <2>2, CreatePins
  <1>4. CASE EnsureUpdate(p) /\ ~UNCHANGED ingress
    <2>1. h.req \in EnsureRequest
      BY <1>1, <1>4 DEF StageOK, EnsureUpdate, At, EnsurePCs
    <2>2. PICK rules \in RuleOrders(h.req.hosts) :
            /\ Exists(h.seen)
            /\ Accepts(ingress[h.name], MergeVersion(h.seen))
            /\ ReplaceIngress(h.name, MergeIngress(MainIngress(h.req, rules), h.seen))
      BY <1>4 DEF EnsureUpdate, Refused, cluster
    <2> QED
      BY <2>1, <2>2, MainIngressType, ReplacePins
  <1>5. CASE CNameCreate(p) /\ ~UNCHANGED ingress
    <2>1. h.name \in Names
      BY <1>1, <1>5 DEF StageOK, CNameCreate, At, Names
    <2>2. ~Exists(ingress[h.name]) /\ \E m : CreateIngress(h.name, m)
      BY <1>5 DEF CNameCreate, Refused, cluster
    <2> QED
      BY <2>1, <2>2, CreatePins
  <1>6. CASE CNameUpdate(p) /\ ~UNCHANGED ingress
    <2> DEFINE new == CNameIngress(h.req, h.name, h.parent)
    <2>1. new \in Ingress
      BY <1>1, <1>6, CNameIngressType DEF StageOK, CNameUpdate, At, EnsurePCs, Handler
    <2>2. /\ Exists(h.seen)
          /\ Accepts(ingress[h.name], MergeVersion(h.seen))
          /\ ReplaceIngress(h.name, MergeIngress(new, h.seen))
      BY <1>6 DEF CNameUpdate, Refused, cluster
    <2> HIDE DEF new
    <2> QED
      BY <2>1, <2>2, ReplacePins
  <1>7. CASE CNameRemove(p)
    <2>1. PICK c \in h.drop : DeleteIngress(c)
      BY <1>7 DEF CNameRemove
    <2>2. \A n \in Names : ingress'[n] \in {Nil, ingress[n]}
      BY <1>1, <2>1 DEF DeleteIngress, IInv, TypeOK
    <2> QED
      BY <2>2, SameTLSPins DEF Exists
  <1> QED
    BY <1>2, <1>3, <1>4, <1>5, <1>6, <1>7
       DEF EnsureStep, EnsureGet, CNameGet, CNameDeleteCertificate, EnsureDone,
           cluster, ingresses

\* What adding and dropping an entry leaves of the others.
LEMMA AddTLSEntryKeeps ==
    ASSUME NEW tls \in HostList, NEW host \in Hosts, NEW other \in ToSet(tls)
    PROVE  other \in ToSet(AddTLSEntry(tls, host))
  <1>1. CASE host \in ToSet(tls)
    BY <1>1 DEF AddTLSEntry
  <1>2. CASE host \notin ToSet(tls)
    <2>1. tls \in Seq(Hosts)
      BY DEF HostList
    <2>2. PICK i \in 1..Len(tls) : tls[i] = other
      BY <2>1 DEF ToSet
    <2>3. i \in DOMAIN Append(tls, host) /\ Append(tls, host)[i] = other
      BY <2>1, <2>2
    <2> QED
      BY <1>2, <2>3 DEF AddTLSEntry, ToSet
  <1> QED
    BY <1>1, <1>2

LEMMA DropTLSEntryKeeps ==
    ASSUME NEW tls \in HostList, NEW host \in Hosts, NEW other \in ToSet(tls), other # host
    PROVE  other \in ToSet(DropTLSEntry(tls, host))
  <1>1. CASE tls # <<>> /\ tls[Len(tls)] = host
    <2>1. tls \in Seq(Hosts) /\ Len(tls) \in Nat \ {0}
      BY <1>1 DEF HostList
    <2>2. PICK i \in 1..Len(tls) : tls[i] = other
      BY <2>1 DEF ToSet
    <2>3. i \in 1..Len(tls) - 1
      BY <1>1, <2>1, <2>2
    <2> DEFINE rest == SubSeq(tls, 1, Len(tls) - 1)
    <2>4. rest \in Seq(Hosts) /\ Len(rest) = Len(tls) - 1 /\ rest[i] = other
      BY <2>1, <2>2, <2>3
    <2>5. i \in DOMAIN rest
      BY <2>3, <2>4
    <2>6. DropTLSEntry(tls, host) = rest
      BY <1>1 DEF DropTLSEntry
    <2> QED
      BY <2>4, <2>5, <2>6 DEF ToSet
  <1>2. CASE ~(tls # <<>> /\ tls[Len(tls)] = host)
    BY <1>2 DEF DropTLSEntry
  <1> QED
    BY <1>1, <1>2

\* Writing back what was read, with other TLS entries.
LEMMA EditedTLS ==
    ASSUME NEW o \in Ingress, NEW tls \in HostList, NEW v \in Nat
    PROVE  Edited(o, [o EXCEPT !.tls = tls], v).tls = tls
  <1>1. [o EXCEPT !.tls = tls] \in Ingress
    BY DEF Ingress
  <1>2. Over(o, [o EXCEPT !.tls = tls]) \in Ingress
    BY <1>1, OverType
  <1>3. Over(o, [o EXCEPT !.tls = tls]).tls = tls
    BY <1>1 DEF Over, Ingress
  <1>4. [Over(o, [o EXCEPT !.tls = tls]) EXCEPT !.rv = v].tls = tls
    BY <1>2, <1>3 DEF Ingress
  <1> QED
    BY <1>3, <1>4 DEF Edited

\* AddCertificate keeps every entry, RemoveCertificate all but its own.
LEMMA TLSPins ==
    ASSUME IInv, NEW p \in Handlers, AddTLS(p) \/ RemoveTLS(p), ~UNCHANGED ingress
    PROVE  \A n \in Names : Pinned(n)
  <1> DEFINE k == handler[p].name
             seen == handler[p].seen
             host == handler[p].req.host
             added == AddTLSEntry(seen.tls, host)
             dropped == DropTLSEntry(seen.tls, host)
  <1>1. handler[p].pc \in FoundPCs
    BY DEF AddTLS, RemoveTLS, At, FoundPCs
  <1>2. k \in Names /\ seen \in Ingress /\ host \in Hosts /\ Exists(seen)
    BY <1>1, KeyType DEF IInv, Staged, StageOK
  <1>3. Accepts(ingress[k], seen.rv)
    BY DEF AddTLS, RemoveTLS, Refused, cluster
  <1>4. ingress[k] = seen
    BY <1>2, <1>3, AcceptedIsSeen
  <1>5. seen.tls \in HostList /\ added \in HostList /\ dropped \in HostList
    BY <1>2, AddTLSEntryType, DropTLSEntryType DEF Ingress
  <1>6. version[k] + 1 \in Nat
    BY <1>2 DEF IInv, TypeOK
  <1>7. CASE AddTLS(p)
    <2>1. ingress' = [ingress EXCEPT ![k] =
                        Edited(seen, [seen EXCEPT !.tls = added], version[k] + 1)]
      BY <1>4, <1>7 DEF AddTLS, Refused, cluster, EditIngress
    <2>2. ingress'[k].tls = added
      BY <1>2, <1>5, <1>6, <2>1, EditedTLS DEF IInv, TypeOK
    <2>3. \A other \in ToSet(seen.tls) : other \in ToSet(added)
      BY <1>2, <1>5, AddTLSEntryKeeps
    <2>4. Pinned(k)
      BY <1>4, <2>2, <2>3 DEF Pinned
    <2>5. ASSUME NEW n \in Names, n # k
          PROVE  Pinned(n)
      BY <2>1, <2>5 DEF Pinned, IInv, TypeOK
    <2> QED
      BY <2>4, <2>5
  <1>8. CASE RemoveTLS(p)
    <2>1. /\ ingress' = [ingress EXCEPT ![k] =
                            Edited(seen, [seen EXCEPT !.tls = dropped], version[k] + 1)]
          /\ handler' = [handler EXCEPT ![p].pc = "unsecret"]
          /\ At(p, "untls")
      BY <1>4, <1>8 DEF RemoveTLS, Refused, cluster, EditIngress
    <2>2. ingress'[k].tls = dropped
      BY <1>2, <1>5, <1>6, <2>1, EditedTLS DEF IInv, TypeOK
    <2>3. handler'[p].pc = "unsecret"
      BY <2>1 DEF IInv, TypeOK, Handler
    <2>4. \A other \in ToSet(seen.tls) : other = host \/ other \in ToSet(dropped)
      BY <1>2, <1>5, DropTLSEntryKeeps
    <2>5. Pinned(k)
      BY <1>4, <2>1, <2>2, <2>3, <2>4 DEF Pinned
    <2>6. ASSUME NEW n \in Names, n # k
          PROVE  Pinned(n)
      BY <2>1, <2>6 DEF Pinned, IInv, TypeOK
    <2> QED
      BY <2>5, <2>6
  <1> QED
    BY <1>7, <1>8

LEMMA NextPins ==
    ASSUME IInv, [Next]_vars
    PROVE  \A n \in Names : Pinned(n)
  <1>1. CASE UNCHANGED ingress
    BY <1>1, SameTLSPins
  <1>2. ASSUME NEW p \in Handlers, RemoveMain(p)
        PROVE  \A n \in Names : Pinned(n)
    <2> DEFINE a == handler[p].req.app
    <2>1. a \in Names
      BY <1>2 DEF IInv, TypeOK, Staged, RemoveMain, At, StageOK, RemoveRequest, Names
    <2>2. CASE Exists(ingress[a])
      <3>1. ingress[a] \in Ingress
        BY <2>1, <2>2 DEF Exists, IInv, TypeOK
      <3>2. Marked(ingress[a], version[a] + 1).tls = ingress[a].tls
        BY <3>1 DEF Marked, Ingress
      <3>3. ingress' = [ingress EXCEPT ![a] = Marked(ingress[a], version[a] + 1)]
        BY <1>2, <2>2 DEF RemoveMain
      <3>4. \A n \in Names : ingress'[n] = ingress[n] \/ ingress'[n].tls = ingress[n].tls
        BY <2>1, <3>2, <3>3 DEF IInv, TypeOK
      <3> QED
        BY <3>4, SameTLSPins
    <2> QED
      BY <1>2, <2>2, SameTLSPins DEF RemoveMain, ingresses
  <1>3. ASSUME NEW k \in Names, DeleteIngress(k)
        PROVE  \A n \in Names : Pinned(n)
    <2>1. \A n \in Names : ingress'[n] \in {Nil, ingress[n]}
      BY <1>3 DEF DeleteIngress, IInv, TypeOK
    <2> QED
      BY <2>1, SameTLSPins DEF Exists
  <1>4. ASSUME NEW k \in Names, ToggleFreeze(k)
        PROVE  \A n \in Names : Pinned(n)
    <2> DEFINE o == [ingress[k] EXCEPT !.frozen = ~ingress[k].frozen, !.rv = version[k] + 1]
    <2>1. ingress[k] \in Ingress
      BY <1>4 DEF ToggleFreeze, Exists, IInv, TypeOK
    <2>2. o.tls = ingress[k].tls
      BY <2>1 DEF Ingress
    <2>3. ingress' = [ingress EXCEPT ![k] = o]
      BY <1>4, <2>1 DEF ToggleFreeze
    <2> HIDE DEF o
    <2>4. \A n \in Names : ingress'[n] = ingress[n] \/ ingress'[n].tls = ingress[n].tls
      BY <2>2, <2>3 DEF IInv, TypeOK
    <2> QED
      BY <2>4, SameTLSPins
  <1>5. CASE (\E p \in Handlers : CertificateStep(p)) /\ ~UNCHANGED ingress
    <2>1. PICK p \in Handlers : AddTLS(p) \/ RemoveTLS(p)
      BY <1>5 DEF CertificateStep, FindTarget, FindMain, CreateSecret, GetSecret,
                  UpdateSecret, DeleteSecret, Refused, cluster, ingresses
    <2> QED
      BY <1>5, <2>1, TLSPins
  <1> QED
    BY <1>1, <1>2, <1>3, <1>4, <1>5, EnsurePins
       DEF Next, vars, HandlerStep, Environment, Collect, CollectCName, CollectMain,
           CollectCertificate, IssueCertificate, OwnerServiceDeleted, Receive, Fail,
           Return, cluster, ingresses, Names

\* A TLS entry that nobody manages goes only with its host or by a
\* RemoveCertificate for it, however Ensure, AddCertificate and the cluster's
\* operators interleave: mergeIngressAndUpdate loses no certificate.
THEOREM CertificatesPinned == Spec => CertificatePinned
  <1>1. IInv /\ [Next]_vars => [CertificatePinnedStep]_vars
    <2> SUFFICES ASSUME IInv, [Next]_vars PROVE CertificatePinnedStep
      OBVIOUS
    <2>1. \A n \in Names : Pinned(n)
      BY NextPins
    <2> QED
      BY <2>1 DEF Pinned, CertificatePinnedStep
  <1> QED
    BY <1>1, InvariantHolds, PTL DEF Spec, CertificatePinned

-----------------------------------------------------------------------------
(* Frozen ingresses.                                                       *)

\* What an Ensure step does to the ingress stored under n.
LEMMA EnsureKeepsFrozen ==
    ASSUME IInv, NEW p \in Handlers, EnsureStep(p), NEW n \in Names, Frozen(ingress[n])
    PROVE  \/ ingress'[n] = ingress[n]
           \/ ingress'[n] = Nil /\ n \in handler[p].drop
  <1> DEFINE h == handler[p]
  <1>1. h \in Handler /\ StageOK(h)
    BY DEF IInv, TypeOK, Staged
  <1>2. CASE UNCHANGED ingress
    BY <1>2
  <1>3. CASE (EnsureCreate(p) \/ CNameCreate(p)) /\ ~UNCHANGED ingress
    <2>1. ~Exists(ingress[h.name]) /\ \E m : CreateIngress(h.name, m)
      BY <1>3 DEF EnsureCreate, CNameCreate, Refused, cluster
    <2> QED
      BY <2>1 DEF CreateIngress, Frozen, IInv, TypeOK
  <1>4. CASE (EnsureUpdate(p) \/ CNameUpdate(p)) /\ ~UNCHANGED ingress
    <2>1. /\ Exists(h.seen)
          /\ Accepts(ingress[h.name], MergeVersion(h.seen))
          /\ \E m : ReplaceIngress(h.name, m)
      BY <1>4 DEF EnsureUpdate, CNameUpdate, Refused, cluster
    <2>2. ingress[h.name] = h.seen
      BY <2>1, AcceptedIsSeen
    <2>3. ~Frozen(h.seen)
      BY <1>1, <1>4 DEF StageOK, EnsureUpdate, CNameUpdate, At
    <2> QED
      BY <2>1, <2>2, <2>3 DEF ReplaceIngress, IInv, TypeOK
  <1>5. CASE CNameRemove(p)
    BY <1>5 DEF CNameRemove, DeleteIngress, IInv, TypeOK
  <1> QED
    BY <1>2, <1>3, <1>4, <1>5
       DEF EnsureStep, EnsureGet, CNameGet, CNameDeleteCertificate, EnsureDone,
           cluster, ingresses

\* Ensure never rewrites a frozen ingress, also when it is frozen between the
\* Get that checks the annotation and the Update: the Update is refused.
THEOREM FrozenStaysPut == Spec => FrozenKept
  <1>1. IInv /\ [Next]_vars => [FrozenKeptStep]_vars
    <2> SUFFICES ASSUME IInv PROVE FrozenKeptStep
      OBVIOUS
    <2> QED
      BY EnsureKeepsFrozen DEF FrozenKeptStep, Frozen
  <1> QED
    BY <1>1, InvariantHolds, PTL DEF Spec, FrozenKept
=============================================================================
