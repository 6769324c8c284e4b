-------------------------- MODULE RouterAPIProofs --------------------------
(***************************************************************************)
(* Proofs about RouterAPI, for any handlers, requests, addresses and       *)
(* bounds.                                                                 *)
(*                                                                         *)
(* The argument for a status request: the WaitGroup counts the goroutines  *)
(* that have not ended and the channel holds a check of each that has sent *)
(* one (Counted), so when the count is zero the channel is complete; and a *)
(* check that was cut short has a reason, which an answer without error    *)
(* excludes (Cut, Answered).  The argument for the shared fields: whoever  *)
(* leaves a configuration or a client unfinished is still there to finish  *)
(* it (FieldsSettle), as what it is about to store is no nil pointer unless*)
(* something failed (CallsOK).                                             *)
(***************************************************************************)
EXTENDS RouterAPIProperties, FiniteSetTheorems, SequenceTheorems, TLAPS

\* The goroutines of a handler, of the two kinds.
ProbesIn(f, p) == [i \in Indexes |-> f[<<p, i>>]]
CallsIn(c, p) == [part \in Parts |-> c[<<p, part>>]]

Live(f) == {i \in Indexes : f[i].pc \in {"asking", "sending", "sent"}}
Sent(f) == {i \in Indexes : f[i].pc \in {"sent", "over"}}

\* A goroutine that calls the router belongs to a request that waits for it.
Placed(h, c) ==
    /\ c["main"].pc # "idle" => h.pc = "working" /\ h.check = "none" /\ h.status = "none"
    /\ c["check"].pc # "idle" => h.pc = "working" /\ h.check = "getting"
    /\ c["status"].pc # "idle" => h.pc = "working" /\ h.status = "getting"

Counted(h, f) ==
    /\ h.spawned <= h.addresses
    /\ \A i \in Indexes : f[i].pc = "none" <=> h.spawned < i
    /\ h.wg = Cardinality(Live(f))
    /\ Len(h.channel) = Cardinality(Sent(f))
    /\ \A i \in Sent(f) : \E j \in 1..Len(h.channel) : h.channel[j].index = i
    /\ h.check # "spawning" => Live(f) = {}
    /\ h.check = "ok" => h.spawned = h.addresses
    /\ h.check \in {"none", "getting", "error"} => h.addresses = 0

\* A check that was cut short, collected or not, was so for a reason.
Cut(h, f) ==
    \/ h.gone = "yes" \/ h.first # "none"
    \/ /\ \A i \in Indexes : f[i].outcome = "own"
       /\ \A j \in 1..Len(h.channel) : h.channel[j].outcome = "own"

Answered(h, f) ==
    /\ h.pc = "idle" => h.check = "none" /\ \A i \in Indexes : f[i] = NoProbe
    /\ h.pc # "idle" => h.req \in RequestType
    /\ h.pc # "idle" /\ h.req.op = "Status" => h.check # "none"
    /\ h.check = "error" => h.first # "none"
    /\ h.pc = "answered" /\ h.answer = "ok" /\ h.req.op = "Status" =>
            h.first = "none" /\ h.check = "ok"

HandlerOK(h, f, c) == Placed(h, c) /\ Counted(h, f) /\ Cut(h, f) /\ Answered(h, f)
HandlersOK == \A p \in Handlers : HandlerOK(handler[p], ProbesIn(probe, p), CallsIn(call, p))

\* What is about to be stored is a client, unless something failed.
CallsOK ==
    \A g \in Goroutines :
        call[g].pc \in {"store", "stored"} /\ faults = 0 => call[g].client # "empty"

IInv == TypeOK /\ HandlersOK /\ CallsOK /\ FieldsSettle

-----------------------------------------------------------------------------
(* The steps of a call.                                                    *)

LEMMA CallTypes ==
    ASSUME NEW c \in Call
    PROVE  /\ NoCall \in Call
           /\ \A s \in Services : Begun(s) \in Call /\ Begun(s).pc = "client"
           /\ \A pc \in CallSteps \cup CallEnds :
                /\ [NoCall EXCEPT !.pc = pc] \in Call
                /\ [c EXCEPT !.pc = pc] \in Call
                /\ \A n \in Nat : [c EXCEPT !.pc = pc, !.config = n] \in Call
                /\ \A k \in Clients : [c EXCEPT !.pc = pc, !.client = k] \in Call
                /\ \A k \in Clients, f \in {"no", "yes"} :
                        [c EXCEPT !.pc = pc, !.client = k, !.failed = f] \in Call
  <1>1. NoCall \in Call
    BY DEF Call, NoCall, Services, Clients
  <1>2. CallSteps \cup CallEnds \subseteq {"idle"} \cup CallSteps \cup CallEnds
    OBVIOUS
  <1>3. ASSUME NEW s \in Services
        PROVE  Begun(s) \in Call /\ Begun(s).pc = "client"
    BY <1>1 DEF Call, NoCall, Begun, CallSteps
  <1>4. ASSUME NEW pc \in CallSteps \cup CallEnds
        PROVE  /\ [NoCall EXCEPT !.pc = pc] \in Call
               /\ [c EXCEPT !.pc = pc] \in Call
               /\ \A n \in Nat : [c EXCEPT !.pc = pc, !.config = n] \in Call
               /\ \A k \in Clients : [c EXCEPT !.pc = pc, !.client = k] \in Call
               /\ \A k \in Clients, f \in {"no", "yes"} :
                        [c EXCEPT !.pc = pc, !.client = k, !.failed = f] \in Call
    BY <1>1 DEF Call
  <1> QED
    BY <1>1, <1>3, <1>4

\* How a step of a call changes it, and what it leaves of the fields.
Moved(g) ==
    /\ call[g].pc # "idle"
    /\ call'[g] \in Call /\ call'[g].pc # "idle"
    /\ call' = [call EXCEPT ![g] = call'[g]]
    /\ restConfig' \in [Services -> Nat] /\ client' \in [Services -> Clients]
    /\ configs' \in Nat /\ timed' \in SUBSET Nat

LEMMA MovedIsTyped ==
    ASSUME ClientTypeOK, NEW g \in Goroutines, Moved(g)
    PROVE  ClientTypeOK'
  BY DEF ClientTypeOK, Moved

\* A step of a call, given what it makes of it.
LEMMA CallMoves ==
    ASSUME ClientTypeOK, NEW g \in Goroutines, call[g].pc # "idle",
           NEW c \in Call, c.pc # "idle", call' = [call EXCEPT ![g] = c],
           restConfig' \in [Services -> Nat], client' \in [Services -> Clients],
           configs' \in Nat, timed' \in SUBSET Nat
    PROVE  Moved(g)
  <1>1. call'[g] = c
    BY DEF ClientTypeOK
  <1> QED
    BY <1>1 DEF Moved

LEMMA OnlyCallMoves ==
    ASSUME ClientTypeOK, NEW g \in Goroutines, call[g].pc # "idle",
           NEW c \in Call, c.pc # "idle", call' = [call EXCEPT ![g] = c], UNCHANGED fields
    PROVE  Moved(g)
  <1>1. /\ restConfig' \in [Services -> Nat] /\ client' \in [Services -> Clients]
        /\ configs' \in Nat /\ timed' \in SUBSET Nat
    BY DEF ClientTypeOK, fields
  <1> QED
    BY <1>1, CallMoves

LEMMA StepNames ==
    /\ \A pc \in {"client", "config", "load", "complete", "take", "build", "store", "stored",
                  "read", "calling"} : pc \in CallSteps \cup CallEnds
    /\ \A pc \in {"ok", "error", "panic"} : pc \in CallSteps \cup CallEnds
    /\ "idle" \notin CallSteps \cup CallEnds
  BY DEF CallSteps, CallEnds

\* GoTo and EndWith, as what they make of the call.
LEMMA GoToMakes ==
    ASSUME ClientTypeOK, NEW g \in Goroutines, NEW pc \in CallSteps \cup CallEnds,
           GoTo(g, pc) \/ EndWith(g, pc)
    PROVE  \E c \in Call : c.pc = pc /\ c.pc # "idle" /\ call' = [call EXCEPT ![g] = c]
  <1>1. call[g] \in Call
    BY DEF ClientTypeOK
  <1>2. CASE GoTo(g, pc)
    <2> DEFINE c == [call[g] EXCEPT !.pc = pc]
    <2>1. c \in Call /\ c.pc = pc
      BY <1>1, CallTypes DEF Call
    <2>2. call' = [call EXCEPT ![g] = c]
      BY <1>1, <1>2 DEF GoTo, ClientTypeOK
    <2> QED
      BY <2>1, <2>2, StepNames
  <1>3. CASE EndWith(g, pc)
    <2> DEFINE c == [NoCall EXCEPT !.pc = pc]
    <2>1. c \in Call
      BY <1>1, CallTypes
    <2>2. c.pc = pc
      BY DEF NoCall
    <2>3. call' = [call EXCEPT ![g] = c]
      BY <1>3 DEF EndWith
    <2> QED
      BY <2>1, <2>2, <2>3, StepNames
  <1> QED
    BY <1>2, <1>3

LEMMA ClientMoves ==
    ASSUME ClientTypeOK, NEW g \in Goroutines, ClientStep(g)
    PROVE  Moved(g)
  <1> USE DEF AtCall
  <1> DEFINE s == call[g].service
  <1>c. /\ call[g] \in Call /\ call[g].service \in Services /\ call[g].config \in Nat
        /\ call[g].client \in Clients
        /\ \A t \in Services : restConfig[t] \in Nat /\ client[t] \in Clients
    BY DEF ClientTypeOK, Call
  <1>k. "timed" \in Clients /\ "untimed" \in Clients /\ "empty" \in Clients
    BY DEF Clients
  <1>1. CASE CheckClient(g)
    <2>1. CASE client[s] # "none"
      <3> DEFINE c == [call[g] EXCEPT !.pc = "calling", !.client = client[s]]
      <3>1. call' = [call EXCEPT ![g] = c] /\ UNCHANGED fields
        BY <1>1, <2>1 DEF CheckClient
      <3>2. c \in Call /\ c.pc = "calling"
        BY <1>c, StepNames, CallTypes DEF Call
      <3> QED
        BY <1>1, <3>1, <3>2, OnlyCallMoves DEF CheckClient
    <2>2. CASE client[s] = "none"
      <3>1. GoTo(g, "config") /\ UNCHANGED fields
        BY <1>1, <2>2 DEF CheckClient
      <3> QED
        BY <1>1, <3>1, GoToMakes, StepNames, OnlyCallMoves DEF CheckClient
    <2> QED
      BY <2>1, <2>2
  <1>2. CASE CheckConfig(g)
    <2>1. CASE restConfig[s] # 0
      <3> DEFINE c == [call[g] EXCEPT !.pc = "build", !.config = restConfig[s]]
      <3>1. call' = [call EXCEPT ![g] = c] /\ UNCHANGED fields
        BY <1>2, <2>1 DEF CheckConfig
      <3>2. c \in Call /\ c.pc = "build"
        BY <1>c, StepNames, CallTypes DEF Call
      <3> QED
        BY <1>2, <3>1, <3>2, OnlyCallMoves DEF CheckConfig
    <2>2. CASE restConfig[s] = 0
      <3>1. GoTo(g, "load") /\ UNCHANGED fields
        BY <1>2, <2>2 DEF CheckConfig
      <3> QED
        BY <1>2, <3>1, GoToMakes, StepNames, OnlyCallMoves DEF CheckConfig
    <2> QED
      BY <2>1, <2>2
  <1>3. CASE LoadConfig(g)
    <2>1. GoTo(g, "complete") /\ call[g].pc = "load"
      BY <1>3 DEF LoadConfig
    <2>2. /\ restConfig' \in [Services -> Nat] /\ client' \in [Services -> Clients]
          /\ configs' \in Nat /\ timed' \in SUBSET Nat
      <3>1. configs \in Nat /\ configs' = configs + 1 /\ UNCHANGED <<client, timed>>
        BY <1>3 DEF LoadConfig, ClientTypeOK
      <3>2. configs' \in Nat
        BY <3>1
      <3>3. restConfig' = [restConfig EXCEPT ![s] = configs']
        BY <1>3 DEF LoadConfig
      <3>4. restConfig' \in [Services -> Nat]
        BY <3>2, <3>3 DEF ClientTypeOK
      <3> QED
        BY <3>1, <3>2, <3>4 DEF ClientTypeOK
    <2> QED
      BY <2>1, <2>2, GoToMakes, StepNames, CallMoves
  <1>4. CASE SetTimeout(g)
    <2>1. /\ restConfig' \in [Services -> Nat] /\ client' \in [Services -> Clients]
          /\ configs' \in Nat /\ timed' \in SUBSET Nat
      <3>1. UNCHANGED <<restConfig, client, configs>>
        BY <1>4 DEF SetTimeout
      <3>2. timed' = timed \/ timed' = timed \cup {restConfig[s]}
        BY <1>4 DEF SetTimeout, Completed
      <3>3. restConfig[s] \in Nat /\ timed \in SUBSET Nat
        BY <1>c DEF ClientTypeOK
      <3> HIDE DEF s
      <3>4. timed' \in SUBSET Nat
        BY <3>2, <3>3
      <3> QED
        BY <3>1, <3>4 DEF ClientTypeOK
    <2>2. call[g].pc = "complete" /\ (EndWith(g, "panic") \/ GoTo(g, "take"))
      BY <1>4 DEF SetTimeout
    <2> QED
      BY <2>1, <2>2, GoToMakes, StepNames, CallMoves
  <1>5. CASE TakeConfig(g)
    <2>1. CASE restConfig[s] # 0
      <3> DEFINE c == [call[g] EXCEPT !.pc = "build", !.config = restConfig[s]]
      <3>1. call' = [call EXCEPT ![g] = c] /\ UNCHANGED fields
        BY <1>5, <2>1 DEF TakeConfig
      <3>2. c \in Call /\ c.pc = "build"
        BY <1>c, StepNames, CallTypes DEF Call
      <3> QED
        BY <1>5, <3>1, <3>2, OnlyCallMoves DEF TakeConfig
    <2>2. CASE restConfig[s] = 0
      <3>1. EndWith(g, "panic") /\ UNCHANGED fields
        BY <1>5, <2>2 DEF TakeConfig
      <3> QED
        BY <1>5, <3>1, GoToMakes, StepNames, OnlyCallMoves DEF TakeConfig
    <2> QED
      BY <2>1, <2>2
  <1>6. CASE BuildClient(g)
    <2> DEFINE built == IF call[g].config \in timed THEN "timed" ELSE "untimed"
               c == [call[g] EXCEPT !.pc = "store", !.client = built]
    <2>1. call' = [call EXCEPT ![g] = c] /\ UNCHANGED fields
      BY <1>6 DEF BuildClient
    <2>2. c \in Call /\ c.pc = "store"
      <3>1. built \in Clients /\ "store" \in CallSteps \cup CallEnds
        BY <1>k, StepNames
      <3> HIDE DEF built
      <3> QED
        BY <1>c, <3>1, CallTypes DEF Call
    <2> QED
      BY <1>6, <2>1, <2>2, OnlyCallMoves DEF BuildClient
  <1>7. CASE StoreType(g)
    <2>1. GoTo(g, "stored") /\ call[g].pc = "store"
      BY <1>7 DEF StoreType
    <2>2. /\ restConfig' \in [Services -> Nat] /\ client' \in [Services -> Clients]
          /\ configs' \in Nat /\ timed' \in SUBSET Nat
      BY <1>7, <1>k DEF StoreType, ClientTypeOK
    <2> QED
      BY <2>1, <2>2, GoToMakes, StepNames, CallMoves
  <1>8. CASE StorePointer(g)
    <2>1. GoTo(g, "read") /\ call[g].pc = "stored"
      BY <1>8 DEF StorePointer
    <2>2. /\ restConfig' \in [Services -> Nat] /\ client' \in [Services -> Clients]
          /\ configs' \in Nat /\ timed' \in SUBSET Nat
      BY <1>8, <1>c DEF StorePointer, ClientTypeOK
    <2> QED
      BY <2>1, <2>2, GoToMakes, StepNames, CallMoves
  <1>9. CASE ReadClient(g)
    <2>1. CASE call[g].failed # "yes"
      <3> DEFINE c == [call[g] EXCEPT !.pc = "calling", !.client = client[s]]
      <3>1. call' = [call EXCEPT ![g] = c] /\ UNCHANGED fields
        BY <1>9, <2>1 DEF ReadClient
      <3>2. c \in Call /\ c.pc = "calling"
        BY <1>c, StepNames, CallTypes DEF Call
      <3> QED
        BY <1>9, <3>1, <3>2, OnlyCallMoves DEF ReadClient
    <2>2. CASE call[g].failed = "yes"
      <3>1. EndWith(g, "error") /\ UNCHANGED fields
        BY <1>9, <2>2 DEF ReadClient
      <3> QED
        BY <1>9, <3>1, GoToMakes, StepNames, OnlyCallMoves DEF ReadClient
    <2> QED
      BY <2>1, <2>2
  <1>10. CASE CallPanics(g)
    BY <1>10, GoToMakes, StepNames, OnlyCallMoves DEF CallPanics
  <1> QED
    BY <1>1, <1>2, <1>3, <1>4, <1>5, <1>6, <1>7, <1>8, <1>9, <1>10 DEF ClientStep

LEMMA CallEndMoves ==
    ASSUME ClientTypeOK, NEW g \in Goroutines, NEW cancelled,
           CallReturns(g) \/ CallGivesUp(g, cancelled)
    PROVE  Moved(g) /\ UNCHANGED fields /\ call'[g].pc \in {"ok", "error"}
  <1>1. PICK pc \in {"ok", "error"} : EndWith(g, pc)
    BY DEF CallReturns, CallGivesUp
  <1>2. call[g].pc = "calling" /\ UNCHANGED fields
    BY DEF CallReturns, CallGivesUp, AtCall
  <1>3. [NoCall EXCEPT !.pc = pc] \in Call /\ [NoCall EXCEPT !.pc = pc].pc = pc
    BY DEF Call, NoCall, CallEnds, Services, Clients
  <1>4. call' = [call EXCEPT ![g] = [NoCall EXCEPT !.pc = pc]]
    BY <1>1 DEF EndWith
  <1>5. Moved(g)
    BY <1>2, <1>3, <1>4, OnlyCallMoves
  <1> QED
    BY <1>2, <1>3, <1>4, <1>5 DEF ClientTypeOK

LEMMA FailureMoves ==
    ASSUME ClientTypeOK, NEW g \in Goroutines, LoadFails(g) \/ BuildFails(g)
    PROVE  Moved(g)
  <1>1. CASE LoadFails(g)
    <2>1. [NoCall EXCEPT !.pc = "error"] \in Call /\ [NoCall EXCEPT !.pc = "error"].pc = "error"
      BY DEF Call, NoCall, CallEnds, Services, Clients
    <2>2. call' = [call EXCEPT ![g] = [NoCall EXCEPT !.pc = "error"]] /\ call[g].pc = "load"
      BY <1>1 DEF LoadFails, EndWith, AtCall
    <2>3. /\ restConfig' \in [Services -> Nat] /\ client' \in [Services -> Clients]
          /\ configs' \in Nat /\ timed' \in SUBSET Nat
      BY <1>1 DEF LoadFails, ClientTypeOK
    <2> QED
      BY <2>1, <2>2, <2>3 DEF Moved, ClientTypeOK
  <1>2. CASE BuildFails(g)
    <2> DEFINE c == [call[g] EXCEPT !.pc = "store", !.client = "empty", !.failed = "yes"]
    <2>1. call' = [call EXCEPT ![g] = c] /\ UNCHANGED fields /\ call[g].pc = "build"
      BY <1>2 DEF BuildFails, AtCall
    <2>2. c \in Call /\ c.pc = "store"
      BY DEF Call, ClientTypeOK, CallSteps, Clients
    <2> QED
      BY <2>1, <2>2, OnlyCallMoves
  <1> QED
    BY <1>1, <1>2

-----------------------------------------------------------------------------
(* The shared fields.                                                      *)

\* A step that changes one call, or none, keeps CallsOK and FieldsSettle when it
\* leaves no field unfinished but those that its own call will finish.
LEMMA SettleKept ==
    ASSUME ClientTypeOK, CallsOK, FieldsSettle, NEW g \in Goroutines, NEW c \in Call,
           call' = [call EXCEPT ![g] = c],
           faults' = 0 => faults = 0, timed \subseteq timed',
           c.pc \in {"store", "stored"} /\ faults' = 0 => c.client # "empty",
           \A s \in Services :
                \/ restConfig'[s] = restConfig[s]
                \/ restConfig'[s] \in timed' \cup {0}
                \/ c.pc = "complete" /\ c.service = s,
           call[g].pc = "complete" => restConfig'[call[g].service] \in timed' \cup {0},
           \A s \in Services : faults' = 0 =>
                \/ client'[s] = client[s]
                \/ client'[s] # "empty"
                \/ c.pc = "stored" /\ c.service = s,
           call[g].pc = "stored" /\ faults' = 0 => client'[call[g].service] # "empty"
    PROVE  CallsOK' /\ FieldsSettle'
  <1>1. \A q \in Goroutines : call'[q] = IF q = g THEN c ELSE call[q]
    BY DEF ClientTypeOK
  <1>2. CallsOK'
    BY <1>1 DEF CallsOK
  <1>3. ASSUME NEW s \in Services
        PROVE  restConfig'[s] \in timed' \cup {0} \/ Completing(s)'
    <2>1. CASE c.pc = "complete" /\ c.service = s
      BY <2>1, <1>1 DEF Completing, AtCall
    <2>2. CASE restConfig'[s] \in timed' \cup {0}
      BY <2>2
    <2>3. CASE restConfig'[s] = restConfig[s] /\ restConfig'[s] \notin timed' \cup {0}
      <3>1. PICK q \in Goroutines : call[q].pc = "complete" /\ call[q].service = s
        BY <2>3 DEF FieldsSettle, Completing, AtCall
      <3>2. q # g
        BY <3>1, <2>3
      <3> QED
        BY <3>1, <3>2, <1>1 DEF Completing, AtCall
    <2> QED
      BY <2>1, <2>2, <2>3
  <1>4. ASSUME NEW s \in Services, faults' = 0
        PROVE  client'[s] # "empty" \/ Storing(s)'
    <2>1. CASE c.pc = "stored" /\ c.service = s
      BY <2>1, <1>1 DEF Storing, AtCall
    <2>2. CASE client'[s] = client[s] /\ client'[s] = "empty"
      <3>1. PICK q \in Goroutines : call[q].pc = "stored" /\ call[q].service = s
        BY <2>2, <1>4 DEF FieldsSettle, Storing, AtCall
      <3>2. q # g
        BY <3>1, <2>2, <1>4
      <3> QED
        BY <3>1, <3>2, <1>1 DEF Storing, AtCall
    <2> QED
      BY <2>1, <2>2, <1>4
  <1> QED
    BY <1>2, <1>3, <1>4 DEF FieldsSettle

\* A step that leaves the fields and neither makes a client nor leaves a field
\* unfinished.
LEMMA QuietStep ==
    ASSUME ClientTypeOK, CallsOK, FieldsSettle, NEW g \in Goroutines, NEW c \in Call,
           call' = [call EXCEPT ![g] = c], UNCHANGED fields, faults' = 0 => faults = 0,
           c.pc \notin {"store", "stored"}, call[g].pc \notin {"complete", "stored"}
    PROVE  CallsOK' /\ FieldsSettle'
  <1>1. restConfig' = restConfig /\ client' = client /\ timed' = timed
    BY DEF fields
  <1> QED
    BY <1>1, SettleKept

LEMMA CallEdits ==
    ASSUME NEW c \in Call, NEW pc, NEW x
    PROVE  /\ [c EXCEPT !.pc = pc].pc = pc
           /\ [c EXCEPT !.pc = pc].service = c.service
           /\ [c EXCEPT !.pc = pc].client = c.client
           /\ [c EXCEPT !.pc = pc, !.config = x].pc = pc
           /\ [c EXCEPT !.pc = pc, !.client = x].pc = pc
           /\ [c EXCEPT !.pc = pc, !.client = x].client = x
  BY DEF Call

LEMMA ClientSettles ==
    ASSUME ClientTypeOK, CallsOK, FieldsSettle, NEW g \in Goroutines, ClientStep(g),
           faults' = faults
    PROVE  CallsOK' /\ FieldsSettle'
  <1> DEFINE s == call[g].service
             d == call'[g]
  <1>c. /\ call[g] \in Call /\ s \in Services
        /\ \A t \in Services : restConfig[t] \in Nat /\ client[t] \in Clients
    BY DEF ClientTypeOK, Call
  <1>d. d \in Call /\ call' = [call EXCEPT ![g] = d]
    BY ClientMoves DEF Moved
  <1>m. \A c : call' = [call EXCEPT ![g] = c] => d = c
    BY DEF ClientTypeOK
  <1>n. \A pc : GoTo(g, pc) \/ EndWith(g, pc) => d.pc = pc
    <2> SUFFICES ASSUME NEW pc, GoTo(g, pc) \/ EndWith(g, pc) PROVE d.pc = pc
      OBVIOUS
    <2>1. CASE GoTo(g, pc)
      <3>1. d = [call[g] EXCEPT !.pc = pc]
        BY <2>1 DEF GoTo, ClientTypeOK
      <3> QED
        BY <1>c, <3>1, CallEdits
    <2>2. CASE EndWith(g, pc)
      <3>1. d = [NoCall EXCEPT !.pc = pc]
        BY <2>2, <1>m DEF EndWith
      <3> QED
        BY <3>1 DEF NoCall
    <2> QED
      BY <2>1, <2>2
  <1>1. CASE CheckClient(g) \/ CheckConfig(g)
    <2>1. call[g].pc \in {"client", "config"} /\ UNCHANGED fields
      BY <1>1 DEF CheckClient, CheckConfig, AtCall
    <2>2. d.pc \in {"calling", "config", "build", "load"}
      <3>1. CASE CheckClient(g)
        <4> DEFINE c == [call[g] EXCEPT !.pc = "calling", !.client = client[s]]
        <4>1. call' = [call EXCEPT ![g] = c] \/ GoTo(g, "config")
          BY <3>1 DEF CheckClient
        <4>2. c.pc = "calling"
          BY <1>c, CallEdits
        <4> HIDE DEF c, d
        <4> QED
          BY <4>1, <4>2, <1>m, <1>n
      <3>2. CASE CheckConfig(g)
        <4> DEFINE c == [call[g] EXCEPT !.pc = "build", !.config = restConfig[s]]
        <4>1. call' = [call EXCEPT ![g] = c] \/ GoTo(g, "load")
          BY <3>2 DEF CheckConfig
        <4>2. c.pc = "build"
          BY <1>c, CallEdits
        <4> HIDE DEF c, d
        <4> QED
          BY <4>1, <4>2, <1>m, <1>n
      <3> QED
        BY <1>1, <3>1, <3>2
    <2> QED
      BY <2>1, <2>2, <1>d, QuietStep
  <1>2. CASE LoadConfig(g)
    <2>1. call[g].pc = "load" /\ client' = client /\ timed' = timed
      BY <1>2 DEF LoadConfig, AtCall
    <2>2. d.pc = "complete" /\ d.service = s
      BY <1>2, <1>c DEF LoadConfig, GoTo, Call, ClientTypeOK
    <2>3. \A t \in Services : t # s => restConfig'[t] = restConfig[t]
      BY <1>2 DEF LoadConfig, ClientTypeOK
    <2> HIDE DEF s, d
    <2> QED
      BY <2>1, <2>2, <2>3, <1>d, SettleKept
  <1>3. CASE SetTimeout(g)
    <2>1. /\ call[g].pc = "complete" /\ restConfig' = restConfig /\ client' = client
          /\ timed' = timed \/ timed' = timed \cup {restConfig[s]}
          /\ restConfig[s] = 0 \/ timed' = timed \cup {restConfig[s]}
      BY <1>3 DEF SetTimeout, AtCall, Completed
    <2>2. d.pc \in {"panic", "take"}
      BY <1>3, <1>c DEF SetTimeout, GoTo, EndWith, NoCall, Call, ClientTypeOK
    <2>3. timed \subseteq timed' /\ restConfig'[call[g].service] \in timed' \cup {0}
      BY <2>1
    <2> HIDE DEF d
    <2> QED
      BY <2>1, <2>2, <2>3, <1>d, SettleKept
  <1>4. CASE TakeConfig(g)
    <2>1. call[g].pc = "take" /\ UNCHANGED fields
      BY <1>4 DEF TakeConfig, AtCall
    <2>2. d.pc \in {"panic", "build"}
      <3> DEFINE c == [call[g] EXCEPT !.pc = "build", !.config = restConfig[s]]
      <3>1. call' = [call EXCEPT ![g] = c] \/ EndWith(g, "panic")
        BY <1>4 DEF TakeConfig
      <3>2. c.pc = "build"
        BY <1>c, CallEdits
      <3> HIDE DEF c, d
      <3> QED
        BY <3>1, <3>2, <1>m, <1>n
    <2> QED
      BY <2>1, <2>2, <1>d, QuietStep
  <1>5. CASE BuildClient(g)
    <2>1. /\ call[g].pc = "build"
          /\ restConfig' = restConfig /\ client' = client /\ timed' = timed
      BY <1>5 DEF BuildClient, AtCall, fields
    <2>2. d.pc = "store" /\ d.client \in {"timed", "untimed"}
      BY <1>5, <1>c DEF BuildClient, Call, ClientTypeOK
    <2> QED
      BY <2>1, <2>2, <1>d, SettleKept
  <1>6. CASE StoreType(g)
    <2>1. call[g].pc = "store" /\ restConfig' = restConfig /\ timed' = timed
      BY <1>6 DEF StoreType, AtCall
    <2>2. d.pc = "stored" /\ d.service = s /\ d.client = call[g].client
      BY <1>6, <1>c DEF StoreType, GoTo, Call, ClientTypeOK
    <2>3. \A t \in Services : t # s => client'[t] = client[t]
      BY <1>6 DEF StoreType, ClientTypeOK
    <2>4. d.client # "empty" \/ faults # 0
      BY <2>1, <2>2 DEF CallsOK
    <2> HIDE DEF s, d
    <2> QED
      BY <2>1, <2>2, <2>3, <2>4, <1>d, SettleKept
  <1>7. CASE StorePointer(g)
    <2>1. /\ call[g].pc = "stored" /\ restConfig' = restConfig /\ timed' = timed
          /\ client' = [client EXCEPT ![s] = call[g].client]
      BY <1>7 DEF StorePointer, AtCall
    <2>2. d.pc = "read"
      BY <1>7, <1>c DEF StorePointer, GoTo, Call, ClientTypeOK
    <2>3. call[g].client # "empty" \/ faults # 0
      BY <2>1 DEF CallsOK
    <2>4. /\ \A t \in Services : t # s => client'[t] = client[t]
          /\ client'[s] # "empty" \/ faults # 0
      BY <1>c, <2>1, <2>3 DEF ClientTypeOK
    <2> HIDE DEF s, d
    <2>5. client'[call[g].service] # "empty" \/ faults # 0
      BY <2>4 DEF s
    <2> QED
      BY <2>1, <2>2, <2>4, <2>5, <1>d, SettleKept
  <1>8. CASE ReadClient(g) \/ CallPanics(g)
    <2>1. call[g].pc \in {"read", "calling"} /\ UNCHANGED fields
      BY <1>8 DEF ReadClient, CallPanics, AtCall
    <2>2. d.pc \in {"calling", "error", "panic"}
      <3>1. CASE ReadClient(g)
        <4> DEFINE c == [call[g] EXCEPT !.pc = "calling", !.client = client[s]]
        <4>1. call' = [call EXCEPT ![g] = c] \/ EndWith(g, "error")
          BY <3>1 DEF ReadClient
        <4>2. c.pc = "calling"
          BY <1>c, CallEdits
        <4> HIDE DEF c, d
        <4> QED
          BY <4>1, <4>2, <1>m, <1>n
      <3>2. CASE CallPanics(g)
        BY <3>2, <1>c DEF CallPanics, EndWith, NoCall, Call, ClientTypeOK
      <3> QED
        BY <1>8, <3>1, <3>2
    <2> QED
      BY <2>1, <2>2, <1>d, QuietStep
  <1> QED
    BY <1>1, <1>2, <1>3, <1>4, <1>5, <1>6, <1>7, <1>8 DEF ClientStep

LEMMA EndSettles ==
    ASSUME ClientTypeOK, CallsOK, FieldsSettle, NEW g \in Goroutines, NEW cancelled,
           CallReturns(g) \/ CallGivesUp(g, cancelled), faults' = faults
    PROVE  CallsOK' /\ FieldsSettle'
  <1>1. /\ call'[g] \in Call /\ call' = [call EXCEPT ![g] = call'[g]] /\ UNCHANGED fields
        /\ call'[g].pc \in {"ok", "error"}
    BY CallEndMoves DEF Moved
  <1>2. call[g].pc = "calling"
    BY DEF CallReturns, CallGivesUp, AtCall
  <1> QED
    BY <1>1, <1>2, QuietStep

LEMMA FailureSettles ==
    ASSUME ClientTypeOK, CallsOK, FieldsSettle, NEW g \in Goroutines,
           LoadFails(g) \/ BuildFails(g), faults \in Nat, faults' = faults + 1
    PROVE  CallsOK' /\ FieldsSettle'
  <1> DEFINE d == call'[g]
  <1>1. d \in Call /\ call' = [call EXCEPT ![g] = d]
    BY FailureMoves DEF Moved
  <1>2. faults' # 0
    OBVIOUS
  <1>3. /\ call[g].pc \in {"load", "build"} /\ timed' = timed
        /\ \A t \in Services : restConfig'[t] = restConfig[t] \/ restConfig'[t] = 0
    BY DEF LoadFails, BuildFails, AtCall, fields, ClientTypeOK
  <1> HIDE DEF d
  <1> QED
    BY <1>1, <1>2, <1>3, SettleKept

-----------------------------------------------------------------------------
(* What the steps of a request do to HandlerOK.                            *)

LEMMA CountTypes ==
    ASSUME NEW f \in [Indexes -> Probe]
    PROVE  /\ IsFiniteSet(Live(f)) /\ Cardinality(Live(f)) \in 0..MaxAddresses
           /\ IsFiniteSet(Sent(f)) /\ Cardinality(Sent(f)) \in Nat
  <1>1. IsFiniteSet(Indexes) /\ Cardinality(Indexes) = MaxAddresses
    BY FS_Interval, BoundsAssumption DEF Indexes
  <1>2. Live(f) \in SUBSET Indexes /\ Sent(f) \in SUBSET Indexes
    BY DEF Live, Sent
  <1>3. /\ IsFiniteSet(Live(f)) /\ Cardinality(Live(f)) <= MaxAddresses
        /\ IsFiniteSet(Sent(f))
    BY <1>1, <1>2, FS_Subset
  <1>4. Cardinality(Live(f)) \in Nat /\ Cardinality(Sent(f)) \in Nat
    BY <1>3, FS_CardinalityType
  <1> QED
    BY <1>3, <1>4, BoundsAssumption

\* A change of other fields than those that are counted.
LEMMA CountedKept ==
    ASSUME NEW h, NEW f, Counted(h, f), NEW k,
           k.spawned = h.spawned, k.addresses = h.addresses, k.wg = h.wg,
           k.channel = h.channel, k.check = h.check
    PROVE  Counted(k, f)
  BY DEF Counted

LEMMA SpawnCounts ==
    ASSUME NEW h \in Handler, NEW f \in [Indexes -> Probe], Counted(h, f),
           h.check = "spawning", h.spawned < h.addresses,
           NEW k \in Handler, k.spawned = h.spawned + 1, k.wg = h.wg + 1, k.check = h.check,
           k.addresses = h.addresses, k.channel = h.channel,
           NEW g, g = [f EXCEPT ![h.spawned + 1].pc = "asking"]
    PROVE  Counted(k, g)
  <1> DEFINE i == h.spawned + 1
  <1>1. /\ h.spawned \in 0..MaxAddresses /\ h.addresses \in 0..MaxAddresses
        /\ i \in Indexes /\ i \in Nat
    BY BoundsAssumption DEF Handler, Indexes
  <1>2. f[i].pc = "none" /\ \A j \in Indexes : f[j] \in Probe
    BY <1>1 DEF Counted
  <1>3. \A j \in Indexes : g[j] = IF j = i THEN [f[j] EXCEPT !.pc = "asking"] ELSE f[j]
    BY <1>1
  <1>4. \A j \in Indexes : g[j].pc = IF j = i THEN "asking" ELSE f[j].pc
    BY <1>2, <1>3 DEF Probe
  <1> HIDE DEF i
  <1>5. Live(g) = Live(f) \cup {i} /\ i \notin Live(f)
    BY <1>1, <1>2, <1>4 DEF Live
  <1>6. Sent(g) = Sent(f)
    BY <1>2, <1>4 DEF Sent
  <1>7. Cardinality(Live(g)) = Cardinality(Live(f)) + 1
    BY <1>5, CountTypes, FS_AddElement
  <1>8. \A j \in Indexes : g[j].pc = "none" <=> h.spawned + 1 < j
    <2> SUFFICES ASSUME NEW j \in Indexes PROVE g[j].pc = "none" <=> h.spawned + 1 < j
      OBVIOUS
    <2>1. j \in Nat /\ h.spawned \in Nat /\ (f[j].pc = "none" <=> h.spawned < j)
      BY <1>1, BoundsAssumption DEF Counted, Indexes
    <2> QED
      BY <2>1, <1>4 DEF i
  <1>9. k.spawned <= k.addresses
    BY <1>1, BoundsAssumption
  <1>10. /\ h.wg = Cardinality(Live(f)) /\ Len(h.channel) = Cardinality(Sent(f))
         /\ \A j \in Sent(f) : \E n \in 1..Len(h.channel) : h.channel[n].index = j
    BY DEF Counted
  <1>11. k.check = "spawning"
    OBVIOUS
  <1>12. \A j \in Indexes : g[j].pc = "none" <=> k.spawned < j
    BY <1>8
  <1>13. k.wg = Cardinality(Live(g)) /\ Len(k.channel) = Cardinality(Sent(g))
    BY <1>6, <1>7, <1>10
  <1>14. \A j \in Sent(g) : \E n \in 1..Len(k.channel) : k.channel[n].index = j
    BY <1>6, <1>10
  <1> QED
    BY <1>9, <1>11, <1>12, <1>13, <1>14 DEF Counted

\* How the goroutine of an address ends its request, and how it ends.
LEMMA ProbeEndCounts ==
    ASSUME NEW h \in Handler, NEW f \in [Indexes -> Probe], Counted(h, f),
           NEW i \in Indexes, f[i].pc = "asking", NEW how \in Outcomes,
           NEW g, g = [f EXCEPT ![i] = [pc |-> "sending", outcome |-> how]]
    PROVE  Counted(h, g)
  <1>1. \A j \in Indexes : g[j].pc = IF j = i THEN "sending" ELSE f[j].pc
    OBVIOUS
  <1>2. Live(g) = Live(f) /\ Sent(g) = Sent(f)
    BY <1>1 DEF Live, Sent
  <1>3. \A j \in Indexes : g[j].pc = "none" <=> f[j].pc = "none"
    BY <1>1
  <1> QED
    BY <1>2, <1>3 DEF Counted

LEMMA SendCounts ==
    ASSUME NEW h \in Handler, NEW f \in [Indexes -> Probe], Counted(h, f),
           NEW i \in Indexes, f[i].pc = "sending",
           NEW check \in Check, check.index = i,
           NEW k \in Handler, k.channel = Append(h.channel, check), k.spawned = h.spawned,
           k.wg = h.wg, k.check = h.check, k.addresses = h.addresses,
           NEW g, g = [f EXCEPT ![i].pc = "sent"]
    PROVE  Counted(k, g)
  <1>1. \A j \in Indexes : f[j] \in Probe
    OBVIOUS
  <1>2. \A j \in Indexes : g[j].pc = IF j = i THEN "sent" ELSE f[j].pc
    BY <1>1 DEF Probe
  <1>3. Live(g) = Live(f)
    BY <1>2 DEF Live
  <1>4. Sent(g) = Sent(f) \cup {i} /\ i \notin Sent(f)
    BY <1>2 DEF Sent
  <1>5. Cardinality(Sent(g)) = Cardinality(Sent(f)) + 1
    BY <1>4, CountTypes, FS_AddElement
  <1>6. h.channel \in Seq(Check)
    BY DEF Handler
  <1>7. /\ Len(k.channel) = Len(h.channel) + 1 /\ Len(h.channel) \in Nat
        /\ \A j \in 1..Len(h.channel) : k.channel[j] = h.channel[j]
        /\ k.channel[Len(h.channel) + 1] = check
    BY <1>6, AppendProperties, LenProperties
  <1>8. \A j \in Sent(g) : \E n \in 1..Len(k.channel) : k.channel[n].index = j
    <2> SUFFICES ASSUME NEW j \in Sent(g)
                 PROVE  \E n \in 1..Len(k.channel) : k.channel[n].index = j
      OBVIOUS
    <2>1. CASE j = i
      BY <2>1, <1>7
    <2>2. CASE j \in Sent(f)
      <3>1. PICK n \in 1..Len(h.channel) : h.channel[n].index = j
        BY <2>2 DEF Counted
      <3> QED
        BY <3>1, <1>7
    <2> QED
      BY <2>1, <2>2, <1>4
  <1>9. \A j \in Indexes : g[j].pc = "none" <=> f[j].pc = "none"
    BY <1>2
  <1> QED
    BY <1>3, <1>5, <1>7, <1>8, <1>9 DEF Counted

LEMMA DoneCounts ==
    ASSUME NEW h \in Handler, NEW f \in [Indexes -> Probe], Counted(h, f),
           NEW i \in Indexes, f[i].pc = "sent",
           NEW k, k.wg = h.wg - 1, k.channel = h.channel, k.spawned = h.spawned,
           k.check = h.check, k.addresses = h.addresses,
           NEW g, g = [f EXCEPT ![i].pc = "over"]
    PROVE  Counted(k, g)
  <1>1. \A j \in Indexes : f[j] \in Probe
    OBVIOUS
  <1>2. \A j \in Indexes : g[j].pc = IF j = i THEN "over" ELSE f[j].pc
    BY <1>1 DEF Probe
  <1>3. Live(g) = Live(f) \ {i} /\ i \in Live(f)
    BY <1>2 DEF Live
  <1>4. Sent(g) = Sent(f)
    BY <1>2 DEF Sent
  <1>5. Cardinality(Live(g)) = Cardinality(Live(f)) - 1
    <2>1. IsFiniteSet(Live(f)) /\ Cardinality(Live(f)) \in Nat
      BY CountTypes
    <2>2. i \in Live(f)
      BY <1>3
    <2>3. Cardinality(Live(f) \ {i}) = Cardinality(Live(f)) - 1
      BY <2>1, <2>2, FS_RemoveElement, Zenon
    <2> QED
      BY <1>3, <2>3
  <1>6. \A j \in Indexes : g[j].pc = "none" <=> f[j].pc = "none"
    BY <1>2
  <1>7. k.check # "spawning" => Live(g) = {}
    BY <1>3 DEF Counted
  <1>8. k.wg = Cardinality(Live(g)) /\ Len(k.channel) = Cardinality(Sent(g))
    BY <1>4, <1>5 DEF Counted
  <1>9. \A j \in Indexes : g[j].pc = "none" <=> k.spawned < j
    BY <1>6 DEF Counted
  <1>10. \A j \in Sent(g) : \E n \in 1..Len(k.channel) : k.channel[n].index = j
    BY <1>4 DEF Counted
  <1>11. /\ k.spawned <= k.addresses
         /\ k.check = "ok" => k.spawned = k.addresses
         /\ k.check \in {"none", "getting", "error"} => k.addresses = 0
    BY DEF Counted
  <1> QED
    BY <1>7, <1>8, <1>9, <1>10, <1>11 DEF Counted

\* When the count is zero every goroutine has ended.
LEMMA WaitedCounts ==
    ASSUME NEW h \in Handler, NEW f \in [Indexes -> Probe], Counted(h, f),
           h.wg = 0, h.spawned = h.addresses,
           NEW k, k.check = "ok", k.wg = h.wg, k.channel = h.channel, k.spawned = h.spawned,
           k.addresses = h.addresses
    PROVE  Counted(k, f)
  <1>1. Live(f) = {}
    BY CountTypes, FS_EmptySet DEF Counted
  <1> QED
    BY <1>1 DEF Counted

-----------------------------------------------------------------------------
(* Steps of one request.                                                   *)

\* Nothing of another request changes.
OnlyOf(p) ==
    \A q \in Handlers \ {p} :
        /\ handler'[q] = handler[q]
        /\ ProbesIn(probe', q) = ProbesIn(probe, q)
        /\ CallsIn(call', q) = CallsIn(call, q)

LEMMA OthersKept ==
    ASSUME HandlersOK, NEW p \in Handlers, OnlyOf(p),
           HandlerOK(handler'[p], ProbesIn(probe', p), CallsIn(call', p))
    PROVE  HandlersOK'
  BY DEF HandlersOK, OnlyOf

LEMMA OneCall ==
    ASSUME NEW f \in [Goroutines -> Call], NEW p \in Handlers, NEW part \in Parts, NEW c,
           NEW g, g = [f EXCEPT ![<<p, part>>] = c]
    PROVE  /\ CallsIn(g, p) = [CallsIn(f, p) EXCEPT ![part] = c]
           /\ \A q \in Handlers \ {p} : CallsIn(g, q) = CallsIn(f, q)
  BY DEF CallsIn, Goroutines

LEMMA OneProbe ==
    ASSUME NEW f \in [Handlers \X Indexes -> Probe], NEW p \in Handlers, NEW i \in Indexes,
           NEW x \in Probe, NEW g, g = [f EXCEPT ![<<p, i>>] = x]
    PROVE  /\ ProbesIn(g, p) = [ProbesIn(f, p) EXCEPT ![i] = x]
           /\ \A q \in Handlers \ {p} : ProbesIn(g, q) = ProbesIn(f, q)
           /\ g \in [Handlers \X Indexes -> Probe]
  BY DEF ProbesIn

LEMMA InTypes ==
    ASSUME TypeOK, NEW p \in Handlers
    PROVE  /\ handler[p] \in Handler
           /\ ProbesIn(probe, p) \in [Indexes -> Probe]
           /\ CallsIn(call, p) \in [Parts -> Call]
           /\ \A part \in Parts : CallsIn(call, p)[part] = call[<<p, part>>]
           /\ \A i \in Indexes : ProbesIn(probe, p)[i] = probe[<<p, i>>]
  BY DEF TypeOK, ClientTypeOK, ProbesIn, CallsIn, Goroutines

\* A step of a call of the router, for the request.
LEMMA CallStepOK ==
    ASSUME TypeOK, HandlersOK, NEW g \in Goroutines, Moved(g), UNCHANGED <<handler, probe>>
    PROVE  HandlersOK'
  <1> DEFINE p == g[1]
             part == g[2]
             c == CallsIn(call, p)
             d == CallsIn(call', p)
  <1>1. p \in Handlers /\ part \in Parts /\ g = <<p, part>>
    BY DEF Goroutines
  <1>2. call \in [Goroutines -> Call] /\ call' = [call EXCEPT ![<<p, part>>] = call'[g]]
    BY <1>1 DEF TypeOK, ClientTypeOK, Moved
  <1>3. OnlyOf(p) /\ d = [c EXCEPT ![part] = call'[g]]
    BY <1>1, <1>2, OneCall DEF OnlyOf
  <1>4. c[part].pc # "idle" /\ d[part].pc # "idle" /\ c \in [Parts -> Call]
    BY <1>1, <1>3, InTypes DEF Moved
  <1>5. HandlerOK(handler[p], ProbesIn(probe, p), c)
    BY <1>1 DEF HandlersOK
  <1> HIDE DEF p, part, c, d
  <1>6. \A q \in Parts : d[q].pc # "idle" => c[q].pc # "idle"
    BY <1>1, <1>3, <1>4
  <1>7. Placed(handler[p], d)
    BY <1>5, <1>6 DEF HandlerOK, Placed, Parts
  <1>8. HandlerOK(handler'[p], ProbesIn(probe', p), d)
    BY <1>5, <1>7 DEF HandlerOK
  <1> QED
    BY <1>1, <1>3, <1>8, OthersKept DEF d

\* A step of a request that ends a call of it: what is left to show.
LEMMA EndedCall ==
    ASSUME TypeOK, HandlersOK, NEW p \in Handlers, NEW part \in Parts,
           call' = [call EXCEPT ![<<p, part>>] = NoCall],
           NEW h \in Handler, handler' = [handler EXCEPT ![p] = h], probe' = probe,
           h.spawned = handler[p].spawned, h.wg = handler[p].wg,
           h.channel = handler[p].channel, h.gone = handler[p].gone,
           h.first = handler[p].first \/ h.first # "none",
           Placed(h, [CallsIn(call, p) EXCEPT ![part] = NoCall]),
           Counted(h, ProbesIn(probe, p)), Answered(h, ProbesIn(probe, p))
    PROVE  HandlersOK' /\ handler' \in [Handlers -> Handler]
  <1> DEFINE f == ProbesIn(probe, p)
  <1>1. handler[p] \in Handler /\ call \in [Goroutines -> Call]
    BY DEF TypeOK, ClientTypeOK
  <1>2. /\ CallsIn(call', p) = [CallsIn(call, p) EXCEPT ![part] = NoCall]
        /\ OnlyOf(p) /\ handler'[p] = h /\ handler' \in [Handlers -> Handler]
    <2>1. /\ CallsIn(call', p) = [CallsIn(call, p) EXCEPT ![part] = NoCall]
          /\ \A q \in Handlers \ {p} : CallsIn(call', q) = CallsIn(call, q)
      BY <1>1 DEF CallsIn, Goroutines
    <2>2. /\ handler'[p] = h /\ handler' \in [Handlers -> Handler]
          /\ \A q \in Handlers \ {p} : handler'[q] = handler[q]
      BY DEF TypeOK
    <2> QED
      BY <2>1, <2>2 DEF OnlyOf
  <1>3. Cut(handler[p], f)
    BY DEF HandlersOK, HandlerOK
  <1>4. Cut(h, f)
    BY <1>3 DEF Cut
  <1>5. HandlerOK(handler'[p], ProbesIn(probe', p), CallsIn(call', p))
    BY <1>2, <1>4 DEF HandlerOK
  <1> QED
    BY <1>2, <1>5, OthersKept

LEMMA MethodReturnsOK ==
    ASSUME TypeOK, HandlersOK, NEW p \in Handlers, MethodReturns(p)
    PROVE  HandlersOK' /\ handler' \in [Handlers -> Handler]
  <1> DEFINE h == handler[p]
             f == ProbesIn(probe, p)
             c == CallsIn(call, p)
             a == IF call[<<p, "main">>].pc = "ok" THEN "ok" ELSE "error"
             k == [h EXCEPT !.pc = "answered", !.answer = a]
  <1>1. /\ call' = [call EXCEPT ![<<p, "main">>] = NoCall] /\ probe' = probe
        /\ handler' = [handler EXCEPT ![p] = k]
        /\ call[<<p, "main">>].pc \in CallEnds
    BY DEF MethodReturns
  <1>2. h \in Handler /\ c["main"].pc # "idle" /\ c \in [Parts -> Call]
    BY <1>1, InTypes, StepNames DEF Parts
  <1>3. HandlerOK(h, f, c)
    BY DEF HandlersOK
  <1>4. /\ k \in Handler /\ k.pc = "answered"
        /\ k.req = h.req /\ k.gone = h.gone /\ k.first = h.first
        /\ k.check = h.check /\ k.status = h.status /\ k.addresses = h.addresses
        /\ k.spawned = h.spawned /\ k.wg = h.wg /\ k.channel = h.channel
    <2>1. a \in {"ok", "error"}
      OBVIOUS
    <2> HIDE DEF h, a
    <2> QED
      BY <1>2, <2>1 DEF Handler
  <1>5. h.pc = "working" /\ h.check = "none" /\ h.status = "none"
    BY <1>2, <1>3 DEF HandlerOK, Placed
  <1> HIDE DEF h, c, f, a, k
  <1>6. Placed(k, [c EXCEPT !["main"] = NoCall])
    BY <1>2, <1>3, <1>4, <1>5 DEF HandlerOK, Placed, Parts, NoCall
  <1>7. Counted(k, f)
    BY <1>3, <1>4, CountedKept DEF HandlerOK
  <1>8. Answered(k, f)
    BY <1>3, <1>4, <1>5 DEF HandlerOK, Answered
  <1>9. "main" \in Parts
    BY DEF Parts
  <1> QED
    BY <1>1, <1>4, <1>6, <1>7, <1>8, <1>9, EndedCall DEF h, c, f

LEMMA StatusReturnsOK ==
    ASSUME TypeOK, HandlersOK, NEW p \in Handlers, StatusReturns(p)
    PROVE  HandlersOK' /\ handler' \in [Handlers -> Handler]
  <1> DEFINE h == handler[p]
             f == ProbesIn(probe, p)
             c == CallsIn(call, p)
             a == call[<<p, "status">>].pc
             e == FirstError(p, "status", a)
             k == [h EXCEPT !.status = a, !.first = e]
  <1>1. /\ call' = [call EXCEPT ![<<p, "status">>] = NoCall] /\ probe' = probe
        /\ handler' = [handler EXCEPT ![p] = k]
        /\ a \in {"ok", "error"}
    BY DEF StatusReturns
  <1>2. h \in Handler /\ c["status"].pc # "idle" /\ c \in [Parts -> Call]
    BY <1>1, InTypes DEF Parts
  <1>3. HandlerOK(h, f, c)
    BY DEF HandlersOK
  <1>4. e \in {"none", "check", "status"} /\ (e = h.first \/ e # "none")
    BY <1>2 DEF FirstError, Handler
  <1>5. /\ k \in Handler /\ k.pc = h.pc /\ k.answer = h.answer
        /\ k.req = h.req /\ k.gone = h.gone /\ k.first = e
        /\ k.check = h.check /\ k.addresses = h.addresses
        /\ k.spawned = h.spawned /\ k.wg = h.wg /\ k.channel = h.channel
    <2> HIDE DEF h, a, e
    <2> QED
      BY <1>1, <1>2, <1>4 DEF Handler
  <1>6. h.pc = "working" /\ h.status = "getting"
    BY <1>2, <1>3 DEF HandlerOK, Placed
  <1> HIDE DEF h, c, f, a, e, k
  <1>7. Placed(k, [c EXCEPT !["status"] = NoCall])
    BY <1>2, <1>3, <1>5, <1>6 DEF HandlerOK, Placed, Parts, NoCall
  <1>8. Counted(k, f)
    BY <1>3, <1>5, CountedKept DEF HandlerOK
  <1>9. Answered(k, f)
    BY <1>3, <1>4, <1>5, <1>6 DEF HandlerOK, Answered
  <1>10. "status" \in Parts
    BY DEF Parts
  <1> QED
    BY <1>1, <1>4, <1>5, <1>7, <1>8, <1>9, <1>10, EndedCall DEF h, c, f

LEMMA AddressesReturnOK ==
    ASSUME TypeOK, HandlersOK, NEW p \in Handlers, AddressesReturn(p)
    PROVE  HandlersOK' /\ handler' \in [Handlers -> Handler]
  <1> DEFINE h == handler[p]
             f == ProbesIn(probe, p)
             c == CallsIn(call, p)
             e == FirstError(p, "check", "error")
             failed == [h EXCEPT !.check = "error", !.first = e]
             got(n) == [h EXCEPT !.check = "spawning", !.addresses = n]
  <1>1. /\ call' = [call EXCEPT ![<<p, "check">>] = NoCall] /\ probe' = probe
        /\ call[<<p, "check">>].pc \in {"ok", "error"}
        /\ \/ handler' = [handler EXCEPT ![p] = failed]
           \/ \E n \in 0..MaxAddresses : handler' = [handler EXCEPT ![p] = got(n)]
    BY DEF AddressesReturn
  <1>2. h \in Handler /\ c["check"].pc # "idle" /\ c \in [Parts -> Call] /\ f \in [Indexes -> Probe]
    BY <1>1, InTypes DEF Parts
  <1>3. HandlerOK(h, f, c)
    BY DEF HandlersOK
  <1>4. h.pc = "working" /\ h.check = "getting" /\ c["main"].pc = "idle"
    BY <1>2, <1>3 DEF HandlerOK, Placed
  <1>5. e \in {"none", "check", "status"} /\ e # "none" /\ "check" \in Parts
    BY <1>2 DEF FirstError, Handler, Parts
  <1>6. h.addresses = 0 /\ h.spawned = 0 /\ Live(f) = {}
    BY <1>2, <1>3, <1>4 DEF HandlerOK, Counted, Handler
  <1>7. CASE handler' = [handler EXCEPT ![p] = failed]
    <2>1. /\ failed \in Handler /\ failed.pc = h.pc /\ failed.answer = h.answer
          /\ failed.req = h.req /\ failed.gone = h.gone /\ failed.first = e
          /\ failed.check = "error" /\ failed.status = h.status
          /\ failed.addresses = h.addresses
          /\ failed.spawned = h.spawned /\ failed.wg = h.wg /\ failed.channel = h.channel
      <3> HIDE DEF h, e
      <3> QED
        BY <1>2, <1>5 DEF Handler
    <2> HIDE DEF h, c, f, e, failed
    <2>2. Placed(failed, [c EXCEPT !["check"] = NoCall])
      BY <1>2, <1>3, <1>4, <2>1 DEF HandlerOK, Placed, Parts, NoCall
    <2>3. Counted(failed, f)
      BY <1>3, <1>6, <2>1 DEF HandlerOK, Counted
    <2>4. Answered(failed, f)
      BY <1>3, <1>4, <1>5, <2>1 DEF HandlerOK, Answered
    <2> QED
      BY <1>1, <1>5, <1>7, <2>1, <2>2, <2>3, <2>4, EndedCall DEF h, c, f
  <1>8. ASSUME NEW n \in 0..MaxAddresses, handler' = [handler EXCEPT ![p] = got(n)]
        PROVE  HandlersOK' /\ handler' \in [Handlers -> Handler]
    <2> DEFINE k == got(n)
    <2>1. /\ k \in Handler /\ k.pc = h.pc /\ k.answer = h.answer
          /\ k.req = h.req /\ k.gone = h.gone /\ k.first = h.first
          /\ k.check = "spawning" /\ k.status = h.status /\ k.addresses = n
          /\ k.spawned = h.spawned /\ k.wg = h.wg /\ k.channel = h.channel
      <3> HIDE DEF h
      <3> QED
        BY <1>2, <1>8 DEF Handler
    <2>p. handler' = [handler EXCEPT ![p] = k]
      BY <1>8
    <2> HIDE DEF h, c, f, e, got, k
    <2>2. Placed(k, [c EXCEPT !["check"] = NoCall])
      BY <1>2, <1>3, <1>4, <2>1 DEF HandlerOK, Placed, Parts, NoCall
    <2>3. Counted(k, f)
      <3>1. Counted(h, f) /\ n >= 0
        BY <1>3, BoundsAssumption DEF HandlerOK
      <3> QED
        BY <1>6, <2>1, <3>1 DEF Counted
    <2>4. Answered(k, f)
      BY <1>3, <1>4, <2>1 DEF HandlerOK, Answered
    <2> QED
      BY <1>1, <1>5, <2>p, <2>1, <2>2, <2>3, <2>4, EndedCall DEF h, c, f
  <1> QED
    BY <1>1, <1>7, <1>8

\* A step of a request that leaves its calls: what is left to show.
LEMMA OwnStep ==
    ASSUME TypeOK, HandlersOK, NEW p \in Handlers, UNCHANGED call,
           NEW h \in Handler, handler' = [handler EXCEPT ![p] = h],
           \A q \in Handlers \ {p} : ProbesIn(probe', q) = ProbesIn(probe, q),
           Placed(h, CallsIn(call, p)),
           Counted(h, ProbesIn(probe', p)), Cut(h, ProbesIn(probe', p)),
           Answered(h, ProbesIn(probe', p))
    PROVE  HandlersOK' /\ handler' \in [Handlers -> Handler]
  <1>1. /\ handler'[p] = h /\ handler' \in [Handlers -> Handler]
        /\ \A q \in Handlers \ {p} : handler'[q] = handler[q]
    BY DEF TypeOK
  <1>2. OnlyOf(p) /\ HandlerOK(handler'[p], ProbesIn(probe', p), CallsIn(call', p))
    BY <1>1 DEF OnlyOf, HandlerOK
  <1> QED
    BY <1>1, <1>2, OthersKept

LEMMA GoAwayOK ==
    ASSUME TypeOK, HandlersOK, NEW p \in Handlers, GoAway(p)
    PROVE  HandlersOK' /\ handler' \in [Handlers -> Handler]
  <1> DEFINE h == handler[p]
             f == ProbesIn(probe, p)
             c == CallsIn(call, p)
             k == [h EXCEPT !.gone = "yes"]
  <1>1. /\ UNCHANGED call /\ probe' = probe /\ handler' = [handler EXCEPT ![p] = k]
    BY InTypes DEF GoAway, clientVars, Handler, TypeOK
  <1>2. h \in Handler /\ HandlerOK(h, f, c)
    BY InTypes DEF HandlersOK
  <1>3. /\ k \in Handler /\ k.pc = h.pc /\ k.answer = h.answer
        /\ k.req = h.req /\ k.gone = "yes" /\ k.first = h.first
        /\ k.check = h.check /\ k.status = h.status /\ k.addresses = h.addresses
        /\ k.spawned = h.spawned /\ k.wg = h.wg /\ k.channel = h.channel
    <2> HIDE DEF h
    <2> QED
      BY <1>2 DEF Handler, YesNo
  <1> HIDE DEF h, c, f, k
  <1>4. Placed(k, c) /\ Answered(k, f) /\ Cut(k, f)
    BY <1>2, <1>3 DEF HandlerOK, Placed, Answered, Cut
  <1>5. Counted(k, f)
    BY <1>2, <1>3, CountedKept DEF HandlerOK
  <1> QED
    BY <1>1, <1>3, <1>4, <1>5, OwnStep DEF h, c, f

LEMMA SpawnOK ==
    ASSUME TypeOK, HandlersOK, NEW p \in Handlers, Spawn(p)
    PROVE  /\ HandlersOK' /\ handler' \in [Handlers -> Handler]
           /\ probe' \in [Handlers \X Indexes -> Probe]
  <1> DEFINE h == handler[p]
             f == ProbesIn(probe, p)
             c == CallsIn(call, p)
             i == h.spawned + 1
             x == [probe[<<p, i>>] EXCEPT !.pc = "asking"]
             g == [f EXCEPT ![i].pc = "asking"]
             k == [h EXCEPT !.spawned = @ + 1, !.wg = @ + 1]
  <1>1. /\ h \in Handler /\ f \in [Indexes -> Probe] /\ HandlerOK(h, f, c)
        /\ probe \in [Handlers \X Indexes -> Probe]
    BY InTypes DEF HandlersOK, TypeOK
  <1>2. h.check = "spawning" /\ h.spawned < h.addresses /\ UNCHANGED call
    BY DEF Spawn, clientVars
  <1>3. /\ h.spawned \in 0..MaxAddresses /\ h.addresses \in 0..MaxAddresses
        /\ h.wg \in Nat
    BY <1>1, BoundsAssumption DEF Handler
  <1>4. i \in Indexes /\ h.spawned + 1 \in 0..MaxAddresses
    BY <1>2, <1>3, BoundsAssumption DEF Indexes
  <1>5. handler' = [handler EXCEPT ![p] = k]
    BY DEF Spawn, Added, TypeOK, Handler
  <1>6. probe' = [probe EXCEPT ![<<p, i>>] = x] /\ x = [f[i] EXCEPT !.pc = "asking"] /\ x \in Probe
    BY <1>1, <1>4 DEF Spawn, ProbesIn, Probe
  <1>7. /\ ProbesIn(probe', p) = g
        /\ \A q \in Handlers \ {p} : ProbesIn(probe', q) = ProbesIn(probe, q)
        /\ probe' \in [Handlers \X Indexes -> Probe]
    <2>1. g = [f EXCEPT ![i] = x]
      BY <1>6
    <2> HIDE DEF x, i, g, f, h
    <2> QED
      BY <1>1, <1>4, <1>6, <2>1 DEF f, ProbesIn
  <1>8. g \in [Indexes -> Probe] /\ \A j \in Indexes : g[j].outcome = f[j].outcome
    BY <1>1 DEF Probe
  <1>9. f[i].pc = "none"
    BY <1>1, <1>3, <1>4 DEF HandlerOK, Counted
  <1>10. h.wg + 1 \in 0..MaxAddresses
    <2>1. Live(g) = Live(f) \cup {i} /\ i \notin Live(f)
      BY <1>1, <1>4, <1>9 DEF Live, Probe
    <2> HIDE DEF g, f, i, h
    <2>2. Cardinality(Live(g)) = Cardinality(Live(f)) + 1
      BY <1>1, <2>1, CountTypes, FS_AddElement
    <2> QED
      BY <1>1, <1>8, <2>2, CountTypes DEF HandlerOK, Counted
  <1>11. /\ k \in Handler /\ k.pc = h.pc /\ k.answer = h.answer
         /\ k.req = h.req /\ k.gone = h.gone /\ k.first = h.first
         /\ k.check = h.check /\ k.status = h.status /\ k.addresses = h.addresses
         /\ k.spawned = h.spawned + 1 /\ k.wg = h.wg + 1 /\ k.channel = h.channel
    <2> HIDE DEF h
    <2> QED
      BY <1>1, <1>4, <1>10 DEF Handler
  <1>12. g = [f EXCEPT ![h.spawned + 1].pc = "asking"]
    OBVIOUS
  <1> HIDE DEF h, c, f, g, k, x, i
  <1>13. Counted(k, g)
    BY <1>1, <1>2, <1>11, <1>12, SpawnCounts DEF HandlerOK
  <1>14. Placed(k, c)
    BY <1>1, <1>11 DEF HandlerOK, Placed
  <1>15. Cut(k, g)
    BY <1>1, <1>8, <1>11 DEF HandlerOK, Cut
  <1>16. k.pc # "idle"
    BY <1>1, <1>2, <1>11 DEF HandlerOK, Answered
  <1>17. Answered(k, g)
    BY <1>1, <1>2, <1>11, <1>16 DEF HandlerOK, Answered
  <1> QED
    BY <1>2, <1>5, <1>7, <1>11, <1>13, <1>14, <1>15, <1>17, OwnStep DEF h, c

LEMMA ProbeEndsOK ==
    ASSUME TypeOK, HandlersOK, NEW p \in Handlers, NEW i \in Indexes, ProbeEnds(p, i)
    PROVE  /\ HandlersOK' /\ handler' \in [Handlers -> Handler]
           /\ probe' \in [Handlers \X Indexes -> Probe]
  <1> DEFINE h == handler[p]
             f == ProbesIn(probe, p)
             c == CallsIn(call, p)
             x(how) == [pc |-> "sending", outcome |-> how]
  <1>1. PICK how \in Outcomes : /\ how = "cancelled" => Cancelled(p)
                                /\ probe' = [probe EXCEPT ![<<p, i>>] = x(how)]
    BY DEF ProbeEnds
  <1> DEFINE g == [f EXCEPT ![i] = x(how)]
  <1>2. /\ h \in Handler /\ f \in [Indexes -> Probe] /\ HandlerOK(h, f, c)
        /\ probe \in [Handlers \X Indexes -> Probe]
        /\ f[i].pc = "asking" /\ UNCHANGED <<call, handler>>
    BY InTypes DEF HandlersOK, TypeOK, ProbeEnds, AtProbe, clientVars
  <1>3. x(how) \in Probe
    BY DEF Probe
  <1>4. /\ ProbesIn(probe', p) = g
        /\ \A q \in Handlers \ {p} : ProbesIn(probe', q) = ProbesIn(probe, q)
        /\ probe' \in [Handlers \X Indexes -> Probe]
    <2> HIDE DEF x
    <2> QED
      BY <1>1, <1>2, <1>3 DEF ProbesIn
  <1>5. handler' = [handler EXCEPT ![p] = h]
    BY <1>2 DEF TypeOK
  <1>6. \A j \in Indexes : j # i => g[j] = f[j]
    BY <1>2
  <1>7. g[i].outcome = how /\ (how = "own" \/ h.gone = "yes" \/ h.first # "none")
    BY <1>1, <1>2 DEF Cancelled, Outcomes
  <1>8. g = [f EXCEPT ![i] = [pc |-> "sending", outcome |-> how]]
    OBVIOUS
  <1> HIDE DEF h, c, f, g, x
  <1>9. Counted(h, g)
    BY <1>2, <1>8, ProbeEndCounts DEF HandlerOK
  <1>10. Cut(h, g)
    BY <1>2, <1>6, <1>7 DEF HandlerOK, Cut
  <1>11. Answered(h, g) /\ Placed(h, c)
    <2>1. h.pc # "idle"
      BY <1>2 DEF HandlerOK, Answered, NoProbe
    <2> QED
      BY <1>2, <2>1 DEF HandlerOK, Answered
  <1> QED
    BY <1>2, <1>4, <1>5, <1>9, <1>10, <1>11, OwnStep DEF h, c

LEMMA ProbeSendsOK ==
    ASSUME TypeOK, HandlersOK, NEW p \in Handlers, NEW i \in Indexes, ProbeSends(p, i)
    PROVE  /\ HandlersOK' /\ handler' \in [Handlers -> Handler]
           /\ probe' \in [Handlers \X Indexes -> Probe]
  <1> DEFINE h == handler[p]
             f == ProbesIn(probe, p)
             c == CallsIn(call, p)
             x == [f[i] EXCEPT !.pc = "sent"]
             check == [index |-> i, outcome |-> f[i].outcome]
             k == [h EXCEPT !.channel = Append(@, check)]
             g == [f EXCEPT ![i].pc = "sent"]
  <1>1. /\ h \in Handler /\ f \in [Indexes -> Probe] /\ HandlerOK(h, f, c)
        /\ probe \in [Handlers \X Indexes -> Probe] /\ f[i] = probe[<<p, i>>]
        /\ f[i].pc = "sending" /\ h.check # "ok" /\ UNCHANGED call
    BY InTypes DEF HandlersOK, TypeOK, ProbeSends, AtProbe, clientVars
  <1>2. check \in Check /\ check.index = i /\ check.outcome = f[i].outcome /\ x \in Probe
    BY <1>1 DEF Probe, Check
  <1>3. handler' = [handler EXCEPT ![p] = k] /\ probe' = [probe EXCEPT ![<<p, i>>] = x]
    BY <1>1 DEF ProbeSends, TypeOK
  <1>4. g = [f EXCEPT ![i] = x]
    OBVIOUS
  <1>5. /\ ProbesIn(probe', p) = g
        /\ \A q \in Handlers \ {p} : ProbesIn(probe', q) = ProbesIn(probe, q)
        /\ probe' \in [Handlers \X Indexes -> Probe]
    <2> HIDE DEF x, g, h
    <2> QED
      BY <1>1, <1>2, <1>3, <1>4 DEF f, ProbesIn
  <1>6. \A j \in Indexes : g[j].outcome = f[j].outcome
    BY <1>1 DEF Probe
  <1>7. /\ k \in Handler /\ k.pc = h.pc /\ k.answer = h.answer
        /\ k.req = h.req /\ k.gone = h.gone /\ k.first = h.first
        /\ k.check = h.check /\ k.status = h.status /\ k.addresses = h.addresses
        /\ k.spawned = h.spawned /\ k.wg = h.wg /\ k.channel = Append(h.channel, check)
    <2> DEFINE channel == Append(h.channel, check)
    <2> HIDE DEF h, check
    <2>1. h.channel \in Seq(Check)
      BY <1>1 DEF Handler
    <2>2. channel \in Seq(Check)
      BY <1>2, <2>1, AppendProperties
    <2>3. k = [h EXCEPT !.channel = channel]
      OBVIOUS
    <2> HIDE DEF channel, k
    <2>4. /\ k \in Handler /\ k.pc = h.pc /\ k.answer = h.answer
          /\ k.req = h.req /\ k.gone = h.gone /\ k.first = h.first
          /\ k.check = h.check /\ k.status = h.status /\ k.addresses = h.addresses
          /\ k.spawned = h.spawned /\ k.wg = h.wg /\ k.channel = channel
      BY <1>1, <2>2, <2>3 DEF Handler
    <2> QED
      BY <2>4 DEF channel
  <1>8. g = [f EXCEPT ![i].pc = "sent"]
    OBVIOUS
  <1> HIDE DEF h, c, f, g, k, x, check
  <1>9. Counted(k, g)
    BY <1>1, <1>2, <1>7, <1>8, SendCounts DEF HandlerOK
  <1>10. Cut(k, g)
    <2>1. h.channel \in Seq(Check)
      BY <1>1 DEF Handler
    <2>2. /\ Len(k.channel) = Len(h.channel) + 1 /\ Len(h.channel) \in Nat
          /\ \A j \in 1..Len(h.channel) : k.channel[j] = h.channel[j]
          /\ k.channel[Len(h.channel) + 1] = check
      BY <1>2, <1>7, <2>1, AppendProperties, LenProperties
    <2>3. CASE h.gone = "yes" \/ h.first # "none"
      BY <1>7, <2>3 DEF Cut
    <2>4. CASE /\ \A j \in Indexes : f[j].outcome = "own"
               /\ \A j \in 1..Len(h.channel) : h.channel[j].outcome = "own"
      <3>1. \A j \in 1..Len(k.channel) : k.channel[j].outcome = "own"
        BY <1>2, <2>2, <2>4
      <3> QED
        BY <1>6, <2>4, <3>1 DEF Cut
    <2> QED
      BY <1>1, <2>3, <2>4 DEF HandlerOK, Cut
  <1>11. Answered(k, g) /\ Placed(k, c)
    <2>1. h.pc # "idle"
      BY <1>1 DEF HandlerOK, Answered, NoProbe
    <2> QED
      BY <1>1, <1>7, <2>1 DEF HandlerOK, Answered, Placed
  <1> QED
    BY <1>1, <1>3, <1>5, <1>7, <1>9, <1>10, <1>11, OwnStep DEF h, c

LEMMA ProbeDoneOK ==
    ASSUME TypeOK, HandlersOK, NEW p \in Handlers, NEW i \in Indexes, ProbeDone(p, i)
    PROVE  /\ HandlersOK' /\ handler' \in [Handlers -> Handler]
           /\ probe' \in [Handlers \X Indexes -> Probe]
  <1> DEFINE h == handler[p]
             f == ProbesIn(probe, p)
             c == CallsIn(call, p)
             x == [f[i] EXCEPT !.pc = "over"]
             k == [h EXCEPT !.wg = @ - 1]
             g == [f EXCEPT ![i].pc = "over"]
  <1>1. /\ h \in Handler /\ f \in [Indexes -> Probe] /\ HandlerOK(h, f, c)
        /\ probe \in [Handlers \X Indexes -> Probe] /\ f[i] = probe[<<p, i>>]
        /\ f[i].pc = "sent" /\ UNCHANGED call
    BY InTypes DEF HandlersOK, TypeOK, ProbeDone, AtProbe, clientVars
  <1>2. x \in Probe
    BY <1>1 DEF Probe
  <1>3. handler' = [handler EXCEPT ![p] = k] /\ probe' = [probe EXCEPT ![<<p, i>>] = x]
    BY <1>1 DEF ProbeDone, TypeOK
  <1>4. g = [f EXCEPT ![i] = x]
    OBVIOUS
  <1>5. /\ ProbesIn(probe', p) = g
        /\ \A q \in Handlers \ {p} : ProbesIn(probe', q) = ProbesIn(probe, q)
        /\ probe' \in [Handlers \X Indexes -> Probe]
    <2> HIDE DEF x, g, h
    <2> QED
      BY <1>1, <1>2, <1>3, <1>4 DEF f, ProbesIn
  <1>6. \A j \in Indexes : g[j].outcome = f[j].outcome
    BY <1>1 DEF Probe
  <1>7. h.wg - 1 \in 0..MaxAddresses
    <2>1. i \in Live(f)
      BY <1>1 DEF Live
    <2> HIDE DEF h, f, g, x, k
    <2>2. Cardinality(Live(f)) # 0
      BY <1>1, <2>1, CountTypes, FS_EmptySet
    <2> QED
      BY <1>1, <2>2, CountTypes, BoundsAssumption DEF HandlerOK, Counted
  <1>8. /\ k \in Handler /\ k.pc = h.pc /\ k.answer = h.answer
        /\ k.req = h.req /\ k.gone = h.gone /\ k.first = h.first
        /\ k.check = h.check /\ k.status = h.status /\ k.addresses = h.addresses
        /\ k.spawned = h.spawned /\ k.wg = h.wg - 1 /\ k.channel = h.channel
    <2> HIDE DEF h
    <2> QED
      BY <1>1, <1>7 DEF Handler
  <1>9. g = [f EXCEPT ![i].pc = "over"]
    OBVIOUS
  <1> HIDE DEF h, c, f, g, k, x
  <1>10. Counted(k, g)
    BY <1>1, <1>8, <1>9, DoneCounts DEF HandlerOK
  <1>11. Cut(k, g)
    BY <1>1, <1>6, <1>8 DEF HandlerOK, Cut
  <1>12. Answered(k, g) /\ Placed(k, c)
    <2>1. h.pc # "idle"
      BY <1>1 DEF HandlerOK, Answered, NoProbe
    <2> QED
      BY <1>1, <1>8, <2>1 DEF HandlerOK, Answered, Placed
  <1> QED
    BY <1>1, <1>3, <1>5, <1>8, <1>10, <1>11, <1>12, OwnStep DEF h, c

LEMMA CollectedOK ==
    ASSUME TypeOK, HandlersOK, NEW p \in Handlers, Collected(p)
    PROVE  HandlersOK' /\ handler' \in [Handlers -> Handler]
  <1> DEFINE h == handler[p]
             f == ProbesIn(probe, p)
             c == CallsIn(call, p)
             k == [h EXCEPT !.check = "ok"]
  <1>1. /\ h \in Handler /\ f \in [Indexes -> Probe] /\ HandlerOK(h, f, c)
        /\ UNCHANGED <<call, probe>>
        /\ h.check = "spawning" /\ h.wg = 0 /\ h.spawned = h.addresses
    BY InTypes DEF HandlersOK, Collected, Waited, clientVars
  <1>2. handler' = [handler EXCEPT ![p] = k]
    BY DEF Collected, TypeOK
  <1>3. /\ k \in Handler /\ k.pc = h.pc /\ k.answer = h.answer
        /\ k.req = h.req /\ k.gone = h.gone /\ k.first = h.first
        /\ k.check = "ok" /\ k.status = h.status /\ k.addresses = h.addresses
        /\ k.spawned = h.spawned /\ k.wg = h.wg /\ k.channel = h.channel
    <2> HIDE DEF h
    <2> QED
      BY <1>1 DEF Handler
  <1> HIDE DEF h, c, f, k
  <1>4. Counted(k, f)
    BY <1>1, <1>3, WaitedCounts DEF HandlerOK
  <1>5. Placed(k, c) /\ Cut(k, f) /\ Answered(k, f)
    BY <1>1, <1>3 DEF HandlerOK, Placed, Cut, Answered
  <1> QED
    BY <1>1, <1>2, <1>3, <1>4, <1>5, OwnStep DEF h, c, f

LEMMA StatusAnsweredOK ==
    ASSUME TypeOK, HandlersOK, NEW p \in Handlers, StatusAnswered(p)
    PROVE  HandlersOK' /\ handler' \in [Handlers -> Handler]
  <1> DEFINE h == handler[p]
             f == ProbesIn(probe, p)
             c == CallsIn(call, p)
             a == GroupResult(h)
             k == [h EXCEPT !.pc = "answered", !.answer = a]
  <1>1. /\ h \in Handler /\ f \in [Indexes -> Probe] /\ HandlerOK(h, f, c)
        /\ UNCHANGED <<call, probe>>
        /\ h.pc = "working" /\ h.check \in {"ok", "error"} /\ h.status \in {"ok", "error"}
    BY InTypes DEF HandlersOK, StatusAnswered, At, clientVars
  <1>2. handler' = [handler EXCEPT ![p] = k]
    BY DEF StatusAnswered
  <1>3. a \in {"ok", "error"} /\ (a = "ok" => h.first = "none")
    BY DEF GroupResult
  <1>4. /\ k \in Handler /\ k.pc = "answered" /\ k.answer = a
        /\ k.req = h.req /\ k.gone = h.gone /\ k.first = h.first
        /\ k.check = h.check /\ k.status = h.status /\ k.addresses = h.addresses
        /\ k.spawned = h.spawned /\ k.wg = h.wg /\ k.channel = h.channel
    <2> HIDE DEF h, a
    <2> QED
      BY <1>1, <1>3 DEF Handler
  <1> HIDE DEF h, c, f, k, a
  <1>5. Counted(k, f)
    BY <1>1, <1>4, CountedKept DEF HandlerOK
  <1>6. Placed(k, c) /\ Cut(k, f) /\ Answered(k, f)
    BY <1>1, <1>3, <1>4 DEF HandlerOK, Placed, Cut, Answered
  <1> QED
    BY <1>1, <1>2, <1>4, <1>5, <1>6, OwnStep DEF h, c, f

-----------------------------------------------------------------------------
(* Requests come and go.                                                   *)

\* Before the first goroutine of a check is started.
LEMMA NoneStarted ==
    ASSUME NEW h, h.spawned = 0, h.addresses = 0, h.wg = 0, h.channel = <<>>,
           h.check # "spawning",
           NEW f \in [Indexes -> Probe], \A i \in Indexes : f[i] = NoProbe
    PROVE  Counted(h, f) /\ Cut(h, f)
  <1>1. \A i \in Indexes : f[i].pc = "none" /\ f[i].outcome = "own" /\ 0 < i
    BY DEF NoProbe, Indexes
  <1>2. Live(f) = {} /\ Sent(f) = {}
    BY <1>1 DEF Live, Sent
  <1>3. Cardinality({}) = 0
    BY FS_EmptySet
  <1>4. Len(h.channel) = 0
    OBVIOUS
  <1>5. Counted(h, f)
    BY <1>1, <1>2, <1>3, <1>4 DEF Counted
  <1>6. \A j \in 1..Len(h.channel) : FALSE
    BY <1>4
  <1> QED
    BY <1>1, <1>5, <1>6 DEF Cut

LEMMA IdleOK ==
    ASSUME NEW f \in [Indexes -> Probe], \A i \in Indexes : f[i] = NoProbe,
           NEW c, \A part \in Parts : c[part].pc = "idle"
    PROVE  HandlerOK(Idle, f, c) /\ Idle \in Handler
  <1>1. Idle \in Handler
    BY BoundsAssumption DEF Idle, Handler, YesNo
  <1>2. Counted(Idle, f) /\ Cut(Idle, f)
    BY NoneStarted DEF Idle
  <1>3. Placed(Idle, c)
    BY DEF Placed, Parts
  <1>4. Answered(Idle, f)
    BY DEF Answered, Idle
  <1> QED
    BY <1>1, <1>2, <1>3, <1>4 DEF HandlerOK

LEMMA HandlerOfOK ==
    ASSUME NEW r \in RequestType, NEW f \in [Indexes -> Probe],
           \A i \in Indexes : f[i] = NoProbe,
           NEW c, \A part \in Parts : c[part].pc # "idle" => part \in StartedBy(r)
    PROVE  HandlerOK(HandlerOf(r), f, c) /\ HandlerOf(r) \in Handler
  <1> DEFINE k == HandlerOf(r)
  <1>1. /\ k \in Handler /\ k.pc = "working" /\ k.req = r
        /\ k.spawned = 0 /\ k.addresses = 0 /\ k.wg = 0 /\ k.channel = <<>>
        /\ k.check = IF "check" \in StartedBy(r) THEN "getting"
                     ELSE IF r.op = "Status" THEN "ok" ELSE "none"
        /\ k.status = IF "status" \in StartedBy(r) THEN "getting"
                      ELSE IF r.op = "Status" THEN "ok" ELSE "none"
    <2> DEFINE a == IF "check" \in StartedBy(r) THEN "getting"
                    ELSE IF r.op = "Status" THEN "ok" ELSE "none"
               b == IF "status" \in StartedBy(r) THEN "getting"
                    ELSE IF r.op = "Status" THEN "ok" ELSE "none"
    <2>1. k = [pc |-> "working", req |-> r, gone |-> "no", first |-> "none",
               check |-> a, status |-> b,
               addresses |-> 0, spawned |-> 0, wg |-> 0, channel |-> <<>>, answer |-> "none"]
      <3>1. Idle.check = "none" /\ Idle.status = "none"
        BY DEF Idle
      <3>2. k = [Idle EXCEPT !.pc = "working", !.req = r, !.check = a, !.status = b]
        BY <3>1, Zenon DEF HandlerOf
      <3> HIDE DEF a, b, k
      <3> QED
        BY <3>2 DEF Idle
    <2>2. a \in {"getting", "ok", "none"} /\ b \in {"getting", "ok", "none"}
      OBVIOUS
    <2> HIDE DEF a, b, k
    <2>3. /\ k \in Handler /\ k.pc = "working" /\ k.req = r
          /\ k.spawned = 0 /\ k.addresses = 0 /\ k.wg = 0 /\ k.channel = <<>>
          /\ k.check = a /\ k.status = b
      BY <2>1, <2>2, BoundsAssumption DEF Handler, YesNo
    <2> QED
      BY <2>3 DEF a, b
  <1>2. /\ "main" \in StartedBy(r) => r.op # "Status" /\ StartedBy(r) = {"main"}
        /\ r.op # "Status" => r.op = "Method"
    BY DEF StartedBy, RequestType
  <1> HIDE DEF k
  <1>3. Counted(k, f) /\ Cut(k, f)
    BY <1>1, NoneStarted
  <1>4. Placed(k, c)
    BY <1>1, <1>2 DEF Placed, Parts
  <1>5. Answered(k, f)
    BY <1>1 DEF Answered
  <1> QED
    BY <1>1, <1>3, <1>4, <1>5 DEF HandlerOK, k

LEMMA IdleCalls ==
    ASSUME TypeOK, HandlersOK, NEW p \in Handlers, handler[p].pc # "working"
    PROVE  \A part \in Parts : call[<<p, part>>].pc = "idle"
  <1>1. Placed(handler[p], CallsIn(call, p))
    BY DEF HandlersOK, HandlerOK
  <1> QED
    BY <1>1, InTypes DEF Placed, Parts

LEMMA ReturnOK ==
    ASSUME TypeOK, HandlersOK, NEW p \in Handlers, Return(p)
    PROVE  /\ HandlersOK' /\ handler' \in [Handlers -> Handler]
           /\ probe' \in [Handlers \X Indexes -> Probe]
  <1>1. /\ handler[p].pc = "answered" /\ call' = call
        /\ handler' = [handler EXCEPT ![p] = Idle]
        /\ probe' = [k \in Handlers \X Indexes |-> IF k[1] = p THEN NoProbe ELSE probe[k]]
    BY DEF Return, At
  <1>2. NoProbe \in Probe
    BY DEF NoProbe, Probe, Outcomes
  <1>3. probe' \in [Handlers \X Indexes -> Probe]
    BY <1>1, <1>2 DEF TypeOK
  <1>4. /\ ProbesIn(probe', p) \in [Indexes -> Probe]
        /\ \A i \in Indexes : ProbesIn(probe', p)[i] = NoProbe
        /\ \A q \in Handlers \ {p} : ProbesIn(probe', q) = ProbesIn(probe, q)
    BY <1>1, <1>2 DEF ProbesIn
  <1>5. \A part \in Parts : CallsIn(call, p)[part].pc = "idle"
    BY <1>1, IdleCalls, InTypes
  <1>6. HandlerOK(Idle, ProbesIn(probe', p), CallsIn(call, p)) /\ Idle \in Handler
    BY <1>4, <1>5, IdleOK
  <1> QED
    BY <1>1, <1>3, <1>4, <1>6, OwnStep DEF HandlerOK

\* What a request that arrives changes of the calls.
Started(p, r) ==
    call' = [g \in Goroutines |->
                IF g[1] = p /\ g[2] \in StartedBy(r) THEN Begun(ServiceOf(p, r)) ELSE call[g]]

LEMMA StartedCalls ==
    ASSUME TypeOK, HandlersOK, NEW p \in Handlers, NEW r \in RequestType, Started(p, r),
           handler[p].pc = "idle"
    PROVE  /\ call' \in [Goroutines -> Call]
           /\ \A g \in Goroutines :
                \/ g[1] # p /\ call'[g] = call[g]
                \/ g[1] = p /\ call[g].pc = "idle" /\ call'[g].pc \in {"idle", "client"}
           /\ \A part \in Parts : call'[<<p, part>>].pc # "idle" => part \in StartedBy(r)
  <1>1. call \in [Goroutines -> Call]
    BY DEF TypeOK, ClientTypeOK
  <1>2. ServiceOf(p, r) \in Services
    BY DEF ServiceOf, Services
  <1>3. Begun(ServiceOf(p, r)) \in Call /\ Begun(ServiceOf(p, r)).pc = "client"
    BY <1>2 DEF Begun, Call, NoCall, CallSteps, Clients, Services
  <1>4. \A part \in Parts : call[<<p, part>>].pc = "idle"
    BY IdleCalls
  <1>5. call' \in [Goroutines -> Call]
    BY <1>1, <1>3 DEF Started
  <1>6. \A g \in Goroutines : g[1] = p => call[g].pc = "idle"
    BY <1>4 DEF Goroutines
  <1>7. \A g \in Goroutines :
            call'[g] = IF g[1] = p /\ g[2] \in StartedBy(r) THEN Begun(ServiceOf(p, r)) ELSE call[g]
    BY DEF Started
  <1>8. ASSUME NEW part \in Parts, part \notin StartedBy(r)
        PROVE  call'[<<p, part>>].pc = "idle"
    <2>1. <<p, part>> \in Goroutines /\ <<p, part>>[1] = p /\ <<p, part>>[2] = part
      BY DEF Goroutines
    <2> QED
      BY <1>4, <1>7, <1>8, <2>1
  <1> QED
    BY <1>3, <1>5, <1>6, <1>7, <1>8

LEMMA ReceiveOK ==
    ASSUME TypeOK, HandlersOK, NEW p \in Handlers, Receive(p)
    PROVE  HandlersOK' /\ handler' \in [Handlers -> Handler]
  <1>1. PICK r \in Requests[p] : handler' = [handler EXCEPT ![p] = HandlerOf(r)] /\ Started(p, r)
    BY DEF Receive, Started
  <1>2. handler[p].pc = "idle" /\ probe' = probe
    BY DEF Receive, At
  <1>3. r \in RequestType
    BY RequestsAssumption
  <1>4. /\ ProbesIn(probe, p) \in [Indexes -> Probe]
        /\ \A i \in Indexes : ProbesIn(probe, p)[i] = NoProbe
    BY <1>2, InTypes DEF HandlersOK, HandlerOK, Answered
  <1>5. \A part \in Parts : CallsIn(call', p)[part].pc # "idle" => part \in StartedBy(r)
    BY <1>1, <1>2, <1>3, StartedCalls DEF CallsIn
  <1>6. HandlerOK(HandlerOf(r), ProbesIn(probe, p), CallsIn(call', p)) /\ HandlerOf(r) \in Handler
    BY <1>3, <1>4, <1>5, HandlerOfOK
  <1>7. \A q \in Handlers \ {p} : CallsIn(call', q) = CallsIn(call, q)
    <2> SUFFICES ASSUME NEW q \in Handlers \ {p} PROVE CallsIn(call', q) = CallsIn(call, q)
      OBVIOUS
    <2>1. \A part \in Parts : call'[<<q, part>>] = call[<<q, part>>]
      <3> SUFFICES ASSUME NEW part \in Parts PROVE call'[<<q, part>>] = call[<<q, part>>]
        OBVIOUS
      <3>1. <<q, part>> \in Goroutines /\ <<q, part>>[1] # p
        BY DEF Goroutines
      <3> QED
        BY <1>1, <1>2, <1>3, <3>1, StartedCalls
    <2> QED
      BY <2>1 DEF CallsIn
  <1>8. /\ handler'[p] = HandlerOf(r) /\ handler' \in [Handlers -> Handler]
        /\ \A q \in Handlers \ {p} : handler'[q] = handler[q]
    BY <1>1, <1>6 DEF TypeOK
  <1> QED
    BY <1>2, <1>6, <1>7, <1>8, OthersKept DEF OnlyOf

\* A request that arrives with a service of its own brings it a complete
\* configuration; a request that is over takes its service with it.
LEMMA ReceiveSettles ==
    ASSUME TypeOK, HandlersOK, CallsOK, FieldsSettle, NEW p \in Handlers, Receive(p)
    PROVE  ClientTypeOK' /\ CallsOK' /\ FieldsSettle'
  <1>1. PICK r \in Requests[p] :
            /\ Started(p, r)
            /\ IF r.own = "yes"
               THEN /\ configs' = configs + 1
                    /\ timed' = timed \cup {configs'}
                    /\ restConfig' = [restConfig EXCEPT ![p] = configs']
                    /\ \E c \in {"none", "timed"} : client' = [client EXCEPT ![p] = c]
               ELSE UNCHANGED fields
    BY DEF Receive, Started
  <1>2. handler[p].pc = "idle" /\ faults' = faults /\ r \in RequestType
    BY RequestsAssumption DEF Receive, At
  <1>3. /\ call' \in [Goroutines -> Call]
        /\ \A g \in Goroutines :
                \/ g[1] # p /\ call'[g] = call[g]
                \/ g[1] = p /\ call[g].pc = "idle" /\ call'[g].pc \in {"idle", "client"}
    BY <1>1, <1>2, StartedCalls
  <1>4. /\ restConfig' \in [Services -> Nat] /\ client' \in [Services -> Clients]
        /\ configs' \in Nat /\ timed' \in SUBSET Nat
        /\ \A s \in Services : restConfig'[s] = restConfig[s] \/ restConfig'[s] \in timed'
        /\ \A s \in Services : client'[s] = client[s] \/ client'[s] # "empty"
        /\ timed \subseteq timed'
    <2>0. p \in Services
      BY DEF Services
    <2>1. /\ restConfig \in [Services -> Nat] /\ client \in [Services -> Clients]
          /\ configs \in Nat /\ timed \in SUBSET Nat
      BY DEF TypeOK, ClientTypeOK
    <2>2. CASE r.own = "yes"
      <3>1. configs' \in Nat /\ timed' \in SUBSET Nat /\ configs' \in timed' /\ timed \subseteq timed'
        <4>1. configs' = configs + 1 /\ timed' = timed \cup {configs'}
          BY <1>1, <2>2
        <4>2. configs' \in Nat
          BY <2>1, <4>1
        <4> QED
          BY <2>1, <4>1, <4>2
      <3>2. /\ restConfig' \in [Services -> Nat]
            /\ \A s \in Services : restConfig'[s] = restConfig[s] \/ restConfig'[s] = configs'
        BY <1>1, <2>1, <2>2, <3>1
      <3>3. PICK c \in {"none", "timed"} : client' = [client EXCEPT ![p] = c]
        BY <1>1, <2>2
      <3>4. /\ client' \in [Services -> Clients]
            /\ \A s \in Services : client'[s] = client[s] \/ client'[s] = c
        BY <2>1, <3>3 DEF Clients
      <3> QED
        BY <3>1, <3>2, <3>4
    <2>3. CASE r.own # "yes"
      BY <1>1, <2>1, <2>3 DEF fields
    <2> QED
      BY <2>2, <2>3
  <1>5. CallsOK'
    BY <1>2, <1>3 DEF CallsOK
  <1>6. ASSUME NEW s \in Services
        PROVE  /\ Completing(s) => Completing(s)'
               /\ Storing(s) => Storing(s)'
    <2>1. \A g \in Goroutines : call[g].pc \in {"complete", "stored"} => call'[g] = call[g]
      BY <1>3
    <2> QED
      BY <2>1 DEF Completing, Storing, AtCall
  <1>7. FieldsSettle'
    BY <1>2, <1>4, <1>6 DEF FieldsSettle
  <1> QED
    BY <1>3, <1>4, <1>5, <1>7 DEF ClientTypeOK

LEMMA ReturnSettles ==
    ASSUME TypeOK, CallsOK, FieldsSettle, NEW p \in Handlers, Return(p)
    PROVE  ClientTypeOK' /\ CallsOK' /\ FieldsSettle'
  <1>1. /\ restConfig' = [restConfig EXCEPT ![p] = 0] /\ client' = [client EXCEPT ![p] = "none"]
        /\ configs' = configs /\ timed' = timed /\ call' = call /\ faults' = faults
    BY DEF Return, bounds
  <1>2. ClientTypeOK'
    BY <1>1 DEF TypeOK, ClientTypeOK, Clients
  <1>3. CallsOK'
    BY <1>1 DEF CallsOK
  <1>4. \A s \in Services : /\ restConfig'[s] = restConfig[s] \/ restConfig'[s] = 0
                            /\ client'[s] = client[s] \/ client'[s] = "none"
    BY <1>1 DEF TypeOK, ClientTypeOK
  <1>5. \A s \in Services : Completing(s)' = Completing(s) /\ Storing(s)' = Storing(s)
    BY <1>1 DEF Completing, Storing, AtCall
  <1>6. FieldsSettle'
    BY <1>1, <1>4, <1>5 DEF FieldsSettle
  <1> QED
    BY <1>2, <1>3, <1>6

LEMMA EndedSettles ==
    ASSUME TypeOK, CallsOK, FieldsSettle, NEW p \in Handlers, NEW part \in Parts,
           call[<<p, part>>].pc \in CallEnds,
           call' = [call EXCEPT ![<<p, part>>] = NoCall], UNCHANGED <<fields, faults>>
    PROVE  ClientTypeOK' /\ CallsOK' /\ FieldsSettle'
  <1>1. <<p, part>> \in Goroutines /\ ClientTypeOK
    BY DEF Goroutines, TypeOK
  <1>2. NoCall \in Call /\ NoCall.pc = "idle"
    BY DEF Call, NoCall, Clients, Services
  <1>3. call[<<p, part>>].pc \notin {"complete", "stored"}
    BY DEF CallEnds
  <1>4. ClientTypeOK'
    BY <1>1, <1>2 DEF ClientTypeOK, fields
  <1> DEFINE g == <<p, part>>
             c == NoCall
  <1>5. g \in Goroutines /\ c \in Call /\ call' = [call EXCEPT ![g] = c]
    BY <1>1, <1>2
  <1>6. /\ c.pc \notin {"store", "stored"} /\ call[g].pc \notin {"complete", "stored"}
        /\ UNCHANGED fields /\ (faults' = 0 => faults = 0)
    BY <1>2, <1>3
  <1> HIDE DEF g, c
  <1>7. CallsOK' /\ FieldsSettle'
    BY <1>1, <1>5, <1>6, QuietStep
  <1> QED
    BY <1>4, <1>7

LEMMA OtherStepSettles ==
    ASSUME TypeOK, CallsOK, FieldsSettle, UNCHANGED <<clientVars, faults>>
    PROVE  ClientTypeOK' /\ CallsOK' /\ FieldsSettle'
  <1>1. /\ restConfig' = restConfig /\ client' = client /\ configs' = configs
        /\ timed' = timed /\ call' = call /\ faults' = faults
    BY DEF clientVars, fields
  <1>2. \A s \in Services : Completing(s)' = Completing(s) /\ Storing(s)' = Storing(s)
    BY <1>1 DEF Completing, Storing, AtCall
  <1> QED
    BY <1>1, <1>2 DEF TypeOK, ClientTypeOK, CallsOK, FieldsSettle

\* The memory of a process that has just started, or was lost.
Fresh ==
    /\ restConfig = NoConfigs /\ client = NoClients /\ configs = 0 /\ timed = {}
    /\ call = NoCalls
    /\ handler = [p \in Handlers |-> Idle]
    /\ probe = [k \in Handlers \X Indexes |-> NoProbe]

FreshOK ==
    /\ ClientTypeOK /\ handler \in [Handlers -> Handler]
    /\ probe \in [Handlers \X Indexes -> Probe]
    /\ HandlersOK /\ CallsOK /\ FieldsSettle

LEMMA FreshIsOK == Fresh => FreshOK
  <1> SUFFICES ASSUME Fresh PROVE FreshOK
    OBVIOUS
  <1>1. NoCall \in Call /\ NoCall.pc = "idle" /\ NoProbe \in Probe
    BY DEF Call, NoCall, Clients, Services, NoProbe, Probe, Outcomes
  <1>2. ClientTypeOK /\ \A g \in Goroutines : call[g].pc = "idle"
    BY <1>1 DEF Fresh, ClientTypeOK, NoConfigs, NoClients, NoCalls, Clients
  <1>3. ASSUME NEW p \in Handlers
        PROVE  /\ HandlerOK(handler[p], ProbesIn(probe, p), CallsIn(call, p))
               /\ Idle \in Handler
    <2>1. /\ ProbesIn(probe, p) \in [Indexes -> Probe]
          /\ \A i \in Indexes : ProbesIn(probe, p)[i] = NoProbe
      BY <1>1 DEF Fresh, ProbesIn
    <2>2. \A part \in Parts : CallsIn(call, p)[part].pc = "idle"
      BY <1>2 DEF CallsIn, Goroutines
    <2>3. handler[p] = Idle
      BY DEF Fresh
    <2> QED
      BY <2>1, <2>2, <2>3, IdleOK
  <1>4. handler \in [Handlers -> Handler] /\ probe \in [Handlers \X Indexes -> Probe]
    BY <1>1, <1>3 DEF Fresh
  <1>5. HandlersOK
    BY <1>3 DEF HandlersOK
  <1>6. CallsOK
    BY <1>2 DEF CallsOK
  <1>7. FieldsSettle
    BY DEF Fresh, NoConfigs, NoClients, FieldsSettle
  <1> QED
    BY <1>2, <1>4, <1>5, <1>6, <1>7 DEF FreshOK

LEMMA FreshNext == Fresh' => FreshOK'
  BY FreshIsOK, PTL

-----------------------------------------------------------------------------
(* The invariant and the theorems.                                         *)

\* What a step has to show besides the types of the counters.
Kept ==
    /\ ClientTypeOK' /\ handler' \in [Handlers -> Handler]
    /\ probe' \in [Handlers \X Indexes -> Probe]
    /\ HandlersOK' /\ CallsOK' /\ FieldsSettle'

LEMMA RouterKeeps ==
    ASSUME IInv, NEW g \in Goroutines, RouterStep(g) \/ RouterReturns(g) \/ RouterFails(g)
    PROVE  Kept
  <1>1. ClientTypeOK /\ faults \in Nat /\ UNCHANGED <<handler, probe>>
    BY DEF IInv, TypeOK, RouterStep, RouterReturns, RouterFails
  <1>2. handler' \in [Handlers -> Handler] /\ probe' \in [Handlers \X Indexes -> Probe]
    BY <1>1 DEF IInv, TypeOK
  <1>3. CASE ClientStep(g) /\ faults' = faults
    BY <1>1, <1>2, <1>3, ClientMoves, MovedIsTyped, CallStepOK, ClientSettles DEF IInv, Kept
  <1>4. ASSUME NEW cancelled, CallReturns(g) \/ CallGivesUp(g, cancelled), faults' = faults
        PROVE  Kept
    <2>1. Moved(g)
      BY <1>1, <1>4, CallEndMoves
    <2>2. CallsOK' /\ FieldsSettle'
      BY <1>1, <1>4, EndSettles DEF IInv
    <2> QED
      BY <1>1, <1>2, <2>1, <2>2, MovedIsTyped, CallStepOK DEF IInv, Kept
  <1>5. CASE (LoadFails(g) \/ BuildFails(g)) /\ faults' = faults + 1
    BY <1>1, <1>2, <1>5, FailureMoves, MovedIsTyped, CallStepOK, FailureSettles DEF IInv, Kept
  <1>6. CASE RouterStep(g)
    BY <1>3, <1>4, <1>6 DEF RouterStep, bounds
  <1>7. CASE RouterReturns(g)
    BY <1>4, <1>7 DEF RouterReturns, bounds
  <1>8. CASE RouterFails(g)
    BY <1>5, <1>8 DEF RouterFails
  <1> QED
    BY <1>6, <1>7, <1>8

LEMMA HandlerKeeps ==
    ASSUME IInv, NEW p \in Handlers, HandlerStep(p)
    PROVE  Kept
  <1>1. TypeOK /\ HandlersOK /\ CallsOK /\ FieldsSettle
    BY DEF IInv
  <1>2. probe' = probe => probe' \in [Handlers \X Indexes -> Probe]
    BY <1>1 DEF TypeOK
  <1>3. "main" \in Parts /\ "check" \in Parts /\ "status" \in Parts
        /\ {"ok", "error"} \subseteq CallEnds
    BY DEF Parts, CallEnds
  <1>4. CASE MethodReturns(p)
    <2>1. /\ call[<<p, "main">>].pc \in CallEnds /\ UNCHANGED <<fields, faults>> /\ probe' = probe
          /\ call' = [call EXCEPT ![<<p, "main">>] = NoCall]
      BY <1>4 DEF MethodReturns, bounds
    <2>2. ClientTypeOK' /\ CallsOK' /\ FieldsSettle'
      BY <1>1, <1>3, <2>1, EndedSettles
    <2> QED
      BY <1>1, <1>2, <1>4, <2>1, <2>2, MethodReturnsOK DEF Kept
  <1>5. CASE StatusReturns(p)
    <2>1. /\ call[<<p, "status">>].pc \in CallEnds /\ UNCHANGED <<fields, faults>> /\ probe' = probe
          /\ call' = [call EXCEPT ![<<p, "status">>] = NoCall]
      BY <1>3, <1>5 DEF StatusReturns, bounds
    <2>2. ClientTypeOK' /\ CallsOK' /\ FieldsSettle'
      BY <1>1, <1>3, <2>1, EndedSettles
    <2> QED
      BY <1>1, <1>2, <1>5, <2>1, <2>2, StatusReturnsOK DEF Kept
  <1>6. CASE AddressesReturn(p)
    <2>1. /\ call[<<p, "check">>].pc \in CallEnds /\ UNCHANGED <<fields, faults>> /\ probe' = probe
          /\ call' = [call EXCEPT ![<<p, "check">>] = NoCall]
      BY <1>3, <1>6 DEF AddressesReturn, bounds
    <2>2. ClientTypeOK' /\ CallsOK' /\ FieldsSettle'
      BY <1>1, <1>3, <2>1, EndedSettles
    <2> QED
      BY <1>1, <1>2, <1>6, <2>1, <2>2, AddressesReturnOK DEF Kept
  <1>7. CASE Spawn(p)
    BY <1>1, <1>7, SpawnOK, OtherStepSettles DEF Kept, Spawn, bounds
  <1>8. CASE Collected(p)
    BY <1>1, <1>2, <1>8, CollectedOK, OtherStepSettles DEF Kept, Collected, bounds
  <1>9. CASE StatusAnswered(p)
    BY <1>1, <1>2, <1>9, StatusAnsweredOK, OtherStepSettles DEF Kept, StatusAnswered, bounds
  <1>10. CASE Return(p)
    BY <1>1, <1>10, ReturnOK, ReturnSettles DEF Kept
  <1>11. CASE Crash(p)
    BY <1>11, FreshNext DEF Crash, AllLost, Fresh, FreshOK, Kept
  <1> QED
    BY <1>4, <1>5, <1>6, <1>7, <1>8, <1>9, <1>10, <1>11 DEF HandlerStep

LEMMA ProbeKeeps ==
    ASSUME IInv, NEW p \in Handlers, NEW i \in Indexes, ProbeStep(p, i)
    PROVE  Kept
  <1>1. TypeOK /\ HandlersOK /\ CallsOK /\ FieldsSettle
    BY DEF IInv
  <1>2. ClientTypeOK' /\ CallsOK' /\ FieldsSettle'
    <2>1. UNCHANGED <<clientVars, faults>>
      BY DEF ProbeStep, ProbeEnds, ProbeSends, ProbeDone, bounds
    <2> QED
      BY <1>1, <2>1, OtherStepSettles
  <1> QED
    BY <1>1, <1>2, ProbeEndsOK, ProbeSendsOK, ProbeDoneOK DEF ProbeStep, Kept

LEMMA OthersKeep ==
    ASSUME IInv, Signal \/ Exit \/ Restart \/ (\E p \in Handlers : Receive(p) \/ GoAway(p))
                 \/ UNCHANGED vars
    PROVE  Kept
  <1>1. TypeOK /\ HandlersOK /\ CallsOK /\ FieldsSettle
    BY DEF IInv
  <1>2. probe' = probe => probe' \in [Handlers \X Indexes -> Probe]
    BY <1>1 DEF TypeOK
  <1>3. ASSUME NEW p \in Handlers, Receive(p)
        PROVE  Kept
    BY <1>1, <1>2, <1>3, ReceiveOK, ReceiveSettles DEF Kept, Receive
  <1>4. ASSUME NEW p \in Handlers, GoAway(p)
        PROVE  Kept
    BY <1>1, <1>2, <1>4, GoAwayOK, OtherStepSettles DEF Kept, GoAway
  <1>5. CASE Exit
    BY <1>5, FreshNext DEF Exit, AllLost, Fresh, FreshOK, Kept
  <1>6. CASE UNCHANGED <<clientVars, handler, probe, faults>>
    <2>1. call' = call
      BY <1>6 DEF clientVars
    <2>2. HandlersOK' /\ handler' \in [Handlers -> Handler]
      BY <1>1, <1>6, <2>1 DEF HandlersOK, TypeOK
    <2> QED
      BY <1>1, <1>2, <1>6, <2>2, OtherStepSettles DEF Kept
  <1> QED
    BY <1>3, <1>4, <1>5, <1>6 DEF Signal, Restart, vars, bounds

LEMMA CountersTyped ==
    ASSUME TypeOK, [Next]_vars
    PROVE  /\ daemon' \in {"up", "stopping", "down"}
           /\ received' \in Nat /\ faults' \in Nat /\ events' \in Nat
  <1>t. /\ daemon \in {"up", "stopping", "down"}
        /\ received \in Nat /\ faults \in Nat /\ events \in Nat
    BY DEF TypeOK
  <1>1. ASSUME NEW p \in Handlers, Receive(p) \/ GoAway(p)
        PROVE  /\ daemon' = daemon /\ faults' = faults
               /\ received' \in {received, received + 1} /\ events' \in {events, events + 1}
    BY <1>1 DEF Receive, GoAway
  <1>2. ASSUME NEW p \in Handlers, HandlerStep(p)
        PROVE  (daemon' = daemon \/ daemon' = "down") /\ UNCHANGED bounds
    BY <1>2 DEF HandlerStep, MethodReturns, StatusReturns, AddressesReturn, Spawn, Collected,
        StatusAnswered, Return, Crash, AllLost
  <1>3. ASSUME NEW p \in Handlers, NEW i \in Indexes, ProbeStep(p, i)
        PROVE  daemon' = daemon /\ UNCHANGED bounds
    BY <1>3 DEF ProbeStep, ProbeEnds, ProbeSends, ProbeDone
  <1>4. ASSUME NEW g \in Goroutines, RouterStep(g) \/ RouterReturns(g) \/ RouterFails(g)
        PROVE  /\ daemon' = daemon /\ faults' \in {faults, faults + 1}
               /\ received' = received /\ events' = events
    BY <1>4 DEF RouterStep, RouterReturns, RouterFails, bounds
  <1>5. CASE Signal \/ Exit \/ Restart
    BY <1>t, <1>5 DEF Signal, Exit, Restart, AllLost, bounds
  <1>6. CASE UNCHANGED vars
    BY <1>t, <1>6 DEF vars, bounds
  <1>7. \A p \in Handlers : \A g \in {p} \X Parts : g \in Goroutines
    BY DEF Goroutines
  <1> QED
    BY <1>t, <1>1, <1>2, <1>3, <1>4, <1>5, <1>6, <1>7 DEF Next, RequestStep, bounds

LEMMA Inductive == IInv /\ [Next]_vars => IInv'
  <1> SUFFICES ASSUME IInv, [Next]_vars PROVE IInv'
    OBVIOUS
  <1>1. \A p \in Handlers : \A g \in {p} \X Parts : g \in Goroutines
    BY DEF Goroutines
  <1>2. Kept
    BY <1>1, RouterKeeps, HandlerKeeps, ProbeKeeps, OthersKeep DEF Next, RequestStep
  <1>3. TypeOK
    BY DEF IInv
  <1> QED
    BY <1>2, <1>3, CountersTyped DEF IInv, TypeOK, Kept

LEMMA Initial == Init => IInv
  BY FreshIsOK DEF Init, ClientInit, Fresh, FreshOK, IInv, TypeOK

LEMMA Invariant == Spec => []IInv
  BY Initial, Inductive, PTL DEF Spec

\* The variables of the API keep their types: no counter of a WaitGroup drops
\* below zero or exceeds the addresses, and the calls hold what getClient makes.
THEOREM TypeCorrect == Spec => []TypeOK
  BY Invariant, PTL DEF IInv

\* getClient and getConfig, for any number of goroutines: whatever they leave in
\* the shared fields is complete, and while nothing fails no nil client stays.
THEOREM FieldsAlwaysSettle == Spec => []FieldsSettle
  BY Invariant, PTL DEF IInv

\* checkPath returns one check of each address, and none of its goroutines is
\* left to send on the closed channel.
LEMMA OneCheck == IInv => OneCheckEach
  <1> SUFFICES ASSUME IInv, NEW p \in Handlers,
                      AnsweredStatus(p), handler[p].req.checkpath = "yes"
               PROVE  LET checks == handler[p].channel IN
                      /\ Len(checks) = handler[p].addresses
                      /\ \A i \in 1..handler[p].addresses :
                            \E j \in DOMAIN checks : checks[j].index = i
                      /\ \A i \in Indexes : probe[<<p, i>>].pc \in {"none", "over"}
    BY DEF OneCheckEach
  <1> DEFINE h == handler[p]
             f == ProbesIn(probe, p)
  <1>1. /\ h \in Handler /\ f \in [Indexes -> Probe]
        /\ \A i \in Indexes : f[i] = probe[<<p, i>>]
        /\ Counted(h, f) /\ Answered(h, f)
        /\ h.pc = "answered" /\ h.answer = "ok" /\ h.req.op = "Status"
    BY InTypes DEF IInv, HandlersOK, HandlerOK, AnsweredStatus, At
  <1> HIDE DEF h, f
  <1>2. h.check = "ok" /\ h.spawned = h.addresses /\ Live(f) = {}
    BY <1>1 DEF Counted, Answered
  <1>3. \A i \in Indexes : f[i].pc \in {"none", "over"}
    BY <1>1, <1>2 DEF Live, Probe
  <1>4. h.addresses \in 0..MaxAddresses /\ h.channel \in Seq(Check)
    BY <1>1 DEF Handler
  <1>5. Sent(f) = 1..h.addresses
    <2>1. \A i \in Indexes : i \in Sent(f) <=> i <= h.addresses
      <3> SUFFICES ASSUME NEW i \in Indexes PROVE i \in Sent(f) <=> i <= h.addresses
        OBVIOUS
      <3>1. i \in Nat /\ (f[i].pc = "none" <=> h.addresses < i)
        BY <1>1, <1>2, BoundsAssumption DEF Counted, Indexes
      <3>2. i \in Sent(f) <=> f[i].pc = "over"
        BY <1>3 DEF Sent
      <3> QED
        BY <1>3, <1>4, <3>1, <3>2, BoundsAssumption
    <2>2. Sent(f) \subseteq Indexes
      BY DEF Sent
    <2>3. \A i \in Indexes : i <= h.addresses <=> i \in 1..h.addresses
      BY <1>4, BoundsAssumption DEF Indexes
    <2>4. 1..h.addresses \subseteq Indexes
      BY <1>4, BoundsAssumption DEF Indexes
    <2> QED
      BY <2>1, <2>2, <2>3, <2>4
  <1>6. Cardinality(1..h.addresses) = h.addresses
    BY <1>4, FS_Interval, BoundsAssumption
  <1>7. /\ Len(h.channel) = h.addresses
        /\ \A i \in 1..h.addresses : \E j \in 1..Len(h.channel) : h.channel[j].index = i
    BY <1>1, <1>5, <1>6 DEF Counted
  <1>8. DOMAIN h.channel = 1..Len(h.channel)
    BY <1>4, LenProperties
  <1> QED
    BY <1>1, <1>3, <1>7, <1>8 DEF h

THEOREM OneCheckOfEach == Spec => []OneCheckEach
  BY Invariant, OneCheck, PTL

\* The group's context: an answer without error to a client that waits for it holds
\* no check that was cut short.
LEMMA NotCut == IInv => ChecksNotCut
  <1> SUFFICES ASSUME IInv, NEW p \in Handlers, AnsweredStatus(p), handler[p].gone = "no",
                      NEW j \in DOMAIN handler[p].channel
               PROVE  handler[p].channel[j].outcome # "cancelled"
    BY DEF ChecksNotCut
  <1> DEFINE h == handler[p]
             f == ProbesIn(probe, p)
  <1>1. /\ h \in Handler /\ Cut(h, f) /\ Answered(h, f)
        /\ h.pc = "answered" /\ h.answer = "ok" /\ h.req.op = "Status" /\ h.gone = "no"
    BY InTypes DEF IInv, HandlersOK, HandlerOK, AnsweredStatus, At
  <1> HIDE DEF f
  <1>2. j \in 1..Len(h.channel)
    BY <1>1, LenProperties DEF Handler
  <1>3. h.first = "none"
    BY <1>1 DEF Answered
  <1> HIDE DEF h
  <1>4. h.channel[j].outcome = "own"
    BY <1>1, <1>2, <1>3 DEF Cut
  <1> QED
    BY <1>4 DEF h

THEOREM ChecksAreNotCut == Spec => []ChecksNotCut
  BY Invariant, NotCut, PTL
=============================================================================
