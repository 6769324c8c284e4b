----------------------------- MODULE RouterAPI -----------------------------
(***************************************************************************)
(* The daemon at work: the HTTP requests of tsuru (src/api/api.go), each   *)
(* in a goroutine of its own, on the routers of SharedClient, and the life *)
(* of the process (src/cmd/daemon.go).  A request is either one call of    *)
(* its router (Ensure, Remove, GetAddresses, the certificates) or a        *)
(* status: an errgroup of two goroutines, one of which starts a goroutine  *)
(* for each address, waits for them on a WaitGroup and takes their results *)
(* from a channel (checkPath).                                             *)
(*                                                                         *)
(* A panic in the goroutine of a handler is answered with an error         *)
(* (negroni.Recovery); in any other goroutine it ends the process, and     *)
(* with it all requests.  The process is then started again.               *)
(***************************************************************************)
EXTENDS SharedClient, Sequences, FiniteSets

CONSTANTS
    MaxAddresses,       \* bound: addresses of an app
    Requests,           \* Requests[p]: what handler p may receive, see RequestType
    MaxRequests,        \* bound: requests received
    MaxCalls,           \* bound: goroutines that call routers, in the requests under way
    MaxFaults,          \* bound: configurations or clients that cannot be made
    MaxEvents,          \* bound: clients that go away, signals
    Nil

Indexes == 1..MaxAddresses

YesNo == {"no", "yes"}

\* own: is the request for a cluster in its headers?  checkpath: is there one?
\* reports: does the router implement RouterStatus?
RequestType ==
    [op : {"Method"}, own : YesNo]
    \cup [op : {"Status"}, own : YesNo, checkpath : YesNo, reports : YesNo]

ASSUME RequestsAssumption == Requests \in [Handlers -> SUBSET RequestType]
ASSUME BoundsAssumption ==
    /\ MaxAddresses \in Nat /\ MaxRequests \in Nat /\ MaxCalls \in Nat
    /\ MaxFaults \in Nat /\ MaxEvents \in Nat

VARIABLES
    handler,
    probe,              \* the goroutines of checkPath, by handler and address
    daemon,             \* up, stopping (Shutdown was called), down
    received, faults, events

bounds == <<received, faults, events>>
vars == <<clientVars, handler, probe, daemon, bounds>>

\* How a check of an address ended: by itself (an answer, a refusal, its own
\* timeout), or by the context of the group.
Outcomes == {"own", "cancelled"}
Check == [index : Indexes, outcome : Outcomes]

\* status of the two halves of a status request, and of its answer
Handler ==
    [pc : {"idle", "working", "answered"}, req : RequestType \cup {Nil},
     gone : YesNo,          \* has the client closed the connection?
     first : {"none", "check", "status"}, \* the half whose error ended the group
     check : {"none", "getting", "spawning", "ok", "error"},
     status : {"none", "getting", "ok", "error"},
     addresses : 0..MaxAddresses, spawned : 0..MaxAddresses,
     wg : 0..MaxAddresses,
     channel : Seq(Check),
     answer : {"none", "ok", "error"}]
Idle ==
    [pc |-> "idle", req |-> Nil, gone |-> "no", first |-> "none",
     check |-> "none", status |-> "none",
     addresses |-> 0, spawned |-> 0, wg |-> 0, channel |-> <<>>,
     answer |-> "none"]

Probe == [pc : {"none", "asking", "sending", "sent", "over"}, outcome : Outcomes]
NoProbe == [pc |-> "none", outcome |-> "own"]

TypeOK ==
    /\ ClientTypeOK
    /\ handler \in [Handlers -> Handler]
    /\ probe \in [Handlers \X Indexes -> Probe]
    /\ daemon \in {"up", "stopping", "down"}
    /\ received \in Nat /\ faults \in Nat /\ events \in Nat

Init ==
    /\ ClientInit
    /\ handler = [p \in Handlers |-> Idle]
    /\ probe = [k \in Handlers \X Indexes |-> NoProbe]
    /\ daemon = "up"
    /\ received = 0 /\ faults = 0 /\ events = 0

At(p, pc) == handler[p].pc = pc

\* The context of the errgroup, and so of everything below it.
Cancelled(p) == handler[p].gone = "yes" \/ handler[p].first # "none"

-----------------------------------------------------------------------------
(* Requests come and go.                                                   *)

ServiceOf(p, r) == IF r.own = "yes" THEN p ELSE Local

\* The goroutines that call the router at once.
StartedBy(r) ==
    IF r.op = "Method" THEN {"main"}
    ELSE (IF r.checkpath = "yes" THEN {"check"} ELSE {}) \cup (IF r.reports = "yes" THEN {"status"} ELSE {})

HandlerOf(r) ==
    [Idle EXCEPT !.pc = "working", !.req = r,
        !.check = IF "check" \in StartedBy(r) THEN "getting"
                  ELSE IF r.op = "Status" THEN "ok" ELSE @,
        !.status = IF "status" \in StartedBy(r) THEN "getting"
                   ELSE IF r.op = "Status" THEN "ok" ELSE @]

Calling == {g \in Goroutines : ~At(g[1], "idle") /\ g[2] \in StartedBy(handler[g[1]].req)}

\* A request arrives and finds its router.  A router of its own has a complete
\* configuration and the client c: Client is set by MultiCluster.Router, the
\* other clients are created when needed.
Receive(p) ==
    /\ daemon = "up" /\ At(p, "idle") /\ received < MaxRequests
    /\ received' = received + 1
    /\ \E r \in Requests[p] :
        /\ Cardinality(Calling) + Cardinality(StartedBy(r)) <= MaxCalls
        /\ handler' = [handler EXCEPT ![p] = HandlerOf(r)]
        /\ call' = [g \in Goroutines |->
                IF g[1] = p /\ g[2] \in StartedBy(r) THEN Begun(ServiceOf(p, r)) ELSE call[g]]
        /\ IF r.own = "yes"
           THEN /\ configs' = configs + 1
                /\ timed' = timed \cup {configs'}
                /\ restConfig' = [restConfig EXCEPT ![p] = configs']
                /\ \E c \in {"none", "timed"} : client' = [client EXCEPT ![p] = c]
           ELSE UNCHANGED fields
    /\ UNCHANGED <<probe, daemon, faults, events>>

\* The one call of any other request ends, and with it the request.
MethodReturns(p) ==
    /\ LET g == <<p, "main">> IN
        /\ call[g].pc \in CallEnds
        /\ handler' = [handler EXCEPT ![p] = [@ EXCEPT !.pc = "answered",
                !.answer = IF call[g].pc = "ok" THEN "ok" ELSE "error"]]
        /\ call' = [call EXCEPT ![g] = NoCall]
    /\ UNCHANGED <<fields, probe, daemon, bounds>>

\* The response is written; a service of its own is garbage.
Return(p) ==
    /\ At(p, "answered")
    /\ handler' = [handler EXCEPT ![p] = Idle]
    /\ probe' = [k \in Handlers \X Indexes |-> IF k[1] = p THEN NoProbe ELSE probe[k]]
    /\ restConfig' = [restConfig EXCEPT ![p] = 0]
    /\ client' = [client EXCEPT ![p] = "none"]
    /\ UNCHANGED <<configs, timed, call, daemon, bounds>>

\* tsuru closes the connection: the context of the request is cancelled.
GoAway(p) ==
    /\ At(p, "working") /\ handler[p].gone = "no"
    /\ events < MaxEvents /\ events' = events + 1
    /\ handler' = [handler EXCEPT ![p].gone = "yes"]
    /\ UNCHANGED <<clientVars, probe, daemon, received, faults>>

-----------------------------------------------------------------------------
(* The errgroup of a status request.                                       *)

\* A half returns; the first error of the two cancels the context.
FirstError(p, half, how) ==
    IF how = "error" /\ handler[p].first = "none" THEN half ELSE handler[p].first

StatusReturns(p) ==
    /\ LET g == <<p, "status">> IN
        /\ call[g].pc \in {"ok", "error"}
        /\ handler' = [handler EXCEPT ![p] = [@ EXCEPT !.status = call[g].pc,
                !.first = FirstError(p, "status", call[g].pc)]]
        /\ call' = [call EXCEPT ![g] = NoCall]
    /\ UNCHANGED <<fields, probe, daemon, bounds>>

\* checkPath has the addresses.
AddressesReturn(p) ==
    /\ LET g == <<p, "check">> IN
        /\ call[g].pc \in {"ok", "error"}
        /\ IF call[g].pc = "error"
           THEN handler' = [handler EXCEPT ![p] = [@ EXCEPT !.check = "error",
                    !.first = FirstError(p, "check", "error")]]
           ELSE \E n \in 0..MaxAddresses :
                handler' = [handler EXCEPT ![p] = [@ EXCEPT !.check = "spawning", !.addresses = n]]
        /\ call' = [call EXCEPT ![g] = NoCall]
    /\ UNCHANGED <<fields, probe, daemon, bounds>>

AddedNone == 0                                  \* mutation: no wg.Add
Added == 1

\* wg.Add(1) and go, for the next address.
Spawn(p) ==
    /\ handler[p].check = "spawning" /\ handler[p].spawned < handler[p].addresses
    /\ handler' = [handler EXCEPT ![p].spawned = @ + 1, ![p].wg = @ + Added]
    /\ probe' = [probe EXCEPT ![<<p, handler[p].spawned + 1>>].pc = "asking"]
    /\ UNCHANGED <<clientVars, daemon, bounds>>

AtProbe(p, i, pc) == probe[<<p, i>>].pc = pc

\* The address answers or refuses, or checkPathTimeout is over, or the context is
\* cancelled.
ProbeEnds(p, i) ==
    /\ AtProbe(p, i, "asking")
    /\ \E how \in Outcomes :
        /\ how = "cancelled" => Cancelled(p)
        /\ probe' = [probe EXCEPT ![<<p, i>>] = [pc |-> "sending", outcome |-> how]]
    /\ UNCHANGED <<clientVars, handler, daemon, bounds>>

CapacityNone(h) == 0                            \* mutation: make(chan urlCheck)

\* make(chan urlCheck, len(addrs))
Capacity(h) == h.addresses

\* checks <- check: waits while the channel is full, and would panic once it is
\* closed, which OneCheckEach excludes.
ProbeSends(p, i) ==
    /\ AtProbe(p, i, "sending")
    /\ handler[p].check # "ok" /\ Len(handler[p].channel) < Capacity(handler[p])
    /\ LET check == [index |-> i, outcome |-> probe[<<p, i>>].outcome] IN
        handler' = [handler EXCEPT ![p].channel = Append(@, check)]
    /\ probe' = [probe EXCEPT ![<<p, i>>].pc = "sent"]
    /\ UNCHANGED <<clientVars, daemon, bounds>>

\* The deferred wg.Done().
ProbeDone(p, i) ==
    /\ AtProbe(p, i, "sent")
    /\ handler' = [handler EXCEPT ![p].wg = @ - 1]
    /\ probe' = [probe EXCEPT ![<<p, i>>].pc = "over"]
    /\ UNCHANGED <<clientVars, daemon, bounds>>

WaitedNot(h) == TRUE                            \* mutation: no wg.Wait
Waited(h) == h.wg = 0

\* wg.Wait() returns; the channel is closed and what is in it is the result.
Collected(p) ==
    /\ handler[p].check = "spawning" /\ handler[p].spawned = handler[p].addresses
    /\ Waited(handler[p])
    /\ handler' = [handler EXCEPT ![p].check = "ok"]
    /\ UNCHANGED <<clientVars, probe, daemon, bounds>>

GroupResultIgnored(h) == "ok"                   \* mutation: its error is dropped

\* grp.Wait() returns the first error.
GroupResult(h) == IF h.first = "none" THEN "ok" ELSE "error"

StatusAnswered(p) ==
    /\ At(p, "working")
    /\ handler[p].check \in {"ok", "error"} /\ handler[p].status \in {"ok", "error"}
    /\ handler' = [handler EXCEPT ![p] = [@ EXCEPT !.pc = "answered", !.answer = GroupResult(handler[p])]]
    /\ UNCHANGED <<clientVars, probe, daemon, bounds>>

-----------------------------------------------------------------------------
(* The process.                                                            *)

\* What a goroutine in a call of its router does by itself; what the API server
\* does; what fails, and is counted.
RouterStep(g) ==
    /\ ClientStep(g) \/ CallGivesUp(g, Cancelled(g[1]))
    /\ UNCHANGED <<handler, probe, daemon, bounds>>
RouterReturns(g) ==
    /\ CallReturns(g)
    /\ UNCHANGED <<handler, probe, daemon, bounds>>
RouterFails(g) ==
    /\ faults < MaxFaults /\ faults' = faults + 1
    /\ LoadFails(g) \/ BuildFails(g)
    /\ UNCHANGED <<handler, probe, daemon, received, events>>

AllLost ==
    /\ daemon' = "down"
    /\ restConfig' = NoConfigs /\ client' = NoClients /\ configs' = 0 /\ timed' = {}
    /\ call' = NoCalls
    /\ handler' = [p \in Handlers |-> Idle]
    /\ probe' = [k \in Handlers \X Indexes |-> NoProbe]

\* A panic outside the goroutine of the handler, in a half of an errgroup.
Crash(p) ==
    /\ \E part \in {"check", "status"} : AtCall(<<p, part>>, "panic")
    /\ AllLost
    /\ UNCHANGED bounds

\* SIGTERM: Shutdown closes the listener.
Signal ==
    /\ daemon = "up" /\ events < MaxEvents /\ events' = events + 1
    /\ daemon' = "stopping"
    /\ UNCHANGED <<clientVars, handler, probe, received, faults>>

\* ListenAndServe has returned, StartDaemon returns and with it main, whatever
\* Shutdown is waiting for.
Exit == daemon = "stopping" /\ AllLost /\ UNCHANGED bounds

\* The kubelet starts the container again.
Restart ==
    /\ daemon = "down" /\ daemon' = "up"
    /\ UNCHANGED <<clientVars, handler, probe, bounds>>

HandlerStep(p) ==
    \/ MethodReturns(p) \/ StatusReturns(p) \/ AddressesReturn(p)
    \/ Spawn(p) \/ Collected(p)
    \/ StatusAnswered(p) \/ Return(p) \/ Crash(p)

ProbeStep(p, i) == ProbeEnds(p, i) \/ ProbeSends(p, i) \/ ProbeDone(p, i)

\* What the goroutines of a request do by themselves.
RequestStep(p) ==
    \/ HandlerStep(p)
    \/ \E i \in Indexes : ProbeStep(p, i)
    \/ \E g \in {p} \X Parts : RouterStep(g)

Next ==
    \/ \E p \in Handlers : Receive(p) \/ RequestStep(p) \/ GoAway(p)
    \/ \E g \in Goroutines : RouterReturns(g) \/ RouterFails(g)
    \/ Signal \/ Exit \/ Restart

Spec == Init /\ [][Next]_vars

\* Go runs every goroutine that can go on, timers fire, and a process that
\* panicked is over.  The goroutines of a request take finitely many steps, so
\* fairness to the request is fairness to each.  Nothing makes the API server
\* or an address answer.
FairSpec == Spec /\ \A p \in Handlers : WF_vars(RequestStep(p))
=============================================================================
