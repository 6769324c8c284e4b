------------------------ MODULE RouterAPIProperties ------------------------
(***************************************************************************)
(* What the API promises to whoever waits for an answer, over RouterAPI.   *)
(***************************************************************************)
EXTENDS RouterAPI

AnsweredStatus(p) == At(p, "answered") /\ handler[p].answer = "ok" /\ handler[p].req.op = "Status"

\* A status that is answered has exactly one check of each address, whichever
\* of them were slow, down or cancelled, and no goroutine of it is left that
\* would send on the closed channel (checkPath: WaitGroup, close, range).
OneCheckEach ==
    \A p \in Handlers : AnsweredStatus(p) /\ handler[p].req.checkpath = "yes" =>
        LET checks == handler[p].channel IN
        /\ Len(checks) = handler[p].addresses
        /\ \A i \in 1..handler[p].addresses : \E j \in DOMAIN checks : checks[j].index = i
        /\ \A i \in Indexes : probe[<<p, i>>].pc \in {"none", "over"}

\* The two halves of a status share a context that the error of one cancels: an
\* answer that reports no error holds no check cut short by the other half,
\* unless the client has gone.
ChecksNotCut ==
    \A p \in Handlers : AnsweredStatus(p) /\ handler[p].gone = "no" =>
        \A j \in DOMAIN handler[p].channel : handler[p].channel[j].outcome # "cancelled"

\* Inside getConfig, after the configuration was stored and before it is complete;
\* inside getClient, between the two words.
Completing(s) == \E g \in Goroutines : AtCall(g, "complete") /\ call[g].service = s
Storing(s) == \E g \in Goroutines : AtCall(g, "stored") /\ call[g].service = s

\* Whatever requests race to create the client of a service, fail to, or give up,
\* the configuration they leave is complete; and as long as nothing fails a nil
\* client is there only while it is being stored.
FieldsSettle ==
    \A s \in Services :
        /\ restConfig[s] \in timed \cup {0} \/ Completing(s)
        /\ faults = 0 => client[s] # "empty" \/ Storing(s)

\* Every request is answered, however its router, its addresses and its
\* goroutines behave, or ends with the process; unless it waits for the API
\* server with a client that was made of an incomplete configuration and so
\* has no Timeout.
AnsweredOrHung ==
    \A p \in Handlers :
        ~At(p, "idle") ~> At(p, "idle") \/ \E part \in Parts : Hangs(<<p, part>>)
=============================================================================
