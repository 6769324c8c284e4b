------------------------------ MODULE KubeAPI ------------------------------
(***************************************************************************)
(* EXTERNAL.  What the router's code under src/kubernetes relies on from   *)
(* the Kubernetes API server, for one object at a time: optimistic         *)
(* concurrency on metadata.resourceVersion, identity by metadata.uid, and  *)
(* foreground deletion.  An object is Nil or a record with (at least) the  *)
(* fields uid, rv and terminating.  A manifest is what a client sends: an  *)
(* object whose uid and rv the server fills in (0 when the client left     *)
(* them out).                                                              *)
(***************************************************************************)
EXTENDS Naturals

CONSTANT Nil        \* the absent object

Exists(o) == o # Nil

\* The object the server stores for a Create, v being the next version.
Created(m, v) == [m EXCEPT !.uid = v, !.rv = v, !.terminating = FALSE]

\* An Update that carries resourceVersion v is accepted when the object is
\* there and v is its version; an Update without one (v = 0) is
\* unconditional.
Accepts(o, v) == Exists(o) /\ v \in {0, o.rv}

\* The manifest m over the identity, version and deletion mark of o.
Over(o, m) == [m EXCEPT !.uid = o.uid, !.rv = o.rv, !.terminating = o.terminating]

\* What an accepted Update of o to m leaves; v is the next version.  An Update
\* that changes nothing keeps the version.  A manifest built from scratch has
\* no finalizers: applied to an object under foreground deletion it removes
\* the last finalizer, and the server deletes the object at once.
Replaced(o, m, v) ==
    IF o.terminating THEN Nil
    ELSE IF Over(o, m) = o THEN o
    ELSE [Over(o, m) EXCEPT !.rv = v]

\* An accepted Update whose manifest is the object read by a Get, finalizers
\* included, with some fields changed.
Edited(o, m, v) == IF Over(o, m) = o THEN o ELSE [Over(o, m) EXCEPT !.rv = v]

\* A Delete with foreground propagation only marks the object: the garbage
\* collector removes it once its dependents are gone.
Marked(o, v) == IF o.terminating THEN o ELSE [o EXCEPT !.terminating = TRUE, !.rv = v]
=============================================================================
