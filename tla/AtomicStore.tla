---------------------------- MODULE AtomicStore -----------------------------
(***************************************************************************)
(* What the cluster state promises to the callers of clusterize,           *)
(* clusterize_finalization and report, and to scale_up when it records an  *)
(* update: a request takes effect on the state at most once, in one step   *)
(* between its call and its answer, and it is answered with success only   *)
(* if it did.  There is no blob, no lease and no copy of the state here.   *)
(***************************************************************************)
EXTENDS Naturals, Sequences

CONSTANTS Handlers, Requests, InitialSize, NoRequest

VARIABLES
  instances, clusterized, reports, updates,   \* the state
  request,  \* the request each handler serves and has not failed
  done,     \* the handlers whose request has taken effect
  acked     \* the requests answered with success

store == <<instances, clusterized, reports, updates>>

history == <<store, request, done, acked>>

Init ==
  /\ instances = <<>> /\ ~clusterized /\ reports = {} /\ updates = {}
  /\ request = [h \in Handlers |-> NoRequest]
  /\ done = {} /\ acked = {}

Receive(h) ==
  /\ request[h] = NoRequest
  /\ \E c \in Requests : request' = [request EXCEPT ![h] = c]
  /\ UNCHANGED <<store, done, acked>>

\* A machine is added to the list of those that wait for the cluster.
Registers(c) ==
  /\ c.op = "clusterize" /\ ~clusterized /\ Len(instances) < InitialSize
  /\ instances' = Append(instances, c.arg)
  /\ UNCHANGED <<clusterized, reports, updates>>

\* The list is closed for good.
Closes(c) ==
  /\ c.op = "finalize" /\ instances' = <<>> /\ clusterized' = TRUE
  /\ UNCHANGED <<reports, updates>>

\* A report or an update is added to the ones there are.
Records(c) ==
  /\ \/ /\ c.op = "report" /\ reports' = reports \cup {c.arg}
        /\ UNCHANGED updates
     \/ /\ c.op = "update" /\ updates' = updates \cup {c.arg}
        /\ UNCHANGED reports
  /\ UNCHANGED <<instances, clusterized>>

Effect(c) == Registers(c) \/ Closes(c) \/ Records(c)

Serve(h) ==
  /\ request[h] # NoRequest /\ h \notin done
  /\ Effect(request[h])
  /\ done' = done \cup {h}
  /\ UNCHANGED <<request, acked>>

\* The request fails, or is refused, or lost.  That it took effect all the
\* same is possible only in this step: it does not take effect later.
Fail(h) ==
  /\ request[h] # NoRequest
  /\ (h \notin done /\ Effect(request[h])) \/ UNCHANGED store
  /\ request' = [request EXCEPT ![h] = NoRequest]
  /\ done' = done \ {h}
  /\ UNCHANGED acked

Answer(h) ==
  /\ h \in done
  /\ acked' = acked \cup {request[h]}
  /\ request' = [request EXCEPT ![h] = NoRequest]
  /\ done' = done \ {h}
  /\ UNCHANGED store

Next == \E h \in Handlers : Receive(h) \/ Serve(h) \/ Fail(h) \/ Answer(h)

Spec == Init /\ [][Next]_history
=============================================================================
