------------------------------ MODULE Listener ------------------------------
(***************************************************************************)
(* The accept loop of the Patina server (server.rs, Server::serve).  Every *)
(* accepted socket gets a detached task of its own; the loop ends when     *)
(* accept() fails, or when the owner of its future drops it.               *)
(***************************************************************************)
CONSTANT Conns  \* connections that clients open to the listener

VARIABLES
  serve,  \* where Server::serve is
  conn    \* where each connection is

lvars == <<serve, conn>>

Goto(c, s) ==
  /\ conn' = [conn EXCEPT ![c] = s]
  /\ UNCHANGED serve

LInit ==
  /\ serve = "accept"
  /\ conn = [c \in Conns |-> "none"]

(* The kernel completes a connect() while the listener is open. *)
Connect(c) ==
  /\ serve = "accept"
  /\ conn[c] = "none"
  /\ Goto(c, "backlog")

(* Mutant: the loop serves a connection to its end before it accepts another. *)
AcceptInline(c) ==
  /\ serve = "accept"
  /\ \A d \in Conns : conn[d] # "serving"
  /\ conn[c] = "backlog"
  /\ Goto(c, "serving")

(* accept() returns a socket and a task is spawned for it. *)
Accept(c) ==
  /\ serve = "accept"
  /\ conn[c] = "backlog"
  /\ Goto(c, "serving")

(* The task of a connection ends; an error is logged and the loop goes on. *)
ConnectionEnds(c) ==
  /\ conn[c] = "serving"
  /\ Goto(c, "ended")

(* accept() fails and serve() returns the error, or its future is dropped: *)
(* the listener closes, the tasks spawned so far run on.                   *)
ServeEnds ==
  /\ serve = "accept"
  /\ serve' = "ended"
  /\ UNCHANGED conn

(* The kernel resets a connection that was never accepted. *)
Refuse(c) ==
  /\ serve = "ended"
  /\ conn[c] = "backlog"
  /\ Goto(c, "refused")

(* The loop is one task: while some connection waits it accepts one, the      *)
(* kernel says which.                                                         *)
LoopFairness == WF_lvars(\E c \in Conns : Accept(c))
KernelFairness == \A c \in Conns : WF_lvars(Refuse(c))
=============================================================================
