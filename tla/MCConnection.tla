---------------------------- MODULE MCConnection ----------------------------
(***************************************************************************)
(* Small instances of Connection for TLC.                                  *)
(***************************************************************************)
EXTENDS Connection, FiniteSets

CONSTANT MaxLoad  \* bound: how much may happen on the link in one behaviour

(* The frames either end may meet on the link. *)
LinkFrames == Requests \cup Replies \cup {Malformed}

(* The calls started, the other connections opened and the faults so far. *)
Load ==
  Cardinality({c \in Calls : call[c] # "idle"})
    + Cardinality({c \in Others : conn[c] # "none"})
    + (IF dispatcher = "aborted" THEN 1 ELSE 0)
    + (IF reset THEN 1 ELSE 0)

(* LinkLive within the bound, which holds back none of the steps that *)
(* LinkFairness promises.                                             *)
LoadNext ==
  /\ LinkNext
  /\ Load' > Load => Load < MaxLoad \/ (ResetIsDue /\ reset' # reset)

LoadLive == LinkInit /\ [][LoadNext]_linkVars /\ LinkFairness
=============================================================================
