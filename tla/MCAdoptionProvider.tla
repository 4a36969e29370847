------------------------- MODULE MCAdoptionProvider -------------------------
(***************************************************************************)
(* AdoptionProvider for TLC, from one of the mock service's seeds, the     *)
(* adoption of user1.  Three overlapping calls and two creations at once   *)
(* are out of reach, so each behaviour has one or the other.               *)
(***************************************************************************)
EXTENDS AdoptionProvider

OneSeed == <<[owner |-> "user1", body |-> "b1"]>>

VARIABLE scenario
mcVars == <<vars, scenario>>

\* With "calls" nothing is created and no request is decided.  With
\* "creations" fewer calls overlap, none selects an adoption, and statuses and
\* bodies change less.
Within ==
  /\ scenario = "calls" =>
       \A i \in DOMAIN pending :
         pending[i].op \notin {"upload", "create", "ask", "decide"}
  /\ scenario = "creations" =>
       /\ Len(pending) < MaxPending
       /\ \A i \in DOMAIN pending :
            /\ pending[i].op \notin {"select", "move"}
            /\ pending[i].op \in {"upload", "create"} => pending[i].body = "b1"
            /\ pending[i].op = "update" => pending[i].rec.body = "b1"

MCInit == Init /\ scenario \in {"calls", "creations"}
MCNext == UNCHANGED scenario /\ Next /\ Within'
MCSpec == MCInit /\ [][MCNext]_mcVars
=============================================================================
