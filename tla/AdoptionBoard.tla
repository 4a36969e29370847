---------------------------- MODULE AdoptionBoard ----------------------------
(***************************************************************************)
(* What the adoption side of the application promises its users, without   *)
(* timers, lists, caches or screens: a board of announcements and of the   *)
(* requests made for them.  An announcement starts available and keeps     *)
(* its owner for ever; a request starts pending and stays attached to the  *)
(* announcement it was made for; a step touches one of them, whole, and    *)
(* nothing disappears unless it is withdrawn.                              *)
(***************************************************************************)
CONSTANTS
  Ids,        \* identifiers of announcements and of requests
  Owners,     \* who publishes
  Bodies      \* everything in a publication but its owner and its status

AdoptionStatuses == {"disponible", "en proceso", "adoptado"}
RequestStatuses  == {"pendiente", "aprobada", "rechazada"}

VARIABLES
  board,      \* announcement id -> its owner, body and status
  asked       \* request id -> the announcement it is for, and its status

boardVars == <<board, asked>>

Published(owner, body) ==
  [owner |-> owner, body |-> body, status |-> "disponible"]

With(f, id, value) ==
  [other \in DOMAIN f \cup {id} |-> IF other = id THEN value ELSE f[other]]

BoardInit ==
  /\ \A id \in DOMAIN board :
       id \in Ids /\ board[id] \in {Published(o, b) : o \in Owners, b \in Bodies}
  /\ \A id \in DOMAIN asked :
       id \in Ids /\ asked[id].status = "pendiente"

Publish(id, owner, body) ==
  /\ id \in Ids
  /\ board' = With(board, id, Published(owner, body))
  /\ UNCHANGED asked

\* The announcement is rewritten, status included, its owner is not.
Edit(id, body, status) ==
  /\ board' = [board EXCEPT ![id].body = body, ![id].status = status]
  /\ UNCHANGED asked

Move(id, status) ==
  /\ board' = [board EXCEPT ![id].status = status]
  /\ UNCHANGED asked

Withdraw(id) ==
  /\ board' = [other \in DOMAIN board \ {id} |-> board[other]]
  /\ UNCHANGED asked

\* A request may name an announcement that is no longer on the board.
Ask(id, adoption) ==
  /\ id \in Ids
  /\ asked' = With(asked, id, [adoption |-> adoption, status |-> "pendiente"])
  /\ UNCHANGED board

Decide(id, status) ==
  /\ asked' = [asked EXCEPT ![id].status = status]
  /\ UNCHANGED board

BoardNext ==
  \/ \E id \in DOMAIN board' \ DOMAIN board, o \in Owners, b \in Bodies :
       Publish(id, o, b)
  \/ \E id \in DOMAIN board :
       \/ \E b \in Bodies, s \in AdoptionStatuses : Edit(id, b, s)
       \/ \E s \in AdoptionStatuses : Move(id, s)
       \/ Withdraw(id)
  \/ \E id \in DOMAIN asked' \ DOMAIN asked : Ask(id, asked'[id].adoption)
  \/ \E id \in DOMAIN asked, s \in RequestStatuses : Decide(id, s)

BoardSpec == BoardInit /\ [][BoardNext]_boardVars
=============================================================================
