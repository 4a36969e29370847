----------------------------- MODULE RouteStack -----------------------------
(***************************************************************************)
(* The history of a Navigator: entries from the bottom to the top, each a  *)
(* route and where it is in its life.  Only entries that are pushing or    *)
(* idle are present; the others are on their way out, but their screens    *)
(* are still mounted.                                                      *)
(***************************************************************************)
EXTENDS Naturals, SequencesExt, FiniteSetsExt

Phases == {"pushing", "idle", "popping", "removing"}
NoRoute == 0

Entry(route, phase) == [route |-> route, phase |-> phase]

Present(entry) == entry.phase \in {"pushing", "idle"}
PresentAt(history) == {k \in DOMAIN history : Present(history[k])}

\* The topmost and the first present route, if any is.
Top(history) ==
  IF PresentAt(history) = {} THEN NoRoute ELSE history[Max(PresentAt(history))].route
Bottom(history) ==
  IF PresentAt(history) = {} THEN NoRoute ELSE history[Min(PresentAt(history))].route

\* The routes whose screens are mounted.
Mounted(history) == {history[k].route : k \in DOMAIN history}

InPhase(history, route, phase) ==
  [k \in DOMAIN history |->
     IF history[k].route = route THEN Entry(route, phase) ELSE history[k]]

\* The entries at some positions, in their order.
Only(history, kept) ==
  [n \in 1..Cardinality(kept) |->
     history[CHOOSE k \in kept : Cardinality({j \in kept : j <= k}) = n]]

\* A replaced route is disposed of once a route above it has arrived, or is
\* being popped, or when none is left above it that stays.
Flush(history, popped) ==
  LET Above(k) == {history[j] : j \in {i \in DOMAIN history : i > k}}
  IN  Only(history, {k \in DOMAIN history :
        history[k].phase = "removing" =>
          /\ \A other \in Above(k) : other.phase # "idle" /\ other.route # popped
          /\ \E other \in Above(k) : other.phase # "removing"})

Push(history, route) == Flush(Append(history, Entry(route, "pushing")), NoRoute)

Pop(history) == Flush(InPhase(history, Top(history), "popping"), Top(history))

Replace(history, route) ==
  Flush(Append(InPhase(history, Top(history), "removing"), Entry(route, "pushing")), NoRoute)

\* The transition of a pushed route has ended; it may be on its way out by now.
Entered(history, route) ==
  IF Entry(route, "pushing") \in Range(history)
  THEN Flush(InPhase(history, route, "idle"), NoRoute)
  ELSE history

\* So has that of a popped one.
Exited(history, route) ==
  Flush(Only(history, {k \in DOMAIN history : history[k].route # route}), NoRoute)
=============================================================================
