--------------------------- MODULE DashboardProps ---------------------------
(***************************************************************************)
(* Correctness of the live statistics: properties of module Dashboard.     *)
(***************************************************************************)
EXTENDS Dashboard

(* Handlers and computations have come to an end, and what is on the       *)
(* screen is of the computation begun last, none having overtaken it.      *)
AtRest ==
  /\ \A m \in Managers : manager[m].started => manager[m].step = 3
  /\ \A p \in Pushes : push[p].pc # "reading"
  /\ screen.open /\ screen.by = newest /\ newest # 0

(* After a proof or a status was changed, a stream at rest shows what the  *)
(* orders are: no later computation has read them before the change.       *)
FreshAtRest ==
  AtRest /\ notified => screen.stats = [f \in Facts |-> Stat(f, now)]

(* Today's sales on the screen are what the orders paid today cost.        *)
SalesCounted ==
  AtRest /\ notified =>
    screen.stats[<<"today", 0>>].total =
      MapThenSumSet(LAMBDA o : Worth[o],
        {o \in Sales : sales[o].status = "paid" /\ sales[o].time >= Midnight(now)})
=============================================================================
