----------------------------- MODULE Dashboard ------------------------------
(***************************************************************************)
(* The live statistics of dashboard/dashboard.service.ts.  Handlers of     *)
(* OrdersService save an order and then, without waiting for it, have the  *)
(* statistics computed and pushed to the open stream; a computation makes  *)
(* its queries, of periods that it fixed before, while orders go on        *)
(* changing.                                                               *)
(*                                                                         *)
(* An order is what the queries look at.  Which save overwrites which is   *)
(* in Orders: here a handler is its save and its notice.  Customers and    *)
(* products in stock, which are counted in the same way and whose changes  *)
(* notify nobody, are left out.                                            *)
(***************************************************************************)
EXTENDS Integers, FiniteSets, FiniteSetsExt

CONSTANTS
  Sales,        \* orders
  InitSales,    \* the collections a behaviour may start with
  Worth,        \* what the items of every order cost
  MonthLength,  \* days of a month
  TrendDays,    \* days of the trend, 7 in the code
  UrgentDays,   \* days after which a pending proof is urgent, 3 in the code
  MaxNow,       \* bound on time, in half days
  Managers,     \* handler slots, each used for one call
  Pushes        \* computations of statistics

(* "paid" stands for pagada, en_produccion, enviada and completada, "off"  *)
(* for cancelada and archivada; pending: a proof waits for its approval.   *)
StatusGroups == {"esperando_pago", "paid", "off"}
SaleDocs == [time : Nat, status : StatusGroups, pending : BOOLEAN]

ASSUME DashboardAssumption ==
  /\ IsFiniteSet(Sales) /\ Sales # {}
  /\ Worth \in [Sales -> Nat \ {0}]
  /\ MonthLength \in Nat \ {0} /\ TrendDays \in Nat /\ UrgentDays \in Nat
  /\ MaxNow \in Nat
  /\ \A s \in InitSales : s.now \in 0..MaxNow /\ s.sales \in [Sales -> SaleDocs]

VARIABLES
  now,        \* the time in half days: midnight is even
  sales,      \* collection "orders"
  notified,   \* history: the last change was a handler's that notifies
  manager,    \* every handler: its call and how far it is
  push,       \* every computation: what it has read, and when it began
  newest,     \* history: the computation begun last, 0 before the first
  screen      \* the open stream and what it showed last

dashboardVars == <<now, sales, notified, manager, push, newest, screen>>

(* What a computation queries: the sales of this month and of the last,    *)
(* then those of the days of the trend from the first to today, which is   *)
(* day 0; meanwhile the pending proofs and the sales of today.             *)
Month == <<"month", 0>>
LastMonth == <<"lastMonth", 0>>
Facts == {Month, LastMonth, <<"pending", 0>>, <<"today", 0>>}
         \cup {<<"trend", day>> : day \in 0 .. TrendDays - 1}

QueriedBefore(fact) ==
  {f \in Facts : \/ fact = LastMonth /\ f = Month
                 \/ fact[1] = "trend" /\ f \in {Month, LastMonth}
                 \/ fact[1] = "trend" /\ f[1] = "trend" /\ f[2] > fact[2]}

Unread == [f \in Facts |-> [count |-> 0, total |-> 0]]

(* Calls that change what is counted; the last four notify nobody.         *)
ManagerCalls ==
  [op : {"updatePaymentProof"}, to : {"pending", "verified", "rejected"}]
  \cup [op : {"updateStatus"}, to : StatusGroups]
  \cup [op : {"updateTracking", "unarchiveOrder"}, to : {"paid"}]
  \cup [op : {"cancelOrder", "archiveOrder"}, to : {"off"}]

NotifiesDashboard(c) == c.op \in {"updatePaymentProof", "updateStatus"}

IdleManager == [step |-> 1, sale |-> CHOOSE o \in Sales : TRUE,
                call |-> CHOOSE c \in ManagerCalls : TRUE, started |-> FALSE]
IdlePush == [pc |-> "new", kind |-> "update", read |-> {}, stats |-> Unread,
             began |-> 0, trendFrom |-> 0]

DashboardTypeOK ==
  /\ now \in 0..MaxNow
  /\ sales \in [Sales -> SaleDocs]
  /\ \A m \in Managers : manager[m].step \in 1..3 /\ manager[m].call \in ManagerCalls
  /\ \A p \in Pushes : push[p].pc \in {"new", "reading", "done"} /\ push[p].read \subseteq Facts
  /\ newest \in Pushes \cup {0}
  /\ screen.open \in BOOLEAN /\ screen.by \in Pushes \cup {0}

DashboardInit ==
  /\ \E s \in InitSales : now = s.now /\ sales = s.sales
  /\ notified = FALSE
  /\ manager = [m \in Managers |-> IdleManager]
  /\ push = [p \in Pushes |-> IdlePush]
  /\ newest = 0
  /\ screen = [open |-> FALSE, stats |-> Unread, by |-> 0]

-----------------------------------------------------------------------------
Midnight(t) == t - (t % 2)
StartOfMonth(t) == t - (t % (2 * MonthLength))

(* An order document has no field total: the sums take 0 for it.           *)
StoredTotal(o) == 0

(* The paid orders of a period, and the sum of their totals.               *)
PaidSales(from, to) ==
  LET of == {o \in Sales : sales[o].status = "paid" /\ from <= sales[o].time /\ sales[o].time <= to}
  IN  [count |-> Cardinality(of), total |-> MapThenSumSet(StoredTotal, of)]

SumOnly(stat) == [stat EXCEPT !.count = 0]

(* What each query of getStats answers for the periods of time at; the     *)
(* last month is queried up to the midnight before its last day.           *)
Stat(fact, at) ==
  CASE fact[1] = "month" -> SumOnly(PaidSales(StartOfMonth(at), MaxNow))
    [] fact[1] = "lastMonth" ->
         SumOnly(PaidSales(StartOfMonth(at) - 2 * MonthLength, StartOfMonth(at) - 2))
    [] fact[1] = "trend" ->
         SumOnly(PaidSales(Midnight(at) - 2 * fact[2], Midnight(at) - 2 * fact[2] + 1))
    [] fact[1] = "today" -> PaidSales(Midnight(at), Midnight(at) + 1)
    [] fact[1] = "pending" ->  \* the number of pending proofs, and of urgent ones
         [count |-> Cardinality({o \in Sales : sales[o].pending}),
          total |-> Cardinality({o \in Sales :
                      sales[o].pending /\ sales[o].time < at - 2 * UrgentDays})]

-----------------------------------------------------------------------------
Begin(p, kind) ==
  /\ push[p].pc = "new"
  /\ push' = [push EXCEPT ![p] =
                [IdlePush EXCEPT !.pc = "reading", !.kind = kind, !.began = now]]
  /\ newest' = p

(* getStatsStream: the stream is attached at once, its first statistics    *)
(* are computed meanwhile.                                                 *)
OpenStream(p) ==
  /\ ~ screen.open
  /\ screen' = [screen EXCEPT !.open = TRUE]
  /\ Begin(p, "initial")
  /\ UNCHANGED <<now, sales, notified, manager>>

CloseStream ==
  /\ screen.open
  /\ screen' = [screen EXCEPT !.open = FALSE, !.by = 0]
  /\ UNCHANGED <<now, sales, notified, manager, push, newest>>

(* The periods are those of the time when the computation began, the days  *)
(* of the trend those of the time when the last month had been read.       *)
PeriodsOf(p, fact) == IF fact[1] = "trend" THEN push[p].trendFrom ELSE push[p].began

ReadStat(p, fact) ==
  /\ push[p].pc = "reading" /\ fact \notin push[p].read
  /\ QueriedBefore(fact) \subseteq push[p].read
  /\ push' = [push EXCEPT ![p].read = @ \cup {fact},
                          ![p].stats[fact] = Stat(fact, PeriodsOf(p, fact)),
                          ![p].trendFrom = IF fact = LastMonth THEN now ELSE @]
  /\ UNCHANGED <<now, sales, notified, manager, newest, screen>>

(* The statistics are shown, or nothing is since a query failed.           *)
FinishPush(p) ==
  /\ push[p].pc = "reading"
  /\ push' = [push EXCEPT ![p].pc = "done"]
  /\ \/ /\ push[p].read = Facts /\ screen.open
        /\ screen' = [screen EXCEPT !.stats = push[p].stats, !.by = p]
     \/ UNCHANGED screen
  /\ UNCHANGED <<now, sales, notified, manager, newest>>

-----------------------------------------------------------------------------
(* Faulty variant: the dashboard is notified before the order is saved.    *)
HandlerStepsNotifyFirst == <<"notify", "save">>

HandlerSteps == <<"save", "notify">>

(* A manager, the customer or the gateway calls a handler, ...             *)
CallHandler(m, c, o) ==
  /\ ~ manager[m].started
  /\ c.op = "unarchiveOrder" => sales[o].status = "off"
  /\ manager' = [manager EXCEPT ![m] = [step |-> 1, sale |-> o, call |-> c, started |-> TRUE]]
  /\ UNCHANGED <<now, sales, notified, push, newest, screen>>

AtStep(m, step) ==
  /\ manager[m].started /\ manager[m].step \in DOMAIN HandlerSteps
  /\ HandlerSteps[manager[m].step] = step
  /\ manager' = [manager EXCEPT ![m].step = @ + 1]

(* ... which saves the order ...                                           *)
SaveSale(m) ==
  LET c == manager[m].call
      doc == sales[manager[m].sale]
  IN
  /\ AtStep(m, "save")
  /\ sales' = [sales EXCEPT ![manager[m].sale] =
       IF c.op = "updatePaymentProof"
         THEN [doc EXCEPT !.pending = c.to = "pending",
                          !.status = IF c.to = "verified" /\ @ = "esperando_pago"
                                       THEN "paid" ELSE @]
         ELSE [doc EXCEPT !.status = c.to,
                          !.pending = @ /\ ~ (c.op = "updateStatus" /\ c.to = "paid")]]
  /\ notified' = NotifiesDashboard(c)
  /\ UNCHANGED <<now, push, newest, screen>>

(* ... and has the statistics computed, if it is one that does.            *)
NotifyStatsUpdate(m) ==
  /\ AtStep(m, "notify")
  /\ IF NotifiesDashboard(manager[m].call)
       THEN \E p \in Pushes : Begin(p, "update")
       ELSE UNCHANGED <<push, newest>>
  /\ UNCHANGED <<now, sales, notified, screen>>

Tick ==
  /\ now < MaxNow
  /\ now' = now + 1
  /\ notified' = FALSE
  /\ UNCHANGED <<sales, manager, push, newest, screen>>

DashboardNext ==
  \/ Tick
  \/ CloseStream
  \/ \E p \in Pushes :
       OpenStream(p) \/ FinishPush(p) \/ \E fact \in Facts : ReadStat(p, fact)
  \/ \E m \in Managers :
       \/ \E c \in ManagerCalls, o \in Sales : CallHandler(m, c, o)
       \/ SaveSale(m) \/ NotifyStatsUpdate(m)

DashboardSpec == DashboardInit /\ [][DashboardNext]_dashboardVars
=============================================================================
