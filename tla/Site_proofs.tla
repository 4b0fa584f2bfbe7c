---------------------------- MODULE Site_proofs -----------------------------
(***************************************************************************)
(* Proofs about the live statistics for every set of orders, any number of *)
(* handlers and computations at a time, and every length of time; about    *)
(* the game for every set of accounts, connections and rewards, and any    *)
(* number of updates on their way to the database; and about the parts of  *)
(* the site put together.                                                  *)
(***************************************************************************)
EXTENDS MCSite, Accounts_proofs, Catalog_proofs

(* What a computation has read is still so, and its periods are those of   *)
(* now; a handler that notifies has saved its order and not yet notified.  *)
Fresh(p) ==
  /\ push[p].began = now
  /\ LastMonth \in push[p].read => push[p].trendFrom = now
  /\ \A f \in push[p].read : push[p].stats[f] = Stat(f, now)

Owing == \E m \in Managers :
           /\ manager[m].started /\ manager[m].step = 2
           /\ NotifiesDashboard(manager[m].call)

(* The documents of handlers and computations have their fields; A holds   *)
(* the answers of the queries so far and the times.                        *)
Handlers == [step : Int, sale : Sales, call : ManagerCalls, started : BOOLEAN]
Computations(A) == [pc : {"new", "reading", "done"}, kind : {"initial", "update"},
                    read : SUBSET Facts, stats : [Facts -> A],
                    began : A, trendFrom : A]
Screens(A) == [open : BOOLEAN, stats : [Facts -> A], by : Pushes \cup {0}]

Shapes ==
  /\ manager \in [Managers -> Handlers]
  /\ \E A : push \in [Pushes -> Computations(A)] /\ screen \in Screens(A)

(* What is on the screen is what the computation that showed it has read.  *)
ShownIsRead ==
  screen.by # 0 =>
    /\ screen.by \in Pushes
    /\ push[screen.by].pc = "done" /\ push[screen.by].read = Facts
    /\ screen.stats = push[screen.by].stats

(* The inductive invariant: after a change that notifies, either its       *)
(* handler is still to notify or the computation begun last has read       *)
(* nothing that changed since.                                             *)
FreshInv ==
  /\ Shapes /\ ShownIsRead
  /\ newest # 0 => newest \in Pushes
  /\ notified => Owing \/ (newest # 0 => Fresh(newest))

LEMMA FreshInit == DashboardInit => FreshInv
<1> SUFFICES ASSUME DashboardInit PROVE FreshInv
  OBVIOUS
<1>1. IdleManager \in Handlers
  <2>1. (CHOOSE o \in Sales : TRUE) \in Sales
    BY DashboardAssumption
  <2>2. (CHOOSE c \in ManagerCalls : TRUE) \in ManagerCalls
    <3>1. [op |-> "cancelOrder", to |-> "off"] \in ManagerCalls
      BY DEF ManagerCalls
    <3> QED
      BY <3>1
  <2> QED
    BY <2>1, <2>2 DEF IdleManager, Handlers
<1> DEFINE A == {[count |-> 0, total |-> 0], 0}
<1>2. Unread \in [Facts -> A] /\ 0 \in A
  BY DEF Unread
<1>3. IdlePush \in Computations(A) /\ [open |-> FALSE, stats |-> Unread, by |-> 0] \in Screens(A)
  <2> HIDE DEF A
  <2> QED
    BY <1>2 DEF IdlePush, Computations, Screens
<1>4. push \in [Pushes -> Computations(A)] /\ screen \in Screens(A)
  BY <1>3 DEF DashboardInit
<1>5. Shapes
  <2> HIDE DEF A
  <2> QED
    BY <1>1, <1>4 DEF DashboardInit, Shapes
<1> QED
  BY <1>5 DEF DashboardInit, FreshInv, ShownIsRead

(* A computation begins: it becomes the newest, and has read nothing.      *)
LEMMA BeginFresh ==
  ASSUME FreshInv, NEW p \in Pushes, NEW kind \in {"initial", "update"}, Begin(p, kind),
         NEW open \in BOOLEAN, screen' = [screen EXCEPT !.open = open], now' = now
  PROVE  /\ \E A : push' \in [Pushes -> Computations(A)] /\ screen' \in Screens(A)
         /\ ShownIsRead'
         /\ newest' \in Pushes /\ Fresh(newest)'
<1>1. /\ push[p].pc = "new" /\ newest' = p
      /\ push' = [push EXCEPT ![p] =
                    [IdlePush EXCEPT !.pc = "reading", !.kind = kind, !.began = now]]
  BY DEF Begin
<1>2. PICK A : push \in [Pushes -> Computations(A)] /\ screen \in Screens(A)
  BY DEF FreshInv, Shapes
<1> DEFINE B == A \cup {[count |-> 0, total |-> 0], 0, now}
           new == [IdlePush EXCEPT !.pc = "reading", !.kind = kind, !.began = now]
<1>3. Unread \in [Facts -> B] /\ 0 \in B /\ now \in B
  BY DEF Unread
<1>4. IdlePush \in Computations(B)
  <2> HIDE DEF B
  <2> QED
    BY <1>3 DEF IdlePush, Computations
<1>5. new \in Computations(B) /\ new.read = {} /\ new.began = now
  <2>1. new \in Computations(B) /\ new.began = now
    <3> HIDE DEF B
    <3> QED
      BY <1>3, <1>4 DEF Computations
  <2> QED
    BY <2>1 DEF IdlePush
<1>6. Computations(A) \subseteq Computations(B) /\ Screens(A) \subseteq Screens(B)
  <2>1. [Facts -> A] \subseteq [Facts -> B] /\ A \subseteq B
    OBVIOUS
  <2> HIDE DEF B
  <2> QED
    BY <2>1 DEF Computations, Screens
<1> HIDE DEF B, new
<1>7. push' \in [Pushes -> Computations(B)]
  BY <1>1, <1>2, <1>5, <1>6 DEF new
<1>8. /\ screen' \in Screens(B) /\ screen'.by = screen.by /\ screen'.stats = screen.stats
  BY <1>2, <1>6 DEF Screens
<1>9. push'[p] = new /\ \A q \in Pushes \ {p} : push'[q] = push[q]
  BY <1>1, <1>2 DEF new
<1>10. ShownIsRead'
  BY <1>1, <1>8, <1>9 DEF FreshInv, ShownIsRead
<1>11. Fresh(newest)'
  BY <1>1, <1>5, <1>9 DEF Fresh
<1> QED
  BY <1>1, <1>7, <1>8, <1>10, <1>11

(* A query of a computation is answered.                                   *)
LEMMA ReadFresh ==
  ASSUME FreshInv, NEW p \in Pushes, NEW fact \in Facts, ReadStat(p, fact)
  PROVE  FreshInv'
<1>1. /\ push[p].pc = "reading" /\ QueriedBefore(fact) \subseteq push[p].read
      /\ push' = [push EXCEPT ![p].read = @ \cup {fact},
                              ![p].stats[fact] = Stat(fact, PeriodsOf(p, fact)),
                              ![p].trendFrom = IF fact = LastMonth THEN now ELSE @]
      /\ UNCHANGED <<now, sales, notified, manager, newest, screen>>
  BY DEF ReadStat
<1>2. PICK A : push \in [Pushes -> Computations(A)] /\ screen \in Screens(A)
  BY DEF FreshInv, Shapes
<1>3. PICK answer : answer = Stat(fact, PeriodsOf(p, fact))
  OBVIOUS
<1> DEFINE B == A \cup {answer, now}
           old == push[p]
           stats == [old.stats EXCEPT ![fact] = answer]
           from == IF fact = LastMonth THEN now ELSE old.trendFrom
           new == [old EXCEPT !.read = old.read \cup {fact}, !.stats = stats,
                              !.trendFrom = from]
<1>4. Computations(A) \subseteq Computations(B) /\ Screens(A) \subseteq Screens(B)
  <2>1. [Facts -> A] \subseteq [Facts -> B] /\ A \subseteq B
    OBVIOUS
  <2> HIDE DEF B
  <2> QED
    BY <2>1 DEF Computations, Screens
<1>5. old \in Computations(A) /\ old \in Computations(B)
  BY <1>2, <1>4
<1>6. /\ old.read \subseteq Facts /\ old.stats \in [Facts -> A] /\ from \in B
  <2> HIDE DEF old
  <2> QED
    BY <1>5 DEF Computations
<1>7. stats \in [Facts -> B] /\ stats[fact] = answer
      /\ \A f \in Facts \ {fact} : stats[f] = old.stats[f]
  <2> HIDE DEF old
  <2> QED
    BY <1>6
<1>8. /\ new \in Computations(B) /\ new.pc = old.pc /\ new.stats = stats
      /\ new.read = old.read \cup {fact} /\ new.began = old.began
      /\ new.trendFrom = from
  <2> HIDE DEF old, stats, from, B
  <2> QED
    BY <1>5, <1>6, <1>7 DEF Computations
<1>9. push' = [push EXCEPT ![p] = new]
  BY <1>1, <1>2, <1>3
<1> HIDE DEF new, stats, B
<1>10. /\ push' \in [Pushes -> Computations(B)] /\ push'[p] = new
       /\ \A q \in Pushes \ {p} : push'[q] = push[q]
  BY <1>2, <1>4, <1>8, <1>9
<1>11. Shapes'
  <2>1. screen' \in Screens(B)
    BY <1>1, <1>2, <1>4
  <2> QED
    BY <1>1, <1>10, <2>1 DEF FreshInv, Shapes
<1>12. ShownIsRead'
  BY <1>1, <1>10 DEF FreshInv, ShownIsRead
<1>13. \A f \in Facts : Stat(f, now)' = Stat(f, now)
  BY <1>1 DEF Stat, PaidSales
<1>14. ASSUME newest # 0, Fresh(newest)
       PROVE  Fresh(newest)'
  <2>1. newest \in Pushes /\ newest' = newest
    BY <1>1, <1>14 DEF FreshInv
  <2>2. CASE newest = p
    <3>1. old.began = now /\ (LastMonth \in old.read => old.trendFrom = now)
      BY <1>14, <2>2 DEF Fresh
    <3>2. fact[1] = "trend" => LastMonth \in old.read
      BY <1>1 DEF QueriedBefore, Facts
    <3>3. answer = Stat(fact, now)
      BY <1>3, <3>1, <3>2 DEF PeriodsOf
    <3>4. ASSUME NEW f \in push'[p].read
          PROVE  push'[p].stats[f] = Stat(f, now)'
      <4>1. f \in Facts /\ (f = fact \/ f \in old.read)
        BY <1>6, <1>8, <1>10, <3>4
      <4>2. f # fact => old.stats[f] = Stat(f, now)
        BY <1>14, <2>2, <4>1 DEF Fresh
      <4> HIDE DEF old
      <4> QED
        BY <1>7, <1>8, <1>10, <1>13, <3>3, <4>1, <4>2
    <3>5. /\ push'[p].began = now'
          /\ LastMonth \in push'[p].read => push'[p].trendFrom = now'
      <4> HIDE DEF old
      <4> QED
        BY <1>1, <1>8, <1>10, <3>1 DEF from
    <3> QED
      BY <2>1, <2>2, <3>4, <3>5 DEF Fresh
  <2>3. CASE newest # p
    <3>1. push'[newest] = push[newest] /\ push[newest].read \subseteq Facts
      <4>1. push[newest] \in Computations(A)
        BY <1>2, <2>1
      <4> QED
        BY <1>10, <2>1, <2>3, <4>1 DEF Computations
    <3> QED
      BY <1>1, <1>13, <1>14, <2>1, <3>1 DEF Fresh
  <2> QED
    BY <2>2, <2>3
<1>15. Owing => Owing'
  BY <1>1 DEF Owing
<1> QED
  BY <1>1, <1>11, <1>12, <1>14, <1>15 DEF FreshInv

(* A computation ends; the stream opens or closes.                         *)
LEMMA ScreenFresh ==
  ASSUME FreshInv,
         CloseStream \/ \E p \in Pushes : OpenStream(p) \/ FinishPush(p)
  PROVE  FreshInv'
<1>0. /\ manager \in [Managers -> Handlers] /\ ShownIsRead
      /\ newest # 0 => newest \in Pushes
  BY DEF FreshInv, Shapes
<1>1. PICK A : push \in [Pushes -> Computations(A)] /\ screen \in Screens(A)
  BY DEF FreshInv, Shapes
<1>2. CASE CloseStream
  <2>1. /\ screen' = [screen EXCEPT !.open = FALSE, !.by = 0]
        /\ UNCHANGED <<now, sales, notified, manager, push, newest>>
    BY <1>2 DEF CloseStream
  <2>2. screen' \in Screens(A) /\ screen'.by = 0
    BY <1>1, <2>1 DEF Screens
  <2>3. Shapes' /\ ShownIsRead'
    BY <1>0, <1>1, <2>1, <2>2 DEF Shapes, ShownIsRead
  <2>4. (Owing <=> Owing') /\ (Fresh(newest) <=> Fresh(newest)')
    BY <2>1 DEF Owing, Fresh, Stat, PaidSales
  <2> QED
    BY <2>1, <2>3, <2>4 DEF FreshInv
<1>3. ASSUME NEW p \in Pushes, OpenStream(p)
      PROVE  FreshInv'
  <2>1. /\ screen' = [screen EXCEPT !.open = TRUE] /\ Begin(p, "initial")
        /\ UNCHANGED <<now, sales, notified, manager>>
    BY <1>3 DEF OpenStream
  <2>2. /\ \E B : push' \in [Pushes -> Computations(B)] /\ screen' \in Screens(B)
        /\ ShownIsRead' /\ newest' \in Pushes /\ Fresh(newest)'
    BY <2>1, BeginFresh
  <2>3. Shapes'
    BY <1>0, <2>1, <2>2 DEF Shapes
  <2> QED
    BY <2>2, <2>3 DEF FreshInv
<1>4. ASSUME NEW p \in Pushes, FinishPush(p)
      PROVE  FreshInv'
  <2>1. /\ push[p].pc = "reading"
        /\ push' = [push EXCEPT ![p] = [push[p] EXCEPT !.pc = "done"]]
        /\ \/ /\ push[p].read = Facts
              /\ screen' = [screen EXCEPT !.stats = push[p].stats, !.by = p]
           \/ UNCHANGED screen
        /\ UNCHANGED <<now, sales, notified, manager, newest>>
    BY <1>4 DEF FinishPush
  <2> DEFINE new == [push[p] EXCEPT !.pc = "done"]
  <2>2. push[p] \in Computations(A)
    BY <1>1
  <2>3. /\ new \in Computations(A) /\ new.pc = "done" /\ new.read = push[p].read
        /\ new.stats = push[p].stats /\ push[p].stats \in [Facts -> A]
        /\ new.began = push[p].began /\ new.trendFrom = push[p].trendFrom
    BY <2>2 DEF Computations
  <2> HIDE DEF new
  <2>4. /\ push' \in [Pushes -> Computations(A)] /\ push'[p] = new
        /\ \A q \in Pushes \ {p} : push'[q] = push[q]
    BY <1>1, <2>1, <2>3 DEF new
  <2>5. \A q \in Pushes :
          /\ push'[q].read = push[q].read /\ push'[q].stats = push[q].stats
          /\ push'[q].began = push[q].began /\ push'[q].trendFrom = push[q].trendFrom
    BY <2>3, <2>4
  <2>6. /\ screen' \in Screens(A)
        /\ \/ screen'.by = p /\ screen'.stats = push[p].stats /\ push[p].read = Facts
           \/ UNCHANGED screen
    <3>1. CASE UNCHANGED screen
      BY <1>1, <3>1
    <3>2. CASE push[p].read = Facts
               /\ screen' = [screen EXCEPT !.stats = push[p].stats, !.by = p]
      BY <1>1, <2>3, <3>2 DEF Screens
    <3> QED
      BY <2>1, <3>1, <3>2
  <2>7. Shapes'
    BY <1>0, <2>1, <2>4, <2>6 DEF Shapes
  <2>8. ShownIsRead'
    <3>1. CASE screen'.by = p /\ screen'.stats = push[p].stats /\ push[p].read = Facts
      BY <2>3, <2>4, <3>1 DEF ShownIsRead
    <3>2. CASE UNCHANGED screen
      BY <1>0, <2>1, <2>4, <3>2 DEF ShownIsRead
    <3> QED
      BY <2>6, <3>1, <3>2
  <2>9. newest # 0 => (Fresh(newest) <=> Fresh(newest)')
    <3>1. now' = now /\ \A f : Stat(f, now)' = Stat(f, now)
      BY <2>1 DEF Stat, PaidSales
    <3>2. newest' = newest
      BY <2>1
    <3>3. ASSUME newest # 0
          PROVE  /\ push'[newest].read = push[newest].read
                 /\ push'[newest].stats = push[newest].stats
                 /\ push'[newest].began = push[newest].began
                 /\ push'[newest].trendFrom = push[newest].trendFrom
      BY <1>0, <2>5, <3>3
    <3> QED
      BY <3>1, <3>2, <3>3 DEF Fresh
  <2>10. Owing <=> Owing'
    BY <2>1 DEF Owing
  <2> QED
    BY <2>1, <2>7, <2>8, <2>9, <2>10 DEF FreshInv
<1> QED
  BY <1>2, <1>3, <1>4

(* A handler is called, saves its order and notifies; time passes.         *)
LEMMA HandlerFresh ==
  ASSUME FreshInv, NEW m \in Managers,
         \/ \E c \in ManagerCalls, o \in Sales : CallHandler(m, c, o)
         \/ SaveSale(m) \/ NotifyStatsUpdate(m)
  PROVE  FreshInv'
<1>0. /\ manager \in [Managers -> Handlers] /\ manager[m] \in Handlers
      /\ ShownIsRead
      /\ newest # 0 => newest \in Pushes
      /\ \E A : push \in [Pushes -> Computations(A)] /\ screen \in Screens(A)
      /\ notified => Owing \/ (newest # 0 => Fresh(newest))
  BY DEF FreshInv, Shapes
<1>1. ASSUME NEW c \in ManagerCalls, NEW o \in Sales, CallHandler(m, c, o)
      PROVE  FreshInv'
  <2> DEFINE new == [step |-> 1, sale |-> o, call |-> c, started |-> TRUE]
  <2>1. /\ manager' = [manager EXCEPT ![m] = new] /\ ~ manager[m].started
        /\ UNCHANGED <<now, sales, notified, push, newest, screen>>
    BY <1>1 DEF CallHandler
  <2>2. new \in Handlers
    BY DEF Handlers
  <2> HIDE DEF new
  <2>3. manager' \in [Managers -> Handlers]
    BY <1>0, <2>1, <2>2
  <2>4. Owing => Owing'
    BY <1>0, <2>1 DEF Owing
  <2>5. Shapes' /\ ShownIsRead' /\ (Fresh(newest) <=> Fresh(newest)')
    BY <1>0, <2>1, <2>3 DEF Shapes, ShownIsRead, Fresh, Stat, PaidSales
  <2> QED
    BY <1>0, <2>1, <2>4, <2>5 DEF FreshInv
<1>2. CASE SaveSale(m) \/ NotifyStatsUpdate(m)
  <2> DEFINE new == [manager[m] EXCEPT !.step = @ + 1]
             c == manager[m].call
  <2>1. PICK step \in {"save", "notify"} :
          /\ AtStep(m, step)
          /\ step = "save" <=> SaveSale(m)
          /\ step = "notify" <=> NotifyStatsUpdate(m)
    BY <1>2 DEF SaveSale, NotifyStatsUpdate, AtStep, HandlerSteps
  <2>2. /\ manager[m].started
        /\ step = "save" => manager[m].step = 1
        /\ step = "notify" => manager[m].step = 2
        /\ manager' = [manager EXCEPT ![m] = new]
    BY <2>1 DEF AtStep, HandlerSteps
  <2>3. /\ new \in Handlers /\ new.started = manager[m].started
        /\ new.step = manager[m].step + 1 /\ new.call = c
    BY <1>0 DEF Handlers
  <2> HIDE DEF new, c
  <2>4. /\ manager' \in [Managers -> Handlers] /\ manager'[m] = new
        /\ \A n \in Managers \ {m} : manager'[n] = manager[n]
    BY <1>0, <2>2, <2>3
  <2>5. CASE step = "save"
    <3>1. notified' = NotifiesDashboard(c) /\ UNCHANGED <<push, newest, screen>>
      BY <2>1, <2>5 DEF SaveSale, c
    <3>2. NotifiesDashboard(c) => Owing'
      <4> SUFFICES ASSUME NotifiesDashboard(c) PROVE Owing'
        OBVIOUS
      <4>1. manager'[m].started /\ manager'[m].step = 2 /\ manager'[m].call = c
        <5>1. manager'[m] = new
          BY <2>4
        <5>2. new.started /\ new.call = c
          BY <2>2, <2>3
        <5>3. new.step = 2
          <6>1. manager[m].step = 1
            BY <2>2, <2>5
          <6> QED
            BY <2>3, <6>1
        <5> QED
          BY <5>1, <5>2, <5>3
      <4>2. NotifiesDashboard(manager'[m].call)
        BY <4>1
      <4> QED
        BY <4>1, <4>2 DEF Owing, NotifiesDashboard
    <3>3. Shapes' /\ ShownIsRead'
      BY <1>0, <2>4, <3>1 DEF Shapes, ShownIsRead
    <3> QED
      BY <1>0, <3>1, <3>2, <3>3 DEF FreshInv
  <2>6. CASE step = "notify" /\ NotifiesDashboard(c)
    <3>1. /\ UNCHANGED <<now, sales, notified, screen>>
          /\ \E p \in Pushes : Begin(p, "update")
      BY <2>1, <2>6 DEF NotifyStatsUpdate, c
    <3>2. PICK p \in Pushes : Begin(p, "update")
      BY <3>1
    <3>3. screen.open \in BOOLEAN /\ screen' = [screen EXCEPT !.open = screen.open]
      BY <1>0, <3>1 DEF Screens
    <3>4. /\ \E A : push' \in [Pushes -> Computations(A)] /\ screen' \in Screens(A)
          /\ ShownIsRead' /\ newest' \in Pushes /\ Fresh(newest)'
      <4>1. PICK open \in BOOLEAN : open = screen.open
        BY <3>3
      <4> QED
        BY <3>1, <3>2, <3>3, <4>1, BeginFresh
    <3>5. Shapes'
      BY <2>4, <3>4 DEF Shapes
    <3> QED
      BY <3>4, <3>5 DEF FreshInv
  <2>7. CASE step = "notify" /\ ~ NotifiesDashboard(c)
    <3>1. UNCHANGED <<now, sales, notified, screen, push, newest>>
      BY <2>1, <2>7 DEF NotifyStatsUpdate, c
    <3>2. Owing => Owing'
      BY <2>4, <2>7 DEF Owing, c
    <3>3. Shapes' /\ ShownIsRead' /\ (Fresh(newest) <=> Fresh(newest)')
      BY <1>0, <2>4, <3>1 DEF Shapes, ShownIsRead, Fresh, Stat, PaidSales
    <3> QED
      BY <1>0, <3>1, <3>2, <3>3 DEF FreshInv
  <2> QED
    BY <2>5, <2>6, <2>7
<1> QED
  BY <1>1, <1>2

LEMMA FreshStep ==
  ASSUME FreshInv, [DashboardNext]_dashboardVars
  PROVE  FreshInv'
<1>1. CASE Tick
  <2>1. UNCHANGED <<sales, manager, push, newest, screen>> /\ ~ notified'
    BY <1>1 DEF Tick
  <2> QED
    BY <2>1 DEF FreshInv, Shapes, ShownIsRead
<1>2. CASE UNCHANGED dashboardVars
  <2>1. UNCHANGED <<now, sales, notified, manager, push, newest, screen>>
    BY <1>2 DEF dashboardVars
  <2> QED
    BY <2>1 DEF FreshInv, Shapes, ShownIsRead, Owing, Fresh, Stat, PaidSales
<1> QED
  BY <1>1, <1>2, ReadFresh, ScreenFresh, HandlerFresh DEF DashboardNext

(* However many handlers and computations overlap, the stream at rest      *)
(* shows what the orders are after a change that notifies.                 *)
THEOREM StatisticsFresh == DashboardSpec => []FreshAtRest
<1>1. ASSUME FreshInv, AtRest, notified
      PROVE  screen.stats = [f \in Facts |-> Stat(f, now)]
  <2>1. ~ Owing
    BY <1>1 DEF AtRest, Owing
  <2>2. newest # 0 /\ Fresh(newest) /\ screen.by = newest
    BY <1>1, <2>1 DEF FreshInv, AtRest
  <2>3. push[newest].read = Facts /\ screen.stats = push[newest].stats
    BY <1>1, <2>2 DEF FreshInv, ShownIsRead
  <2>4. PICK A : screen \in Screens(A)
    BY <1>1 DEF FreshInv, Shapes
  <2>5. screen.stats \in [Facts -> A]
    BY <2>4 DEF Screens
  <2>6. \A f \in Facts : screen.stats[f] = Stat(f, now)
    BY <2>2, <2>3 DEF Fresh
  <2> QED
    BY <2>5, <2>6
<1>2. FreshInv => FreshAtRest
  BY <1>1 DEF FreshAtRest
<1>3. FreshInv /\ [DashboardNext]_dashboardVars => FreshInv'
  BY FreshStep
<1> QED
  BY <1>2, <1>3, FreshInit, PTL DEF DashboardSpec

(* The rest of the types: time stays within its bound, orders stay orders, *)
(* and a handler takes no step beyond its last.                            *)
Timely ==
  /\ now \in 0..MaxNow
  /\ sales \in [Sales -> SaleDocs]
  /\ \A m \in Managers : manager[m].step \in 1..3

LEMMA TimelyInit == DashboardInit => Timely
BY DashboardAssumption DEF DashboardInit, Timely, IdleManager

LEMMA SaveSaleSales ==
  ASSUME FreshInv, Timely, NEW m \in Managers, SaveSale(m)
  PROVE  sales' \in [Sales -> SaleDocs]
<1> DEFINE c == manager[m].call
           o == manager[m].sale
           doc == sales[o]
           new == IF c.op = "updatePaymentProof"
                    THEN [[doc EXCEPT !.pending = (c.to = "pending")]
                           EXCEPT !.status = IF c.to = "verified" /\ doc.status = "esperando_pago"
                                               THEN "paid" ELSE doc.status]
                    ELSE [[doc EXCEPT !.status = c.to]
                           EXCEPT !.pending =
                             (doc.pending /\ ~ (c.op = "updateStatus" /\ c.to = "paid"))]
<1>1. c \in ManagerCalls /\ o \in Sales
  BY DEF FreshInv, Shapes, Handlers
<1>2. doc \in SaleDocs
  BY <1>1 DEF Timely
<1>3. sales' = [sales EXCEPT ![o] = new]
  BY DEF SaveSale
<1>4. new \in SaleDocs
  <2>1. CASE c.op = "updatePaymentProof"
    <3>1. [doc EXCEPT !.pending = (c.to = "pending")] \in SaleDocs
      BY <1>2 DEF SaleDocs
    <3>2. (IF c.to = "verified" /\ doc.status = "esperando_pago" THEN "paid" ELSE doc.status)
            \in StatusGroups
      BY <1>2 DEF SaleDocs, StatusGroups
    <3> HIDE DEF c, doc
    <3> QED
      BY <2>1, <3>1, <3>2 DEF SaleDocs
  <2>2. CASE c.op # "updatePaymentProof"
    <3>1. c.to \in StatusGroups
      BY <1>1, <2>2 DEF ManagerCalls, StatusGroups
    <3>2. [doc EXCEPT !.status = c.to] \in SaleDocs
      BY <1>2, <3>1 DEF SaleDocs
    <3>3. (doc.pending /\ ~ (c.op = "updateStatus" /\ c.to = "paid")) \in BOOLEAN
      OBVIOUS
    <3> HIDE DEF c, doc
    <3> QED
      BY <2>2, <3>2, <3>3 DEF SaleDocs
  <2> QED
    BY <2>1, <2>2
<1> HIDE DEF new
<1> QED
  BY <1>1, <1>3, <1>4 DEF Timely

LEMMA TimelyStep ==
  ASSUME FreshInv, Timely, [DashboardNext]_dashboardVars
  PROVE  Timely'
<1>0. manager \in [Managers -> Handlers]
  BY DEF FreshInv, Shapes
<1>1. CASE Tick
  BY <1>1, DashboardAssumption DEF Tick, Timely
<1>2. ASSUME NEW m \in Managers, NEW c \in ManagerCalls, NEW o \in Sales, CallHandler(m, c, o)
      PROVE  Timely'
  BY <1>0, <1>2 DEF CallHandler, Timely
<1>3. ASSUME NEW m \in Managers, SaveSale(m) \/ NotifyStatsUpdate(m) PROVE Timely'
  <2>1. PICK step \in {"save", "notify"} : AtStep(m, step)
    BY <1>3 DEF SaveSale, NotifyStatsUpdate
  <2>2. /\ manager[m].step \in 1..2
        /\ manager' = [manager EXCEPT ![m] = [manager[m] EXCEPT !.step = manager[m].step + 1]]
    BY <2>1 DEF AtStep, HandlerSteps
  <2>3. \A n \in Managers : manager'[n].step \in 1..3
    BY <1>0, <2>2 DEF Timely, Handlers
  <2>4. now' = now /\ sales' \in [Sales -> SaleDocs]
    BY <1>3, SaveSaleSales DEF SaveSale, NotifyStatsUpdate, Timely
  <2> QED
    BY <2>3, <2>4 DEF Timely
<1>4. CASE UNCHANGED <<now, sales, manager>>
  BY <1>4 DEF Timely
<1>5. CASE \/ CloseStream
           \/ \E p \in Pushes :
                OpenStream(p) \/ FinishPush(p) \/ \E fact \in Facts : ReadStat(p, fact)
  BY <1>4, <1>5 DEF CloseStream, OpenStream, FinishPush, ReadStat
<1> QED
  BY <1>1, <1>2, <1>3, <1>4, <1>5 DEF DashboardNext, dashboardVars

(* Every handler, computation and order of the statistics stays of its     *)
(* kind; the stream is the work of a computation that was begun.           *)
THEOREM DashboardTypeCorrect == DashboardSpec => []DashboardTypeOK
<1>1. FreshInv /\ Timely => DashboardTypeOK
  BY DEF FreshInv, Timely, Shapes, Handlers, Computations, Screens, DashboardTypeOK
<1>2. DashboardInit => FreshInv /\ Timely
  BY FreshInit, TimelyInit
<1>3. FreshInv /\ Timely /\ [DashboardNext]_dashboardVars => FreshInv' /\ Timely'
  BY FreshStep, TimelyStep
<1> QED
  BY <1>1, <1>2, <1>3, PTL DEF DashboardSpec

-----------------------------------------------------------------------------
(* The coins that the updates of a list bring to an account.               *)
CoinsOf(q, u) ==
  LET share == [i \in DOMAIN q |-> IF q[i].owner = u THEN q[i].coins ELSE 0]
  IN  SumFunctionOnSet(share, DOMAIN q)

LEMMA OnTheWayIs ==
  ASSUME NEW u
  PROVE  OnTheWay(u) = CoinsOf(writes, u) /\ OnTheWay(u)' = CoinsOf(writes', u)
BY DEF OnTheWay, CoinsOf

LEMMA CoinsOfInt ==
  ASSUME NEW q \in Seq(Writes), NEW u
  PROVE  CoinsOf(q, u) \in Int
<1> DEFINE n == Len(q)
           share == [i \in DOMAIN q |-> IF q[i].owner = u THEN q[i].coins ELSE 0]
<1>1. DOMAIN q = 1..n /\ n \in Nat
  OBVIOUS
<1>2. \A i \in 1..n : share[i] \in Int
  <2>1. \A i \in 1..n : q[i] \in Writes
    OBVIOUS
  <2> QED
    BY <1>1, <2>1 DEF Writes
<1>3. IsFiniteSet(1..n)
  BY <1>1, FS_Interval
<1>4. CoinsOf(q, u) = SumFunctionOnSet(share, 1..n)
  BY <1>1 DEF CoinsOf
<1> HIDE DEF share, n
<1> QED
  BY <1>2, <1>3, <1>4, SumTakeOut

LEMMA CoinsOfNone ==
  ASSUME NEW u
  PROVE  CoinsOf(<< >>, u) = 0
BY SumEmpty DEF CoinsOf

(* One more update brings its coins to its owner, ...                      *)
LEMMA CoinsOfAppend ==
  ASSUME NEW q \in Seq(Writes), NEW w \in Writes, NEW u
  PROVE  CoinsOf(Append(q, w), u) = CoinsOf(q, u) + (IF w.owner = u THEN w.coins ELSE 0)
<1> DEFINE n == Len(q)
           r == Append(q, w)
           f == [i \in DOMAIN q |-> IF q[i].owner = u THEN q[i].coins ELSE 0]
           g == [i \in DOMAIN r |-> IF r[i].owner = u THEN r[i].coins ELSE 0]
<1>1. n \in Nat /\ DOMAIN q = 1..n /\ DOMAIN r = 1..(n + 1) /\ r[n + 1] = w
  OBVIOUS
<1>2. \A i \in 1..n : r[i] = q[i] /\ q[i] \in Writes
  OBVIOUS
<1>3. \A i \in 1..n : f[i] \in Int /\ g[i] = f[i]
  BY <1>1, <1>2 DEF Writes
<1>4. g[n + 1] = (IF w.owner = u THEN w.coins ELSE 0) /\ g[n + 1] \in Int
  BY <1>1 DEF Writes
<1>5. 1..(n + 1) = 1..n \cup {n + 1} /\ n + 1 \notin 1..n
  BY <1>1
<1>6. IsFiniteSet(1..n)
  BY <1>1, FS_Interval
<1>7. CoinsOf(q, u) = SumFunctionOnSet(f, 1..n) /\ CoinsOf(r, u) = SumFunctionOnSet(g, 1..(n + 1))
  BY <1>1 DEF CoinsOf
<1> HIDE DEF f, g, r
<1>8. SumFunctionOnSet(g, 1..n \cup {n + 1}) = SumFunctionOnSet(g, 1..n) + g[n + 1]
  BY <1>3, <1>4, <1>5, <1>6, SumAddElement
<1>9. SumFunctionOnSet(g, 1..n) = SumFunctionOnSet(f, 1..n)
  BY <1>3, <1>6, SumSame
<1> QED
  BY <1>4, <1>5, <1>7, <1>8, <1>9 DEF r

LEMMA RemoveAtIs ==
  ASSUME NEW S, NEW q \in Seq(S), NEW i \in 1..Len(q)
  PROVE  /\ RemoveAt(q, i) \in Seq(S)
         /\ Len(RemoveAt(q, i)) = Len(q) - 1
         /\ \A k \in 1..(Len(q) - 1) :
              RemoveAt(q, i)[k] = IF k < i THEN q[k] ELSE q[k + 1]
<1> DEFINE n == Len(q)
           a == SubSeq(q, 1, i - 1)
           b == SubSeq(q, i + 1, n)
<1>1. n \in Nat /\ i \in Int /\ i - 1 \in Int /\ i + 1 \in Int /\ 1 \in Int
  OBVIOUS
<1>2. \A k \in 1..n : q[k] \in S
  OBVIOUS
<1>3. /\ a \in Seq(S) /\ Len(a) = i - 1
      /\ \A k \in 1..(i - 1) : a[k] = q[k]
  <2>1. \A k \in 1..(i - 1) : q[k] \in S
    BY <1>2
  <2>2. /\ a \in Seq(S)
        /\ Len(a) = IF 1 <= i - 1 THEN (i - 1) - 1 + 1 ELSE 0
        /\ \A k \in 1..((i - 1) - 1 + 1) : a[k] = q[1 + k - 1]
    BY <1>1, <2>1, SubSeqProperties
  <2> HIDE DEF a
  <2> QED
    BY <2>2
<1>4. /\ b \in Seq(S) /\ Len(b) = n - i
      /\ \A k \in 1..(n - i) : b[k] = q[i + k]
  <2>1. \A k \in (i + 1)..n : q[k] \in S
    BY <1>2
  <2>2. /\ b \in Seq(S)
        /\ Len(b) = IF i + 1 <= n THEN n - (i + 1) + 1 ELSE 0
        /\ \A k \in 1..(n - (i + 1) + 1) : b[k] = q[(i + 1) + k - 1]
    BY <1>1, <2>1, SubSeqProperties
  <2> HIDE DEF b
  <2> QED
    BY <2>2
<1>5. RemoveAt(q, i) = a \o b
  BY DEF RemoveAt
<1> HIDE DEF a, b
<1>6. /\ a \o b \in Seq(S) /\ Len(a \o b) = n - 1
      /\ \A k \in 1..(n - 1) : (a \o b)[k] = IF k <= i - 1 THEN a[k] ELSE b[k - (i - 1)]
  <2>1. /\ a \o b \in Seq(S) /\ Len(a \o b) = Len(a) + Len(b)
        /\ \A k \in 1..(Len(a) + Len(b)) :
             (a \o b)[k] = IF k <= Len(a) THEN a[k] ELSE b[k - Len(a)]
    BY <1>3, <1>4, ConcatProperties
  <2>2. Len(a) = i - 1 /\ Len(a) + Len(b) = n - 1
    BY <1>1, <1>3, <1>4
  <2> QED
    BY <2>1, <2>2
<1>7. ASSUME NEW k \in 1..(n - 1)
      PROVE  (a \o b)[k] = IF k < i THEN q[k] ELSE q[k + 1]
  <2>1. CASE k < i
    BY <1>3, <1>6, <2>1
  <2>2. CASE ~ (k < i)
    <3>1. k - (i - 1) \in 1..(n - i) /\ i + (k - (i - 1)) = k + 1
      BY <2>2
    <3>2. b[k - (i - 1)] = q[k + 1]
      BY <1>4, <3>1
    <3> QED
      BY <1>6, <2>2, <3>2
  <2> QED
    BY <2>1, <2>2
<1> QED
  BY <1>5, <1>6, <1>7

(* ... and one that is no longer there no longer does.                     *)
LEMMA CoinsOfRemoveAt ==
  ASSUME NEW q \in Seq(Writes), NEW i \in 1..Len(q), NEW u
  PROVE  CoinsOf(RemoveAt(q, i), u)
           = CoinsOf(q, u) - (IF q[i].owner = u THEN q[i].coins ELSE 0)
<1> DEFINE n == Len(q)
           r == RemoveAt(q, i)
           f == [k \in DOMAIN q |-> IF q[k].owner = u THEN q[k].coins ELSE 0]
           g == [k \in DOMAIN r |-> IF r[k].owner = u THEN r[k].coins ELSE 0]
<1>1. n \in Nat /\ DOMAIN q = 1..n /\ \A k \in 1..n : q[k] \in Writes
  OBVIOUS
<1>2. /\ DOMAIN r = 1..(n - 1)
      /\ \A k \in 1..(n - 1) : r[k] = IF k < i THEN q[k] ELSE q[k + 1]
  <2>1. /\ r \in Seq(Writes) /\ Len(r) = n - 1
        /\ \A k \in 1..(n - 1) : r[k] = IF k < i THEN q[k] ELSE q[k + 1]
    BY RemoveAtIs
  <2> HIDE DEF r
  <2> QED
    BY <2>1
<1> HIDE DEF r
<1>3. \A k \in 1..n : f[k] \in Int
  BY <1>1 DEF Writes
<1>4. \A k \in 1..(n - 1) : g[k] = IF k < i THEN f[k] ELSE f[k + 1]
  <2>1. ASSUME NEW k \in 1..(n - 1)
        PROVE  g[k] = IF k < i THEN f[k] ELSE f[k + 1]
    <3>1. k \in 1..n /\ k + 1 \in 1..n
      BY <1>1
    <3> QED
      BY <1>1, <1>2, <3>1
  <2> QED
    BY <2>1
<1>5. CoinsOf(q, u) = SumFunctionOnSet(f, 1..n)
      /\ CoinsOf(r, u) = SumFunctionOnSet(g, 1..(n - 1))
  BY <1>1, <1>2 DEF CoinsOf
<1>6. f[i] = IF q[i].owner = u THEN q[i].coins ELSE 0
  OBVIOUS
<1> HIDE DEF f, g
<1>7. SumFunctionOnSet(g, 1..(n - 1)) = SumFunctionOnSet(f, 1..n) - f[i]
  BY <1>1, <1>3, <1>4, SumWithoutPlace
<1> QED
  BY <1>5, <1>6, <1>7 DEF r

-----------------------------------------------------------------------------
(* The control invariant.  A player that is somewhere was made by its      *)
(* connection, with the account of that connection; one whose client is    *)
(* gone was still being made then.  No session counts more correct answers *)
(* than answers.                                                           *)
Players == [at : {"absent", "reading", "read", "in"}, owner : Owners, profile : Profiles]
DropStates == [at : Stages, claims : SUBSET (Gamers \cup Sockets)]
HiddenStates == [at : Stages, foundBy : SUBSET Sockets]
Sessions == [joined : BOOLEAN, answered : SUBSET (1..Questions), score : 0..Questions,
             due : Seq({200, 500})]

PlayersKnown ==
  \A k \in Sockets :
    /\ players[k].at \in {"reading", "read"} => players[k].owner \in Gamers
    /\ players[k].at # "absent" =>
         sockets[k] # "new" /\ history.owner[k] = players[k].owner
    /\ players[k].at # "absent" /\ sockets[k] = "left" => k \in history.raced

SessionsCounted ==
  \A k \in Sockets : trivia[k].score <= Cardinality(trivia[k].answered)

GameInv == GameTypeOK /\ PlayersKnown /\ SessionsCounted

LEMMA GameTypes ==
  GameTypeOK <=>
    /\ sockets \in [Sockets -> {"new", "open", "left"}]
    /\ players \in [Sockets -> Players]
    /\ drops \in [Drops -> DropStates]
    /\ hidden \in [HiddenCoupons -> HiddenStates]
    /\ trivia \in [Sockets -> Sessions]
    /\ stored \in [Gamers -> Profiles]
    /\ writes \in Seq(Writes)
    /\ losses \in 0..MaxLosses
    /\ history \in GameHistory
BY DEF GameTypeOK, Players, DropStates, HiddenStates, Sessions

LEMMA NothingYet ==
  /\ NoProfile \in Profiles /\ NoTrivia \in Sessions /\ Absent \in Players
  /\ Absent.at = "absent" /\ Absent.owner = Guest
  /\ NoTrivia.answered = {} /\ NoTrivia.score = 0
<1>1. NoProfile \in Profiles
  BY DEF NoProfile, Profiles
<1>2. Absent \in Players /\ Absent.at = "absent" /\ Absent.owner = Guest
  BY <1>1 DEF Absent, Players, Owners
<1>3. NoTrivia \in Sessions /\ NoTrivia.answered = {} /\ NoTrivia.score = 0
  BY GameAssumption DEF NoTrivia, Sessions
<1> QED
  BY <1>1, <1>2, <1>3

LEMMA GameInvInit == GameInit => GameInv
<1> SUFFICES ASSUME GameInit PROVE GameInv
  OBVIOUS
<1>1. history \in GameHistory
  BY DEF GameInit, GameHistory, Owners
<1>2. GameTypeOK
  <2>1. drops \in [Drops -> DropStates] /\ hidden \in [HiddenCoupons -> HiddenStates]
    BY DEF GameInit, DropStates, HiddenStates, Stages
  <2>2. /\ players \in [Sockets -> Players] /\ trivia \in [Sockets -> Sessions]
        /\ stored \in [Gamers -> Profiles]
    BY NothingYet DEF GameInit
  <2>3. /\ sockets \in [Sockets -> {"new", "open", "left"}]
        /\ writes \in Seq(Writes) /\ losses \in 0..MaxLosses
    BY GameAssumption DEF GameInit
  <2> QED
    BY <1>1, <2>1, <2>2, <2>3, GameTypes
<1>3. PlayersKnown
  BY NothingYet DEF GameInit, PlayersKnown
<1>4. SessionsCounted
  <2>1. \A k \in Sockets : trivia[k] = NoTrivia
    BY DEF GameInit
  <2>2. Cardinality(NoTrivia.answered) = 0
    BY NothingYet, FS_EmptySet
  <2> QED
    BY <2>1, <2>2, NothingYet DEF SessionsCounted
<1> QED
  BY <1>2, <1>3, <1>4 DEF GameInv

LEMMA AddCoinsDoes ==
  ASSUME GameInv, NEW k \in Sockets, NEW n \in Int, AddCoins(k, n)
  PROVE  /\ players' \in [Sockets -> Players]
         /\ \A l \in Sockets : players'[l].at = players[l].at
                               /\ players'[l].owner = players[l].owner
         /\ writes' \in Seq(Writes)
         /\ \A u \in Gamers :
              CoinsOf(writes', u)
                = CoinsOf(writes, u) + (IF players[k].owner = u THEN n ELSE 0)
<1> DEFINE p == players[k]
           q == [p EXCEPT !.profile = [p.profile EXCEPT !.coins = p.profile.coins + n]]
           w == [owner |-> p.owner, coins |-> n, skin |-> NoSkin]
<1>1. players \in [Sockets -> Players] /\ writes \in Seq(Writes)
  BY GameTypes DEF GameInv
<1>2. q \in Players /\ q.at = p.at /\ q.owner = p.owner
  <2>1. p.profile \in Profiles
    BY <1>1 DEF Players
  <2>2. [p.profile EXCEPT !.coins = p.profile.coins + n] \in Profiles
    BY <2>1 DEF Profiles
  <2>3. p \in Players
    BY <1>1
  <2> QED
    BY <2>2, <2>3 DEF Players
<1>3. players' = [players EXCEPT ![k] = q]
  BY DEF AddCoins
<1>4. /\ players' \in [Sockets -> Players]
      /\ \A l \in Sockets : players'[l].at = players[l].at
                            /\ players'[l].owner = players[l].owner
  <2> HIDE DEF q
  <2>1. players'[k] = q /\ \A l \in Sockets \ {k} : players'[l] = players[l]
    BY <1>1, <1>3
  <2>2. players' \in [Sockets -> Players]
    BY <1>1, <1>2, <1>3
  <2> QED
    BY <1>2, <2>1, <2>2
<1>5. CASE p.owner = Guest
  <2>1. writes' = writes /\ \A u \in Gamers : players[k].owner # u
    BY <1>5, GameAssumption DEF AddCoins
  <2>2. \A u \in Gamers : CoinsOf(writes, u) \in Int
    BY <1>1, CoinsOfInt
  <2> QED
    BY <1>1, <1>4, <2>1, <2>2
<1>6. CASE p.owner # Guest
  <2>1. p.owner \in Gamers
    BY <1>1, <1>6 DEF Players, Owners
  <2>2. w \in Writes /\ w.owner = p.owner /\ w.coins = n
    BY <2>1 DEF Writes
  <2>3. writes' = Append(writes, w)
    BY <1>6 DEF AddCoins
  <2> HIDE DEF w
  <2>4. \A u \in Gamers : CoinsOf(writes', u)
                            = CoinsOf(writes, u) + (IF w.owner = u THEN w.coins ELSE 0)
    BY <1>1, <2>2, <2>3, CoinsOfAppend
  <2>5. writes' \in Seq(Writes)
    BY <1>1, <2>2, <2>3, AppendProperties
  <2> QED
    BY <1>4, <2>2, <2>4, <2>5
<1> QED
  BY <1>5, <1>6

LEMMA ConnectInv ==
  ASSUME GameInv, NEW k \in Sockets, NEW owner \in Owners, Connect(k, owner)
  PROVE  GameInv'
<1> DEFINE p == [Absent EXCEPT !.at = IF owner = Guest THEN "in" ELSE "reading",
                               !.owner = owner]
<1>1. /\ sockets \in [Sockets -> {"new", "open", "left"}]
      /\ players \in [Sockets -> Players] /\ history \in GameHistory
  BY GameTypes DEF GameInv
<1>2. /\ p \in Players /\ p.owner = owner
      /\ p.at = IF owner = Guest THEN "in" ELSE "reading"
  BY NothingYet DEF Players
<1>3. /\ sockets' = [sockets EXCEPT ![k] = "open"]
      /\ players' = [players EXCEPT ![k] = p]
      /\ history' = [history EXCEPT !.owner = [history.owner EXCEPT ![k] = owner]]
      /\ UNCHANGED <<drops, hidden, trivia, stored, writes, losses>>
  BY DEF Connect
<1> HIDE DEF p
<1>4. /\ history' \in GameHistory
      /\ history'.owner = [history.owner EXCEPT ![k] = owner]
      /\ history'.raced = history.raced
  BY <1>1, <1>3 DEF GameHistory
<1>5. GameTypeOK'
  <2>1. sockets' \in [Sockets -> {"new", "open", "left"}] /\ players' \in [Sockets -> Players]
    BY <1>1, <1>2, <1>3
  <2> QED
    BY <1>3, <1>4, <2>1, GameTypes DEF GameInv, GameTypeOK, Players
<1>6. PlayersKnown'
  <2>1. /\ players'[k] = p /\ sockets'[k] = "open" /\ history'.owner[k] = owner
        /\ \A l \in Sockets \ {k} : /\ players'[l] = players[l] /\ sockets'[l] = sockets[l]
                                    /\ history'.owner[l] = history.owner[l]
    BY <1>1, <1>3, <1>4 DEF GameHistory
  <2>2. owner = Guest \/ owner \in Gamers
    BY DEF Owners
  <2> QED
    BY <1>2, <1>4, <2>1, <2>2 DEF PlayersKnown, GameInv
<1>7. SessionsCounted'
  BY <1>3 DEF SessionsCounted, GameInv
<1> QED
  BY <1>5, <1>6, <1>7 DEF GameInv

(* A step that changes nobody's place and no session.                      *)
LEMMA SameInv ==
  ASSUME GameInv, UNCHANGED <<sockets, trivia>>,
         \A k \in Sockets : players'[k].at = players[k].at
                            /\ players'[k].owner = players[k].owner,
         history'.owner = history.owner, history'.raced = history.raced,
         GameTypeOK'
  PROVE  GameInv'
BY DEF GameInv, PlayersKnown, SessionsCounted

LEMMA ReadProfileInv ==
  ASSUME GameInv, NEW k \in Sockets, ReadProfile(k)
  PROVE  GameInv'
<1> DEFINE p == [players[k] EXCEPT !.at = "read",
                                   !.profile = stored[players[k].owner]]
<1>1. /\ players \in [Sockets -> Players] /\ stored \in [Gamers -> Profiles]
  BY GameTypes DEF GameInv
<1>2. players[k].at = "reading" /\ players[k].owner \in Gamers
  BY DEF ReadProfile, GameInv, PlayersKnown
<1>3. p \in Players /\ p.at = "read" /\ p.owner = players[k].owner
  <2>1. players[k] \in Players /\ stored[players[k].owner] \in Profiles
    BY <1>1, <1>2
  <2> QED
    BY <2>1 DEF Players
<1>4. /\ players' = [players EXCEPT ![k] = p]
      /\ UNCHANGED <<sockets, drops, hidden, trivia, stored, writes, losses, history>>
  BY DEF ReadProfile
<1> HIDE DEF p
<1>5. players' \in [Sockets -> Players]
  BY <1>1, <1>3, <1>4
<1>6. players'[k] = p /\ \A l \in Sockets \ {k} : players'[l] = players[l]
  BY <1>1, <1>4
<1>7. GameTypeOK'
  BY <1>4, <1>5 DEF GameInv, GameTypeOK, Players
<1>8. PlayersKnown'
  BY <1>2, <1>3, <1>4, <1>6 DEF PlayersKnown, GameInv
<1>9. SessionsCounted'
  BY <1>4 DEF SessionsCounted, GameInv
<1> QED
  BY <1>7, <1>8, <1>9 DEF GameInv

LEMMA EnterInv ==
  ASSUME GameInv, NEW k \in Sockets, Enter(k)
  PROVE  GameInv'
<1> DEFINE p == [players[k] EXCEPT !.at = "in"]
<1>1. players \in [Sockets -> Players]
  BY GameTypes DEF GameInv
<1>2. p \in Players /\ p.at = "in" /\ p.owner = players[k].owner
  BY <1>1 DEF Players
<1>3. /\ players' = [players EXCEPT ![k] = p] /\ players[k].at = "read"
      /\ UNCHANGED <<sockets, drops, hidden, trivia, stored, writes, losses, history>>
  BY DEF Enter
<1> HIDE DEF p
<1>4. players' \in [Sockets -> Players]
  BY <1>1, <1>2, <1>3
<1>5. players'[k] = p /\ \A l \in Sockets \ {k} : players'[l] = players[l]
  BY <1>1, <1>3
<1>6. GameTypeOK'
  BY <1>3, <1>4 DEF GameInv, GameTypeOK, Players
<1>7. PlayersKnown'
  BY <1>2, <1>3, <1>5 DEF PlayersKnown, GameInv
<1>8. SessionsCounted'
  BY <1>3 DEF SessionsCounted, GameInv
<1> QED
  BY <1>6, <1>7, <1>8 DEF GameInv

LEMMA DisconnectInv ==
  ASSUME GameInv, NEW k \in Sockets, Disconnect(k)
  PROVE  GameInv'
<1> DEFINE was == players[k].at = "in"
<1>1. /\ sockets \in [Sockets -> {"new", "open", "left"}]
      /\ players \in [Sockets -> Players] /\ history \in GameHistory
  BY GameTypes DEF GameInv
<1>2. /\ sockets' = [sockets EXCEPT ![k] = "left"]
      /\ players' = IF was THEN [players EXCEPT ![k] = Absent] ELSE players
      /\ history' = IF was THEN history
                    ELSE [history EXCEPT !.raced = history.raced \cup {k}]
      /\ UNCHANGED <<drops, hidden, trivia, stored, writes, losses>>
  BY DEF Disconnect, Leave
<1>3. /\ history' \in GameHistory /\ history'.owner = history.owner
      /\ history'.raced = IF was THEN history.raced ELSE history.raced \cup {k}
  BY <1>1, <1>2 DEF GameHistory
<1>4. players' \in [Sockets -> Players] /\ sockets' \in [Sockets -> {"new", "open", "left"}]
  BY <1>1, <1>2, NothingYet
<1>5. /\ sockets'[k] = "left" /\ \A l \in Sockets \ {k} : sockets'[l] = sockets[l]
      /\ players'[k] = (IF was THEN Absent ELSE players[k])
      /\ \A l \in Sockets \ {k} : players'[l] = players[l]
  BY <1>1, <1>2
<1>6. GameTypeOK'
  BY <1>2, <1>3, <1>4 DEF GameInv, GameTypeOK, Players
<1>7. PlayersKnown'
  BY <1>3, <1>5, NothingYet DEF PlayersKnown, GameInv
<1>8. SessionsCounted'
  BY <1>2 DEF SessionsCounted, GameInv
<1> QED
  BY <1>6, <1>7, <1>8 DEF GameInv

LEMMA MoveOnInv ==
  ASSUME GameInv, MoveOn
  PROVE  GameInv'
<1>1. drops \in [Drops -> DropStates] /\ hidden \in [HiddenCoupons -> HiddenStates]
  BY GameTypes DEF GameInv
<1>2. drops' \in [Drops -> DropStates] /\ hidden' \in [HiddenCoupons -> HiddenStates]
  <2>1. CASE \E d \in Drops : \E at \in Stages :
               drops' = [drops EXCEPT ![d].at = at] /\ hidden' = hidden
    BY <1>1, <2>1 DEF DropStates
  <2>2. CASE \E c \in HiddenCoupons : \E at \in Stages :
               hidden' = [hidden EXCEPT ![c].at = at] /\ drops' = drops
    BY <1>1, <2>2 DEF HiddenStates
  <2> QED
    BY <2>1, <2>2 DEF MoveOn, Stages
<1>3. UNCHANGED <<sockets, players, trivia, stored, writes, losses, history>>
  BY DEF MoveOn
<1>4. GameTypeOK'
  BY <1>2, <1>3 DEF GameInv, GameTypeOK, DropStates, HiddenStates
<1> QED
  BY <1>3, <1>4, SameInv

LEMMA ClaimDropInv ==
  ASSUME GameInv, NEW k \in Sockets, NEW d \in Drops, ClaimDrop(k, d)
  PROVE  GameInv'
<1> DEFINE claims == drops[d].claims \cup {ClaimKey(k)}
           new == [at |-> IF Cardinality(claims) = MaxClaims THEN "gone" ELSE "open",
                   claims |-> claims]
<1>1. drops \in [Drops -> DropStates] /\ players \in [Sockets -> Players]
  BY GameTypes DEF GameInv
<1>2. new \in DropStates
  <2>1. ClaimKey(k) \in Gamers \cup Sockets
    BY <1>1 DEF ClaimKey, Players, Owners
  <2>2. claims \in SUBSET (Gamers \cup Sockets)
    BY <1>1, <2>1 DEF DropStates
  <2> HIDE DEF claims
  <2> QED
    BY <2>2 DEF DropStates, Stages
<1>3. /\ drops' = [drops EXCEPT ![d] = new] /\ AddCoins(k, 300)
      /\ UNCHANGED <<sockets, hidden, trivia, stored, losses, history>>
  BY DEF ClaimDrop
<1> HIDE DEF new
<1>4. drops' \in [Drops -> DropStates]
  BY <1>1, <1>2, <1>3
<1>5. /\ players' \in [Sockets -> Players] /\ writes' \in Seq(Writes)
      /\ \A l \in Sockets : players'[l].at = players[l].at
                            /\ players'[l].owner = players[l].owner
  BY <1>3, AddCoinsDoes
<1>6. GameTypeOK'
  BY <1>3, <1>4, <1>5 DEF GameInv, GameTypeOK, Players, DropStates
<1> QED
  BY <1>3, <1>5, <1>6, SameInv

LEMMA FindCouponInv ==
  ASSUME GameInv, NEW k \in Sockets, NEW c \in HiddenCoupons, FindCoupon(k, c)
  PROVE  GameInv'
<1>1. hidden \in [HiddenCoupons -> HiddenStates]
  BY GameTypes DEF GameInv
<1>2. /\ hidden' = [hidden EXCEPT ![c].foundBy = hidden[c].foundBy \cup {k}]
      /\ AddCoins(k, 150)
      /\ UNCHANGED <<sockets, drops, trivia, stored, losses, history>>
  BY DEF FindCoupon
<1>3. hidden' \in [HiddenCoupons -> HiddenStates]
  BY <1>1, <1>2 DEF HiddenStates
<1>4. /\ players' \in [Sockets -> Players] /\ writes' \in Seq(Writes)
      /\ \A l \in Sockets : players'[l].at = players[l].at
                            /\ players'[l].owner = players[l].owner
  BY <1>2, AddCoinsDoes
<1>5. GameTypeOK'
  BY <1>2, <1>3, <1>4 DEF GameInv, GameTypeOK, Players, HiddenStates
<1> QED
  BY <1>2, <1>4, <1>5, SameInv

LEMMA JoinTriviaInv ==
  ASSUME GameInv, NEW k \in Sockets, JoinTrivia(k)
  PROVE  GameInv'
<1> DEFINE session == [NoTrivia EXCEPT !.joined = TRUE, !.due = trivia[k].due]
<1>1. trivia \in [Sockets -> Sessions]
  BY GameTypes DEF GameInv
<1>2. session \in Sessions /\ session.answered = {} /\ session.score = 0
  <2> DEFINE due == trivia[k].due
             joined == [NoTrivia EXCEPT !.joined = TRUE]
  <2>1. due \in Seq({200, 500})
    BY <1>1 DEF Sessions
  <2>2. joined \in Sessions /\ joined.answered = {} /\ joined.score = 0
    BY NothingYet DEF Sessions
  <2>3. session = [joined EXCEPT !.due = due]
    OBVIOUS
  <2> HIDE DEF due, joined, session
  <2> QED
    BY <2>1, <2>2, <2>3 DEF Sessions
<1>3. /\ trivia' = [trivia EXCEPT ![k] = session]
      /\ UNCHANGED <<sockets, players, drops, hidden, stored, writes, losses, history>>
  BY DEF JoinTrivia
<1> HIDE DEF session
<1>4. trivia' \in [Sockets -> Sessions]
  BY <1>1, <1>2, <1>3
<1>5. GameTypeOK'
  BY <1>3, <1>4 DEF GameInv, GameTypeOK, Sessions
<1>6. PlayersKnown'
  BY <1>3 DEF PlayersKnown, GameInv
<1>7. SessionsCounted'
  <2>1. trivia'[k] = session /\ \A l \in Sockets \ {k} : trivia'[l] = trivia[l]
    BY <1>1, <1>3
  <2>2. Cardinality({}) = 0
    BY FS_EmptySet
  <2> QED
    BY <1>2, <2>1, <2>2 DEF SessionsCounted, GameInv
<1> QED
  BY <1>5, <1>6, <1>7 DEF GameInv

(* One more answer; as a question is answered once, there are still no     *)
(* more correct answers than questions.                                    *)
LEMMA AnswerCounts ==
  ASSUME NEW session \in Sessions, session.score <= Cardinality(session.answered),
         NEW q \in 1..Questions, q \notin session.answered, NEW correct \in BOOLEAN,
         NEW next, next = [session EXCEPT !.answered = session.answered \cup {q},
                                          !.score = IF correct THEN session.score + 1
                                                               ELSE session.score]
  PROVE  next \in Sessions /\ next.score <= Cardinality(next.answered)
<1>1. /\ next.answered = session.answered \cup {q}
      /\ next.score = IF correct THEN session.score + 1 ELSE session.score
      /\ next.joined = session.joined /\ next.due = session.due
      /\ next = [joined |-> next.joined, answered |-> next.answered, score |-> next.score,
                 due |-> next.due]
  BY DEF Sessions
<1>2. /\ session.answered \in SUBSET (1..Questions) /\ session.score \in 0..Questions
      /\ session.joined \in BOOLEAN /\ session.due \in Seq({200, 500})
  BY DEF Sessions
<1>3. Questions \in Nat
  BY GameAssumption
<1>4. IsFiniteSet(1..Questions) /\ Cardinality(1..Questions) = Questions
  BY <1>3, FS_Interval
<1>5. IsFiniteSet(session.answered) /\ next.answered \in SUBSET (1..Questions)
  BY <1>1, <1>2, <1>4, FS_Subset
<1>6. Cardinality(next.answered) = Cardinality(session.answered) + 1
      /\ Cardinality(session.answered) \in Nat
  BY <1>1, <1>5, FS_AddElement, FS_CardinalityType
<1>7. Cardinality(next.answered) <= Questions
  BY <1>4, <1>5, FS_Subset
<1>8. next.score <= Cardinality(next.answered) /\ next.score \in Nat
  BY <1>1, <1>2, <1>6
<1>9. next.score \in 0..Questions
  BY <1>3, <1>6, <1>7, <1>8
<1> HIDE <1>1
<1>10. next \in Sessions
  BY <1>1, <1>2, <1>5, <1>9 DEF Sessions
<1> QED
  BY <1>8, <1>10

LEMMA AnswerTriviaDoes ==
  ASSUME GameInv, NEW k \in Sockets, NEW q \in 1..Questions, NEW correct \in BOOLEAN,
         AnswerTrivia(k, q, correct)
  PROVE  /\ GameInv'
         /\ UNCHANGED <<sockets, players, drops, hidden, stored, writes, losses, history>>
<1> DEFINE session == [trivia[k] EXCEPT !.answered = trivia[k].answered \cup {q},
                                        !.score = IF correct THEN trivia[k].score + 1
                                                             ELSE trivia[k].score]
           reward == Reward(session)
           new == IF reward = 0 THEN session
                  ELSE [session EXCEPT !.due = Append(session.due, reward)]
<1>1. trivia \in [Sockets -> Sessions]
  BY GameTypes DEF GameInv
<1>2. /\ q \notin trivia[k].answered
      /\ trivia' = [trivia EXCEPT ![k] = new]
      /\ UNCHANGED <<sockets, players, drops, hidden, stored, writes, losses, history>>
  BY DEF AnswerTrivia, Answerable
<1>3. session \in Sessions /\ session.score <= Cardinality(session.answered)
  BY <1>1, <1>2, AnswerCounts DEF GameInv, SessionsCounted
<1>4. reward \in {0, 200, 500}
  BY DEF Reward
<1> HIDE DEF session, reward
<1>5. new \in Sessions /\ new.score <= Cardinality(new.answered)
  <2>1. reward # 0 => Append(session.due, reward) \in Seq({200, 500})
    BY <1>3, <1>4 DEF Sessions
  <2> QED
    BY <1>3, <2>1 DEF Sessions
<1> HIDE DEF new
<1>6. /\ trivia'[k] = new /\ \A l \in Sockets \ {k} : trivia'[l] = trivia[l]
      /\ trivia' \in [Sockets -> Sessions]
  BY <1>1, <1>2, <1>5
<1>7. SessionsCounted'
  BY <1>5, <1>6 DEF SessionsCounted, GameInv
<1>8. GameTypeOK'
  BY <1>2, <1>6 DEF GameInv, GameTypeOK, Sessions
<1>9. PlayersKnown'
  BY <1>2 DEF GameInv, PlayersKnown
<1> QED
  BY <1>2, <1>7, <1>8, <1>9 DEF GameInv

(* What a paid reward adds to the coins on their way it adds to the won.   *)
LEMMA PayRewardDoes ==
  ASSUME GameInv, NEW k \in Sockets, PayReward(k)
  PROVE  /\ trivia' \in [Sockets -> Sessions] /\ SessionsCounted'
         /\ UNCHANGED <<sockets, drops, hidden, stored, losses>>
         /\ players' \in [Sockets -> Players] /\ writes' \in Seq(Writes)
         /\ \A l \in Sockets : players'[l].at = players[l].at
                               /\ players'[l].owner = players[l].owner
         /\ history' \in GameHistory
         /\ history'.owner = history.owner /\ history'.raced = history.raced
         /\ history'.lost = history.lost
         /\ \E n \in Nat : \A u \in Gamers :
              /\ CoinsOf(writes', u)
                   = CoinsOf(writes, u) + (IF players[k].owner = u THEN n ELSE 0)
              /\ history'.won[u]
                   = history.won[u] + (IF players[k].owner = u THEN n ELSE 0)
<1> DEFINE due == trivia[k].due
           reward == Head(due)
           session == [trivia[k] EXCEPT !.due = Tail(due)]
           o == players[k].owner
<1>1. /\ trivia \in [Sockets -> Sessions] /\ players \in [Sockets -> Players]
      /\ writes \in Seq(Writes) /\ history \in GameHistory
  BY GameTypes DEF GameInv
<1>2. /\ due # << >>
      /\ trivia' = [trivia EXCEPT ![k] = session]
      /\ UNCHANGED <<sockets, drops, hidden, stored, losses>>
      /\ players[k].at = "in" =>
           /\ AddCoins(k, reward)
           /\ history' = IF o = Guest THEN history
                ELSE [history EXCEPT !.won = [history.won EXCEPT ![o] = history.won[o] + reward]]
      /\ players[k].at # "in" => UNCHANGED <<players, writes, history>>
  BY DEF PayReward
<1>3. due \in Seq({200, 500})
  BY <1>1 DEF Sessions
<1>4. reward \in Nat /\ Tail(due) \in Seq({200, 500})
  BY <1>2, <1>3
<1>5. session \in Sessions /\ session.answered = trivia[k].answered
      /\ session.score = trivia[k].score
  <2> DEFINE old == trivia[k]
             rest == Tail(due)
  <2>1. old \in Sessions /\ rest \in Seq({200, 500}) /\ session = [old EXCEPT !.due = rest]
    BY <1>1, <1>4
  <2> HIDE DEF old, rest, session, due
  <2>2. session \in Sessions /\ session.answered = old.answered
        /\ session.score = old.score
    BY <2>1 DEF Sessions
  <2> QED
    BY <2>2 DEF old
<1> HIDE DEF session, reward, due
<1>6. trivia' \in [Sockets -> Sessions] /\ SessionsCounted'
  <2>1. trivia'[k] = session /\ \A l \in Sockets \ {k} : trivia'[l] = trivia[l]
    BY <1>1, <1>2
  <2> QED
    BY <1>1, <1>2, <1>5, <2>1 DEF SessionsCounted, GameInv
<1>7. \A u \in Gamers : CoinsOf(writes, u) \in Int /\ history.won[u] \in Int
  BY <1>1, CoinsOfInt DEF GameHistory
<1>8. CASE players[k].at # "in"
  <2>1. UNCHANGED <<players, writes, history>>
    BY <1>2, <1>8
  <2>2. \A u \in Gamers :
          /\ CoinsOf(writes', u) = CoinsOf(writes, u) + (IF players[k].owner = u THEN 0 ELSE 0)
          /\ history'.won[u] = history.won[u] + (IF players[k].owner = u THEN 0 ELSE 0)
    BY <1>7, <2>1
  <2> QED
    BY <1>1, <1>2, <1>6, <2>1, <2>2
<1>9. CASE players[k].at = "in"
  <2>1. AddCoins(k, reward)
    BY <1>2, <1>9
  <2>2. /\ players' \in [Sockets -> Players] /\ writes' \in Seq(Writes)
        /\ \A l \in Sockets : players'[l].at = players[l].at
                              /\ players'[l].owner = players[l].owner
        /\ \A u \in Gamers :
             CoinsOf(writes', u) = CoinsOf(writes, u) + (IF o = u THEN reward ELSE 0)
    BY <1>4, <2>1, AddCoinsDoes
  <2>3. /\ history' \in GameHistory
        /\ history'.owner = history.owner /\ history'.raced = history.raced
        /\ history'.lost = history.lost
        /\ \A u \in Gamers :
             history'.won[u] = history.won[u] + (IF o = u THEN reward ELSE 0)
    <3>1. CASE o = Guest
      <4>1. history' = history /\ \A u \in Gamers : o # u
        BY <1>2, <1>9, <3>1, GameAssumption
      <4> QED
        BY <1>1, <1>7, <4>1
    <3>2. CASE o # Guest
      <4> DEFINE won == [history.won EXCEPT ![o] = history.won[o] + reward]
      <4>1. history' = [history EXCEPT !.won = won]
        BY <1>2, <1>9, <3>2
      <4>2. o \in Gamers
        BY <1>1, <3>2 DEF Players, Owners
      <4>3. history.won \in [Gamers -> Nat]
        BY <1>1 DEF GameHistory
      <4>4. /\ won \in [Gamers -> Nat]
            /\ \A u \in Gamers : won[u] = history.won[u] + (IF o = u THEN reward ELSE 0)
        BY <1>4, <4>2, <4>3
      <4> HIDE DEF won
      <4>5. history' \in GameHistory /\ history'.won = won
            /\ history'.owner = history.owner /\ history'.raced = history.raced
            /\ history'.lost = history.lost
        BY <1>1, <4>1, <4>4 DEF GameHistory
      <4> QED
        BY <4>4, <4>5
    <3> QED
      BY <3>1, <3>2
  <2> QED
    BY <1>2, <1>4, <1>6, <2>2, <2>3
<1> QED
  BY <1>8, <1>9

LEMMA PayRewardInv ==
  ASSUME GameInv, NEW k \in Sockets, PayReward(k)
  PROVE  GameInv'
<1>1. /\ trivia' \in [Sockets -> Sessions] /\ SessionsCounted'
      /\ UNCHANGED <<sockets, drops, hidden, stored, losses>>
      /\ players' \in [Sockets -> Players] /\ writes' \in Seq(Writes)
      /\ \A l \in Sockets : players'[l].at = players[l].at
                            /\ players'[l].owner = players[l].owner
      /\ history' \in GameHistory
      /\ history'.owner = history.owner /\ history'.raced = history.raced
  BY PayRewardDoes
<1>2. GameTypeOK'
  BY <1>1 DEF GameInv, GameTypeOK, Players, Sessions
<1>3. PlayersKnown'
  BY <1>1 DEF GameInv, PlayersKnown
<1> QED
  BY <1>1, <1>2, <1>3 DEF GameInv

LEMMA EquipSkinInv ==
  ASSUME GameInv, NEW k \in Sockets, NEW skin \in Skins, EquipSkin(k, skin)
  PROVE  /\ GameInv'
         /\ \A u \in Gamers : CoinsOf(writes', u) = CoinsOf(writes, u)
<1> DEFINE p == players[k]
           q == [p EXCEPT !.profile = [p.profile EXCEPT !.skin = skin]]
           w == [owner |-> p.owner, coins |-> 0, skin |-> skin]
<1>1. players \in [Sockets -> Players] /\ writes \in Seq(Writes)
  BY GameTypes DEF GameInv
<1>2. q \in Players /\ q.at = p.at /\ q.owner = p.owner
  <2>1. p \in Players /\ p.profile \in Profiles
    BY <1>1 DEF Players
  <2>2. [p.profile EXCEPT !.skin = skin] \in Profiles
    BY <2>1 DEF Profiles
  <2> QED
    BY <2>1, <2>2 DEF Players
<1>3. /\ players' = [players EXCEPT ![k] = q] /\ writes' = Append(writes, w)
      /\ p.owner # Guest
      /\ UNCHANGED <<sockets, drops, hidden, trivia, stored, losses, history>>
  BY DEF EquipSkin
<1>4. w \in Writes /\ w.coins = 0
  BY <1>1, <1>3 DEF Writes, Players, Owners
<1> HIDE DEF q, w
<1>5. /\ players' \in [Sockets -> Players]
      /\ players'[k] = q /\ \A l \in Sockets \ {k} : players'[l] = players[l]
  BY <1>1, <1>2, <1>3
<1>6. writes' \in Seq(Writes)
  BY <1>1, <1>3, <1>4, AppendProperties
<1>7. GameTypeOK'
  BY <1>3, <1>5, <1>6 DEF GameInv, GameTypeOK, Players
<1>8. ASSUME NEW u \in Gamers PROVE CoinsOf(writes', u) = CoinsOf(writes, u)
  <2>1. CoinsOf(Append(writes, w), u)
          = CoinsOf(writes, u) + (IF w.owner = u THEN w.coins ELSE 0)
    BY <1>1, <1>4, CoinsOfAppend
  <2>2. CoinsOf(writes, u) \in Int
    BY <1>1, CoinsOfInt
  <2> QED
    BY <1>3, <1>4, <2>1, <2>2
<1>9. GameInv'
  BY <1>2, <1>3, <1>5, <1>7, SameInv
<1> QED
  BY <1>8, <1>9

LEMMA WriteIs ==
  ASSUME GameInv, NEW i \in DOMAIN writes
  PROVE  /\ i \in 1..Len(writes) /\ writes[i] \in Writes
         /\ writes[i].owner \in Gamers /\ writes[i].coins \in Int
         /\ RemoveAt(writes, i) \in Seq(Writes)
<1>1. writes \in Seq(Writes)
  BY GameTypes DEF GameInv
<1>2. i \in 1..Len(writes) /\ writes[i] \in Writes
  BY <1>1
<1>3. RemoveAt(writes, i) \in Seq(Writes)
  BY <1>1, <1>2, RemoveAtIs
<1> QED
  BY <1>2, <1>3 DEF Writes

LEMMA ApplyWriteDoes ==
  ASSUME GameInv, NEW i \in DOMAIN writes, ApplyWrite(i)
  PROVE  /\ GameInv'
         /\ \A u \in Gamers :
              stored'[u].coins
                = stored[u].coins + (IF writes[i].owner = u THEN writes[i].coins ELSE 0)
<1> DEFINE w == writes[i]
           old == stored[w.owner]
           new == Applied(w)
<1>1. /\ stored \in [Gamers -> Profiles] /\ w \in Writes /\ w.owner \in Gamers
      /\ w.coins \in Int /\ RemoveAt(writes, i) \in Seq(Writes)
  BY GameTypes, WriteIs DEF GameInv
<1>2. new \in Profiles /\ new.coins = old.coins + w.coins
  <2>1. old \in Profiles
    BY <1>1
  <2> DEFINE coins == old.coins + w.coins
             skin == IF w.skin = NoSkin THEN old.skin ELSE w.skin
  <2>2. new = [[old EXCEPT !.coins = coins] EXCEPT !.skin = skin]
    BY DEF Applied
  <2>3. coins \in Int /\ skin \in Skins \cup {NoSkin}
    BY <1>1, <2>1 DEF Profiles, Writes
  <2> HIDE DEF old, new, coins, skin
  <2>4. new \in Profiles /\ new.coins = coins
    BY <2>1, <2>2, <2>3 DEF Profiles
  <2> QED
    BY <2>4 DEF coins
<1>3. /\ stored' = [stored EXCEPT ![w.owner] = new] /\ writes' = RemoveAt(writes, i)
      /\ UNCHANGED <<sockets, players, drops, hidden, trivia, losses, history>>
  BY DEF ApplyWrite
<1> HIDE DEF new
<1>4. stored' \in [Gamers -> Profiles]
  BY <1>1, <1>2, <1>3
<1>5. stored'[w.owner] = new /\ \A u \in Gamers \ {w.owner} : stored'[u] = stored[u]
  BY <1>1, <1>3
<1>6. \A u \in Gamers : stored[u].coins \in Int
  BY <1>1 DEF Profiles
<1>7. GameTypeOK'
  BY <1>1, <1>3, <1>4 DEF GameInv, GameTypeOK
<1>8. GameInv'
  BY <1>3, <1>7, SameInv
<1> QED
  BY <1>2, <1>5, <1>6, <1>8

LEMMA LoseWriteDoes ==
  ASSUME GameInv, NEW i \in DOMAIN writes, LoseWrite(i)
  PROVE  /\ GameInv'
         /\ history'.won = history.won /\ history'.owner = history.owner
         /\ \A u \in Gamers :
              history'.lost[u]
                = history.lost[u] + (IF writes[i].owner = u THEN writes[i].coins ELSE 0)
<1> DEFINE w == writes[i]
           lost == [history.lost EXCEPT ![w.owner] = history.lost[w.owner] + w.coins]
<1>1. /\ history \in GameHistory /\ losses \in 0..MaxLosses /\ w.owner \in Gamers
      /\ w.coins \in Int /\ RemoveAt(writes, i) \in Seq(Writes)
  BY GameTypes, WriteIs DEF GameInv
<1>2. history.lost \in [Gamers -> Int]
  BY <1>1 DEF GameHistory
<1>3. /\ lost \in [Gamers -> Int]
      /\ \A u \in Gamers : lost[u] = history.lost[u] + (IF w.owner = u THEN w.coins ELSE 0)
  BY <1>1, <1>2
<1>4. /\ history' = [history EXCEPT !.lost = lost] /\ losses' = losses + 1
      /\ losses < MaxLosses /\ writes' = RemoveAt(writes, i)
      /\ UNCHANGED <<sockets, players, drops, hidden, trivia, stored>>
  BY DEF LoseWrite
<1> HIDE DEF lost
<1>5. /\ history' \in GameHistory /\ history'.lost = lost /\ history'.won = history.won
      /\ history'.owner = history.owner /\ history'.raced = history.raced
  BY <1>1, <1>3, <1>4 DEF GameHistory
<1>6. losses' \in 0..MaxLosses
  BY <1>1, <1>4, GameAssumption
<1>7. GameTypeOK'
  BY <1>1, <1>4, <1>5, <1>6 DEF GameInv, GameTypeOK
<1>8. GameInv'
  BY <1>4, <1>5, <1>7, SameInv
<1> QED
  BY <1>3, <1>5, <1>8

LEMMA RestartDoes ==
  ASSUME GameInv, Restart
  PROVE  /\ GameInv'
         /\ writes' = << >> /\ stored' = stored
         /\ history'.won = history.won /\ history'.owner = history.owner
         /\ \A u \in Gamers : history'.lost[u] = history.lost[u] + CoinsOf(writes, u)
         /\ \A k \in Sockets : sockets'[k] = "new" <=> sockets[k] = "new"
         /\ \A d \in Drops : drops'[d].claims = drops[d].claims
         /\ \A c \in HiddenCoupons : hidden'[c].foundBy = hidden[c].foundBy
<1> DEFINE lost == [u \in Gamers |-> history.lost[u] + OnTheWay(u)]
<1>1. /\ history \in GameHistory /\ losses \in 0..MaxLosses /\ writes \in Seq(Writes)
      /\ sockets \in [Sockets -> {"new", "open", "left"}]
      /\ drops \in [Drops -> DropStates] /\ hidden \in [HiddenCoupons -> HiddenStates]
  BY GameTypes DEF GameInv
<1>2. /\ lost \in [Gamers -> Int]
      /\ \A u \in Gamers : lost[u] = history.lost[u] + CoinsOf(writes, u)
  <2>1. \A u \in Gamers : history.lost[u] \in Int
    BY <1>1 DEF GameHistory
  <2>2. \A u \in Gamers : OnTheWay(u) = CoinsOf(writes, u) /\ CoinsOf(writes, u) \in Int
    BY <1>1, OnTheWayIs, CoinsOfInt
  <2> QED
    BY <2>1, <2>2
<1>3. /\ history' = [history EXCEPT !.lost = lost] /\ losses' = losses + 1
      /\ losses < MaxLosses /\ writes' = << >> /\ stored' = stored
      /\ sockets' = [k \in Sockets |-> IF sockets[k] = "new" THEN "new" ELSE "left"]
      /\ players' = [k \in Sockets |-> Absent] /\ trivia' = [k \in Sockets |-> NoTrivia]
      /\ drops' = [d \in Drops |-> [drops[d] EXCEPT !.at =
                     IF drops[d].at = "none" THEN drops[d].at ELSE "gone"]]
      /\ hidden' = [c \in HiddenCoupons |-> [hidden[c] EXCEPT !.at =
                      IF hidden[c].at = "none" THEN hidden[c].at ELSE "gone"]]
  BY DEF Restart
<1> HIDE DEF lost
<1>4. /\ history' \in GameHistory /\ history'.lost = lost /\ history'.won = history.won
      /\ history'.owner = history.owner /\ history'.raced = history.raced
  BY <1>1, <1>2, <1>3 DEF GameHistory
<1>5. /\ drops' \in [Drops -> DropStates]
      /\ \A d \in Drops : drops'[d].claims = drops[d].claims
  <2>1. \A d \in Drops : drops'[d] \in DropStates /\ drops'[d].claims = drops[d].claims
    BY <1>1, <1>3 DEF DropStates, Stages
  <2>2. drops' = [d \in Drops |-> drops'[d]]
    BY <1>3
  <2> QED
    BY <2>1, <2>2
<1>6. /\ hidden' \in [HiddenCoupons -> HiddenStates]
      /\ \A c \in HiddenCoupons : hidden'[c].foundBy = hidden[c].foundBy
  <2>1. \A c \in HiddenCoupons :
          hidden'[c] \in HiddenStates /\ hidden'[c].foundBy = hidden[c].foundBy
    BY <1>1, <1>3 DEF HiddenStates, Stages
  <2>2. hidden' = [c \in HiddenCoupons |-> hidden'[c]]
    BY <1>3
  <2> QED
    BY <2>1, <2>2
<1>7. /\ players' \in [Sockets -> Players] /\ trivia' \in [Sockets -> Sessions]
      /\ sockets' \in [Sockets -> {"new", "open", "left"}]
      /\ \A k \in Sockets : sockets'[k] = "new" <=> sockets[k] = "new"
  BY <1>1, <1>3, NothingYet
<1>8. GameTypeOK'
  <2>1. losses' \in 0..MaxLosses /\ writes' \in Seq(Writes)
    BY <1>1, <1>3, GameAssumption
  <2>2. stored' \in [Gamers -> Profiles]
    BY <1>3, GameTypes DEF GameInv
  <2> QED
    BY <1>4, <1>5, <1>6, <1>7, <2>1, <2>2
       DEF GameTypeOK, Players, DropStates, HiddenStates, Sessions
<1>9. PlayersKnown'
  <2>1. \A k \in Sockets : players'[k] = Absent
    BY <1>3
  <2> QED
    BY <2>1, NothingYet DEF PlayersKnown
<1>10. SessionsCounted'
  <2>1. \A k \in Sockets : trivia'[k] = NoTrivia
    BY <1>3
  <2>2. Cardinality(NoTrivia.answered) = 0
    BY NothingYet, FS_EmptySet
  <2> QED
    BY <2>1, <2>2, NothingYet DEF SessionsCounted
<1>11. GameInv'
  BY <1>8, <1>9, <1>10 DEF GameInv
<1> QED
  BY <1>2, <1>3, <1>4, <1>5, <1>6, <1>7, <1>11

LEMMA GameInvStep ==
  ASSUME GameInv, [GameNext]_gameVars
  PROVE  GameInv'
<1>1. ASSUME NEW k \in Sockets, SocketStep(k) PROVE GameInv'
  BY <1>1, ConnectInv, ReadProfileInv, EnterInv, DisconnectInv, ClaimDropInv,
     FindCouponInv, JoinTriviaInv, AnswerTriviaDoes, PayRewardInv, EquipSkinInv
     DEF SocketStep
<1>2. CASE MoveOn
  BY <1>2, MoveOnInv
<1>3. ASSUME NEW i \in DOMAIN writes, ApplyWrite(i) \/ LoseWrite(i) PROVE GameInv'
  BY <1>3, ApplyWriteDoes, LoseWriteDoes
<1>4. CASE Restart
  BY <1>4, RestartDoes
<1>5. CASE UNCHANGED gameVars
  <2>1. GameTypeOK'
    BY <1>5 DEF GameInv, GameTypeOK, gameVars
  <2> QED
    BY <1>5, <2>1, SameInv DEF gameVars
<1> QED
  BY <1>1, <1>2, <1>3, <1>4, <1>5 DEF GameNext

(* Players, sessions and connections agree: who is in a room was made by   *)
(* its connection, and no session counts answers it was not given.         *)
THEOREM GameInvariant == GameSpec => []GameInv
<1>1. GameInit => GameInv
  BY GameInvInit
<1>2. GameInv /\ [GameNext]_gameVars => GameInv'
  BY GameInvStep
<1> QED
  BY <1>1, <1>2, PTL DEF GameSpec

(* Every record of the game stays one of its kind; above all, no trivia    *)
(* session counts more correct answers than there are questions.           *)
THEOREM GameTypeCorrect == GameSpec => []GameTypeOK
<1>1. GameInv => GameTypeOK
  BY DEF GameInv
<1> QED
  BY <1>1, GameInvariant, PTL

(* A player whose client has left is one of a connection that ended while  *)
(* it was being made.                                                      *)
THEOREM NoOtherGhosts == GameSpec => []GhostsOnlyFromRace
<1>1. GameInv => GhostsOnlyFromRace
  BY DEF GameInv, PlayersKnown, GhostsOnlyFromRace
<1> QED
  BY <1>1, GameInvariant, PTL

-----------------------------------------------------------------------------
(* The invariant of the coins.  A connection that found a coupon has been  *)
(* made, so that the account it counts for is settled; and an account has  *)
(* claimed and found finitely many things.                                 *)
Claimed(u) == {d \in Drops : u \in drops[d].claims}
Found(u) == {f \in HiddenCoupons \X Sockets :
               f[2] \in hidden[f[1]].foundBy /\ history.owner[f[2]] = u}

(* What an account has, what is on its way and what was lost.              *)
Credited(u) == stored[u].coins + CoinsOf(writes, u) + history.lost[u]

CoinInv ==
  /\ GameInv
  /\ \A u \in Gamers : IsFiniteSet(Claimed(u)) /\ IsFiniteSet(Found(u))
  /\ \A c \in HiddenCoupons : \A k \in hidden[c].foundBy : sockets[k] # "new"
  /\ CoinsAddUp

LEMMA CoinsAddUpIs ==
  /\ CoinsAddUp <=>
       \A u \in Gamers :
         Credited(u) = 300 * Cardinality(Claimed(u)) + 150 * Cardinality(Found(u))
                         + history.won[u]
  /\ CoinsAddUp' <=>
       \A u \in Gamers :
         Credited(u)' = 300 * Cardinality(Claimed(u)') + 150 * Cardinality(Found(u)')
                          + history'.won[u]
<1>1. \A u : OnTheWay(u) = CoinsOf(writes, u) /\ OnTheWay(u)' = CoinsOf(writes, u)'
  BY OnTheWayIs DEF CoinsOf
<1>2. \A u : /\ Earned(u) = 300 * Cardinality(Claimed(u)) + 150 * Cardinality(Found(u))
                              + history.won[u]
             /\ Earned(u)' = 300 * Cardinality(Claimed(u)') + 150 * Cardinality(Found(u)')
                               + history'.won[u]
  BY DEF Earned, Claimed, Found
<1>3. \A u : /\ Credited(u) = stored[u].coins + OnTheWay(u) + history.lost[u]
             /\ Credited(u)' = stored'[u].coins + OnTheWay(u)' + history'.lost[u]
  BY <1>1 DEF Credited
<1>4. CoinsAddUp <=> \A u \in Gamers : Credited(u) = Earned(u)
  BY <1>3 DEF CoinsAddUp
<1>5. CoinsAddUp' <=> \A u \in Gamers : Credited(u)' = Earned(u)'
  BY <1>3 DEF CoinsAddUp
<1> QED
  BY <1>2, <1>4, <1>5

LEMMA CoinNumbers ==
  ASSUME CoinInv, NEW u \in Gamers
  PROVE  /\ stored[u].coins \in Int /\ CoinsOf(writes, u) \in Int
         /\ history.lost[u] \in Int /\ history.won[u] \in Int /\ Credited(u) \in Int
         /\ Cardinality(Claimed(u)) \in Int /\ Cardinality(Found(u)) \in Int
<1>1. /\ stored \in [Gamers -> Profiles] /\ writes \in Seq(Writes)
      /\ history \in GameHistory
  BY GameTypes DEF CoinInv, GameInv
<1>2. stored[u].coins \in Int /\ history.lost[u] \in Int /\ history.won[u] \in Int
  BY <1>1 DEF Profiles, GameHistory
<1>3. CoinsOf(writes, u) \in Int
  BY <1>1, CoinsOfInt
<1>4. Cardinality(Claimed(u)) \in Int /\ Cardinality(Found(u)) \in Int
  BY FS_CardinalityType DEF CoinInv
<1> QED
  BY <1>2, <1>3, <1>4 DEF Credited

LEMMA CoinInvInit == GameInit => CoinInv
<1> SUFFICES ASSUME GameInit PROVE CoinInv
  OBVIOUS
<1>1. GameInv
  BY GameInvInit
<1>2. /\ \A d \in Drops : drops[d].claims = {}
      /\ \A c \in HiddenCoupons : hidden[c].foundBy = {}
  BY DEF GameInit
<1>3. ASSUME NEW u \in Gamers
      PROVE  Claimed(u) = {} /\ Found(u) = {} /\ Credited(u) = 0 /\ history.won[u] = 0
  <2>1. Claimed(u) = {} /\ Found(u) = {}
    BY <1>2 DEF Claimed, Found
  <2>2. stored[u].coins = 0 /\ history.won[u] = 0 /\ history.lost[u] = 0
    BY DEF GameInit, NoProfile
  <2>3. CoinsOf(writes, u) = 0
    BY CoinsOfNone DEF GameInit
  <2> QED
    BY <2>1, <2>2, <2>3 DEF Credited
<1>4. IsFiniteSet({}) /\ Cardinality({}) = 0
  BY FS_EmptySet
<1>5. CoinsAddUp
  BY <1>3, <1>4, CoinsAddUpIs
<1> QED
  BY <1>1, <1>2, <1>3, <1>4, <1>5 DEF CoinInv

(* A step without a claim or a find: what it credits is what it won.       *)
LEMMA NothingFound ==
  ASSUME CoinInv, GameInv',
         \A d \in Drops : drops'[d].claims = drops[d].claims,
         \A c \in HiddenCoupons : hidden'[c].foundBy = hidden[c].foundBy,
         \A k \in Sockets : sockets[k] # "new" =>
           sockets'[k] # "new" /\ history'.owner[k] = history.owner[k],
         \A u \in Gamers :
           Credited(u)' = Credited(u) + (history'.won[u] - history.won[u])
  PROVE  CoinInv'
<1>1. \A c \in HiddenCoupons : hidden[c].foundBy \in SUBSET Sockets
  BY GameTypes DEF CoinInv, GameInv, HiddenStates
<1>2. ASSUME NEW u \in Gamers
      PROVE  Claimed(u)' = Claimed(u) /\ Found(u)' = Found(u)
  <2>1. Claimed(u)' = Claimed(u)
    BY DEF Claimed
  <2>2. \A f \in HiddenCoupons \X Sockets :
          (f[2] \in hidden'[f[1]].foundBy /\ history'.owner[f[2]] = u)
            <=> (f[2] \in hidden[f[1]].foundBy /\ history.owner[f[2]] = u)
    BY DEF CoinInv
  <2> QED
    BY <2>1, <2>2 DEF Found
<1>3. \A c \in HiddenCoupons : \A k \in hidden'[c].foundBy : sockets'[k] # "new"
  BY <1>1 DEF CoinInv
<1>4. CoinsAddUp'
  <2> SUFFICES ASSUME NEW u \in Gamers
               PROVE  Credited(u)' = 300 * Cardinality(Claimed(u)')
                        + 150 * Cardinality(Found(u)') + history'.won[u]
    BY CoinsAddUpIs
  <2>1. history'.won[u] \in Int
    BY GameTypes DEF GameInv, GameTypeOK, GameHistory
  <2>2. Credited(u) = 300 * Cardinality(Claimed(u)) + 150 * Cardinality(Found(u))
                        + history.won[u]
    BY CoinsAddUpIs DEF CoinInv
  <2>3. Credited(u)' = Credited(u) + (history'.won[u] - history.won[u])
    OBVIOUS
  <2> QED
    BY <1>2, <2>1, <2>2, <2>3, CoinNumbers
<1> QED
  BY <1>2, <1>3, <1>4 DEF CoinInv

LEMMA ClaimDropCoins ==
  ASSUME CoinInv, NEW k \in Sockets, NEW d \in Drops, ClaimDrop(k, d)
  PROVE  CoinInv'
<1> DEFINE o == players[k].owner
           key == ClaimKey(k)
<1>1. GameInv /\ GameInv'
  BY ClaimDropInv DEF CoinInv
<1>2. /\ drops \in [Drops -> DropStates] /\ players \in [Sockets -> Players]
  BY <1>1, GameTypes DEF GameInv
<1>3. /\ key \notin drops[d].claims
      /\ drops'[d].claims = drops[d].claims \cup {key}
      /\ \A e \in Drops \ {d} : drops'[e] = drops[e]
      /\ AddCoins(k, 300)
      /\ UNCHANGED <<sockets, hidden, trivia, stored, losses, history>>
  BY <1>2 DEF ClaimDrop
<1>4. \A u \in Gamers : u = key <=> u = o
  BY <1>2, GameAssumption DEF ClaimKey, Players, Owners
<1> HIDE DEF key
<1>5. \A u \in Gamers : Found(u)' = Found(u)
  BY <1>3 DEF Found
<1>6. ASSUME NEW u \in Gamers, u # o
      PROVE  Claimed(u)' = Claimed(u)
  <2>1. \A e \in Drops : u \in drops'[e].claims <=> u \in drops[e].claims
    BY <1>3, <1>4, <1>6
  <2> QED
    BY <2>1 DEF Claimed
<1>7. ASSUME NEW u \in Gamers, u = o
      PROVE  Claimed(u)' = Claimed(u) \cup {d} /\ d \notin Claimed(u)
  <2>1. \A e \in Drops : u \in drops'[e].claims <=> u \in drops[e].claims \/ e = d
    BY <1>3, <1>4, <1>7
  <2>2. u \notin drops[d].claims
    BY <1>3, <1>4, <1>7
  <2> QED
    BY <2>1, <2>2 DEF Claimed
<1>8. ASSUME NEW u \in Gamers
      PROVE  Credited(u)' = Credited(u) + (IF o = u THEN 300 ELSE 0)
  <2>1. CoinsOf(writes', u) = CoinsOf(writes, u) + (IF o = u THEN 300 ELSE 0)
    BY <1>1, <1>3, AddCoinsDoes
  <2> QED
    BY <1>3, <2>1, CoinNumbers DEF Credited
<1>9. ASSUME NEW u \in Gamers
      PROVE  /\ IsFiniteSet(Claimed(u)') /\ IsFiniteSet(Found(u)')
             /\ Credited(u)' = 300 * Cardinality(Claimed(u)')
                   + 150 * Cardinality(Found(u)') + history'.won[u]
  <2>1. /\ IsFiniteSet(Claimed(u)) /\ IsFiniteSet(Found(u))
        /\ Credited(u) = 300 * Cardinality(Claimed(u)) + 150 * Cardinality(Found(u))
                           + history.won[u]
    BY CoinsAddUpIs DEF CoinInv
  <2>2. CASE u # o
    BY <1>3, <1>5, <1>6, <1>8, <2>1, <2>2, CoinNumbers
  <2>3. CASE u = o
    <3>1. Claimed(u)' = Claimed(u) \cup {d} /\ d \notin Claimed(u)
      BY <1>7, <2>3
    <3>2. /\ IsFiniteSet(Claimed(u)')
          /\ Cardinality(Claimed(u)') = Cardinality(Claimed(u)) + 1
      BY <2>1, <3>1, FS_AddElement
    <3> QED
      BY <1>3, <1>5, <1>8, <2>1, <2>3, <3>2, CoinNumbers
  <2> QED
    BY <2>2, <2>3
<1>10. CoinsAddUp'
  BY <1>9, CoinsAddUpIs
<1> QED
  BY <1>1, <1>3, <1>9, <1>10 DEF CoinInv

LEMMA FindCouponCoins ==
  ASSUME CoinInv, NEW k \in Sockets, NEW c \in HiddenCoupons, FindCoupon(k, c)
  PROVE  CoinInv'
<1> DEFINE o == players[k].owner
<1>1. GameInv /\ GameInv'
  BY FindCouponInv DEF CoinInv
<1>2. /\ hidden \in [HiddenCoupons -> HiddenStates] /\ players \in [Sockets -> Players]
  BY <1>1, GameTypes DEF GameInv
<1>3. /\ k \notin hidden[c].foundBy
      /\ hidden'[c].foundBy = hidden[c].foundBy \cup {k}
      /\ \A e \in HiddenCoupons \ {c} : hidden'[e] = hidden[e]
      /\ AddCoins(k, 150)
      /\ UNCHANGED <<sockets, drops, trivia, stored, losses, history>>
  BY <1>2 DEF FindCoupon, HiddenStates
<1>4. sockets[k] # "new" /\ history.owner[k] = o
  BY <1>1 DEF FindCoupon, Playing, GameInv, PlayersKnown
<1>5. \A u \in Gamers : Claimed(u)' = Claimed(u)
  BY <1>3 DEF Claimed
<1>6. ASSUME NEW u \in Gamers, u # o
      PROVE  Found(u)' = Found(u)
  <2>1. \A f \in HiddenCoupons \X Sockets :
          (f[2] \in hidden'[f[1]].foundBy /\ history'.owner[f[2]] = u)
            <=> (f[2] \in hidden[f[1]].foundBy /\ history.owner[f[2]] = u)
    BY <1>3, <1>4, <1>6
  <2> QED
    BY <2>1 DEF Found
<1>7. ASSUME NEW u \in Gamers, u = o
      PROVE  Found(u)' = Found(u) \cup {<<c, k>>} /\ <<c, k>> \notin Found(u)
  <2>1. \A f \in HiddenCoupons \X Sockets :
          (f[2] \in hidden'[f[1]].foundBy /\ history'.owner[f[2]] = u)
            <=> \/ f[2] \in hidden[f[1]].foundBy /\ history.owner[f[2]] = u
                \/ f = <<c, k>>
    <3> SUFFICES ASSUME NEW x \in HiddenCoupons, NEW y \in Sockets
                 PROVE  (y \in hidden'[x].foundBy /\ history'.owner[y] = u)
                          <=> \/ y \in hidden[x].foundBy /\ history.owner[y] = u
                              \/ x = c /\ y = k
      OBVIOUS
    <3> QED
      BY <1>3, <1>4, <1>7
  <2>2. <<c, k>> \in HiddenCoupons \X Sockets /\ <<c, k>>[1] = c /\ <<c, k>>[2] = k
    OBVIOUS
  <2>3. Found(u)' = Found(u) \cup {<<c, k>>}
    BY <2>1, <2>2 DEF Found
  <2> QED
    BY <1>3, <2>2, <2>3 DEF Found
<1>8. ASSUME NEW u \in Gamers
      PROVE  Credited(u)' = Credited(u) + (IF o = u THEN 150 ELSE 0)
  <2>1. CoinsOf(writes', u) = CoinsOf(writes, u) + (IF o = u THEN 150 ELSE 0)
    BY <1>1, <1>3, AddCoinsDoes
  <2> QED
    BY <1>3, <2>1, CoinNumbers DEF Credited
<1>9. ASSUME NEW u \in Gamers
      PROVE  /\ IsFiniteSet(Claimed(u)') /\ IsFiniteSet(Found(u)')
             /\ Credited(u)' = 300 * Cardinality(Claimed(u)')
                   + 150 * Cardinality(Found(u)') + history'.won[u]
  <2>1. /\ IsFiniteSet(Claimed(u)) /\ IsFiniteSet(Found(u))
        /\ Credited(u) = 300 * Cardinality(Claimed(u)) + 150 * Cardinality(Found(u))
                           + history.won[u]
    BY CoinsAddUpIs DEF CoinInv
  <2>2. CASE u # o
    BY <1>3, <1>5, <1>6, <1>8, <2>1, <2>2, CoinNumbers
  <2>3. CASE u = o
    <3>1. Found(u)' = Found(u) \cup {<<c, k>>} /\ <<c, k>> \notin Found(u)
      BY <1>7, <2>3
    <3>2. /\ IsFiniteSet(Found(u)')
          /\ Cardinality(Found(u)') = Cardinality(Found(u)) + 1
      BY <2>1, <3>1, FS_AddElement
    <3> QED
      BY <1>3, <1>5, <1>8, <2>1, <2>3, <3>2, CoinNumbers
  <2> QED
    BY <2>2, <2>3
<1>10. CoinsAddUp'
  BY <1>9, CoinsAddUpIs
<1>11. \A e \in HiddenCoupons : \A l \in hidden'[e].foundBy : sockets'[l] # "new"
  BY <1>3, <1>4 DEF CoinInv
<1> QED
  BY <1>1, <1>9, <1>10, <1>11 DEF CoinInv

LEMMA CoinInvStep ==
  ASSUME CoinInv, [GameNext]_gameVars
  PROVE  CoinInv'
<1>1. GameInv /\ GameInv'
  BY GameInvStep DEF CoinInv
<1>2. /\ drops \in [Drops -> DropStates] /\ hidden \in [HiddenCoupons -> HiddenStates]
      /\ sockets \in [Sockets -> {"new", "open", "left"}] /\ history \in GameHistory
      /\ writes \in Seq(Writes)
  BY <1>1, GameTypes DEF GameInv
(* Steps that credit nobody.                                               *)
<1>3. ASSUME \A d \in Drops : drops'[d].claims = drops[d].claims,
             \A c \in HiddenCoupons : hidden'[c].foundBy = hidden[c].foundBy,
             \A k \in Sockets : sockets[k] # "new" =>
               sockets'[k] # "new" /\ history'.owner[k] = history.owner[k],
             stored' = stored, history'.lost = history.lost, history'.won = history.won,
             \A u \in Gamers : CoinsOf(writes', u) = CoinsOf(writes, u)
      PROVE  CoinInv'
  <2>1. \A u \in Gamers : Credited(u)' = Credited(u) + (history'.won[u] - history.won[u])
    BY <1>3, CoinNumbers DEF Credited
  <2> QED
    BY <1>1, <1>3, <2>1, NothingFound
<1>4. ASSUME NEW k \in Sockets, SocketStep(k) PROVE CoinInv'
  <2>1. ASSUME NEW owner \in Owners, Connect(k, owner) PROVE CoinInv'
    <3>1. /\ sockets[k] = "new" /\ sockets' = [sockets EXCEPT ![k] = "open"]
          /\ history' = [history EXCEPT !.owner = [history.owner EXCEPT ![k] = owner]]
          /\ UNCHANGED <<drops, hidden, stored, writes>>
      BY <2>1 DEF Connect
    <3>2. /\ history'.lost = history.lost /\ history'.won = history.won
          /\ \A l \in Sockets \ {k} : history'.owner[l] = history.owner[l]
      BY <1>2, <3>1 DEF GameHistory
    <3> QED
      BY <1>2, <1>3, <3>1, <3>2
  <2>2. CASE ReadProfile(k) \/ Enter(k) \/ JoinTrivia(k)
    <3>1. UNCHANGED <<sockets, drops, hidden, stored, writes, history>>
      BY <2>2 DEF ReadProfile, Enter, JoinTrivia
    <3> QED
      BY <1>3, <3>1
  <2>3. CASE Disconnect(k)
    <3>1. /\ sockets' = [sockets EXCEPT ![k] = "left"]
          /\ UNCHANGED <<drops, hidden, stored, writes>>
          /\ \/ history' = history
             \/ history' = [history EXCEPT !.raced = history.raced \cup {k}]
      BY <2>3 DEF Disconnect, Leave
    <3>2. /\ history'.lost = history.lost /\ history'.won = history.won
          /\ history'.owner = history.owner
      BY <1>2, <3>1 DEF GameHistory
    <3> QED
      BY <1>2, <1>3, <3>1, <3>2
  <2>4. CASE PayReward(k)
    <3>1. PICK n \in Nat : \A u \in Gamers :
            /\ CoinsOf(writes', u)
                 = CoinsOf(writes, u) + (IF players[k].owner = u THEN n ELSE 0)
            /\ history'.won[u]
                 = history.won[u] + (IF players[k].owner = u THEN n ELSE 0)
      BY <1>1, <2>4, PayRewardDoes
    <3>2. /\ UNCHANGED <<sockets, drops, hidden, stored, losses>>
          /\ history'.owner = history.owner /\ history'.lost = history.lost
      BY <1>1, <2>4, PayRewardDoes
    <3>3. \A u \in Gamers : Credited(u)' = Credited(u) + (history'.won[u] - history.won[u])
      BY <3>1, <3>2, CoinNumbers DEF Credited
    <3> QED
      BY <1>1, <3>2, <3>3, NothingFound
  <2>5. ASSUME NEW skin \in Skins, EquipSkin(k, skin) PROVE CoinInv'
    <3>1. \A u \in Gamers : CoinsOf(writes', u) = CoinsOf(writes, u)
      BY <1>1, <2>5, EquipSkinInv
    <3>2. UNCHANGED <<sockets, drops, hidden, stored, history>>
      BY <2>5 DEF EquipSkin
    <3> QED
      BY <1>3, <3>1, <3>2
  <2>6. ASSUME NEW q \in 1..Questions, NEW correct \in BOOLEAN, AnswerTrivia(k, q, correct)
        PROVE  CoinInv'
    <3>1. UNCHANGED <<sockets, drops, hidden, stored, writes, history>>
      BY <2>6 DEF AnswerTrivia
    <3> QED
      BY <1>3, <3>1
  <2> QED
    BY <1>4, <2>1, <2>2, <2>3, <2>4, <2>5, <2>6, ClaimDropCoins, FindCouponCoins
       DEF SocketStep
<1>5. CASE MoveOn
  <2>1. UNCHANGED <<sockets, stored, writes, history>>
    BY <1>5 DEF MoveOn
  <2>2. /\ \A d \in Drops : drops'[d].claims = drops[d].claims
        /\ \A c \in HiddenCoupons : hidden'[c].foundBy = hidden[c].foundBy
    <3>1. \/ hidden' = hidden /\ \E d \in Drops : \E at \in Stages :
               drops' = [drops EXCEPT ![d].at = at]
          \/ drops' = drops /\ \E c \in HiddenCoupons : \E at \in Stages :
               hidden' = [hidden EXCEPT ![c].at = at]
      BY <1>5 DEF MoveOn, Stages
    <3> QED
      BY <1>2, <3>1 DEF DropStates, HiddenStates
  <2> QED
    BY <1>3, <2>1, <2>2
<1>6. ASSUME NEW i \in DOMAIN writes, ApplyWrite(i) PROVE CoinInv'
  <2>1. /\ UNCHANGED <<sockets, drops, hidden, history>> /\ writes' = RemoveAt(writes, i)
    BY <1>6 DEF ApplyWrite
  <2>2. ASSUME NEW u \in Gamers
        PROVE  Credited(u)' = Credited(u) + (history'.won[u] - history.won[u])
    <3>1. stored'[u].coins
            = stored[u].coins + (IF writes[i].owner = u THEN writes[i].coins ELSE 0)
      BY <1>1, <1>6, ApplyWriteDoes
    <3>2. i \in 1..Len(writes) /\ writes[i].coins \in Int
      BY <1>1, WriteIs
    <3>3. CoinsOf(writes', u)
            = CoinsOf(writes, u) - (IF writes[i].owner = u THEN writes[i].coins ELSE 0)
      BY <1>2, <2>1, <3>2, CoinsOfRemoveAt
    <3> QED
      BY <2>1, <3>1, <3>2, <3>3, CoinNumbers DEF Credited
  <2> QED
    BY <1>1, <2>1, <2>2, NothingFound
<1>7. ASSUME NEW i \in DOMAIN writes, LoseWrite(i) PROVE CoinInv'
  <2>1. /\ UNCHANGED <<sockets, drops, hidden, stored>> /\ writes' = RemoveAt(writes, i)
    BY <1>7 DEF LoseWrite
  <2>2. history'.won = history.won /\ history'.owner = history.owner
    BY <1>1, <1>7, LoseWriteDoes
  <2>3. ASSUME NEW u \in Gamers
        PROVE  Credited(u)' = Credited(u) + (history'.won[u] - history.won[u])
    <3>1. history'.lost[u]
            = history.lost[u] + (IF writes[i].owner = u THEN writes[i].coins ELSE 0)
      BY <1>1, <1>7, LoseWriteDoes
    <3>2. i \in 1..Len(writes) /\ writes[i].coins \in Int
      BY <1>1, WriteIs
    <3>3. CoinsOf(writes', u)
            = CoinsOf(writes, u) - (IF writes[i].owner = u THEN writes[i].coins ELSE 0)
      BY <1>2, <2>1, <3>2, CoinsOfRemoveAt
    <3>4. stored'[u].coins = stored[u].coins /\ history'.won[u] = history.won[u]
      BY <2>1, <2>2
    <3>5. CASE writes[i].owner = u
      BY <3>1, <3>2, <3>3, <3>4, <3>5, CoinNumbers DEF Credited
    <3>6. CASE writes[i].owner # u
      BY <3>1, <3>3, <3>4, <3>6, CoinNumbers DEF Credited
    <3> QED
      BY <3>5, <3>6
  <2> QED
    BY <1>1, <2>1, <2>2, <2>3, NothingFound
<1>8. CASE Restart
  <2>1. /\ writes' = << >> /\ stored' = stored
        /\ history'.won = history.won /\ history'.owner = history.owner
        /\ \A u \in Gamers : history'.lost[u] = history.lost[u] + CoinsOf(writes, u)
        /\ \A k \in Sockets : sockets'[k] = "new" <=> sockets[k] = "new"
        /\ \A d \in Drops : drops'[d].claims = drops[d].claims
        /\ \A c \in HiddenCoupons : hidden'[c].foundBy = hidden[c].foundBy
    BY <1>1, <1>8, RestartDoes
  <2>2. ASSUME NEW u \in Gamers
        PROVE  Credited(u)' = Credited(u) + (history'.won[u] - history.won[u])
    <3>1. CoinsOf(writes', u) = 0
      BY <2>1, CoinsOfNone
    <3> QED
      BY <2>1, <3>1, CoinNumbers DEF Credited
  <2> QED
    BY <1>1, <2>1, <2>2, NothingFound
<1>9. CASE UNCHANGED gameVars
  BY <1>3, <1>9 DEF gameVars
<1> QED
  BY <1>4, <1>5, <1>6, <1>7, <1>8, <1>9 DEF GameNext

(* The coins of an account, with the updates on their way and the ones     *)
(* that were lost, are what it has earned: a reward is credited once,      *)
(* whatever connections of the account are rewarded at a time.             *)
THEOREM CoinsConserved == GameSpec => []CoinsAddUp
<1>1. GameInit => CoinInv
  BY CoinInvInit
<1>2. CoinInv /\ [GameNext]_gameVars => CoinInv'
  BY CoinInvStep
<1>3. CoinInv => CoinsAddUp
  BY DEF CoinInv
<1> QED
  BY <1>1, <1>2, <1>3, PTL DEF GameSpec

-----------------------------------------------------------------------------
(***************************************************************************)
(* The parts share no state: what is proved of each holds of the site.     *)
(***************************************************************************)

(* A behaviour of the site is one of each of its parts.                    *)
THEOREM SitePartsRun ==
  SiteSpec => /\ Spec /\ AuthSpec /\ GameSpec /\ DashboardSpec
              /\ CatalogSpec /\ ImagesSpec /\ LibrarySpec
<1>1. SiteInit => /\ Init /\ AuthInit /\ GameInit /\ DashboardInit
                  /\ CatalogInit /\ ImagesInit /\ LibraryInit
  BY DEF SiteInit
<1>2. ASSUME [SiteNext]_siteVars
      PROVE  /\ [Next]_vars /\ [AuthNext]_authVars /\ [GameNext]_gameVars
             /\ [DashboardNext]_dashboardVars /\ [CatalogNext]_catalogVars
             /\ [ImagesNext]_picturesVars /\ [LibraryNext]_libraryVars
  BY <1>2 DEF SiteNext, siteVars, AuthStep, GameStep, DashboardStep, CatalogStep,
     ImagesStep
<1> QED
  BY <1>1, <1>2, PTL
     DEF SiteSpec, Spec, AuthSpec, GameSpec, DashboardSpec, CatalogSpec, ImagesSpec,
         LibrarySpec

(* Every collection of the site keeps its type.                            *)
THEOREM SiteTypeCorrect == SiteSpec => []SiteTypeOK
<1>1. SiteSpec => /\ []TypeOK /\ []AuthTypeOK /\ []GameTypeOK /\ []DashboardTypeOK
                  /\ []CatalogTypeOK /\ []ImagesTypeOK /\ []LibraryTypeOK
  BY SitePartsRun, TypeCorrect, AuthTypeCorrect, GameTypeCorrect, DashboardTypeCorrect,
     CatalogTypeCorrect, PicturesTypeCorrect, LibraryTypeCorrect
<1>2. SiteTypeOK <=> /\ TypeOK /\ AuthTypeOK /\ GameTypeOK /\ DashboardTypeOK
                     /\ CatalogTypeOK /\ ImagesTypeOK /\ LibraryTypeOK
  BY DEF SiteTypeOK
<1> QED
  BY <1>1, <1>2, PTL
=============================================================================
