------------------------- MODULE PowerEvents_proofs -------------------------
(***************************************************************************)
(* Theorems about PowerEvents, for any sources, intervals and bounds.      *)
(***************************************************************************)
EXTENDS PowerEvents, TLAPS

-----------------------------------------------------------------------------
(* The inductive invariant.                                                *)

\* The blocks the main thread waits for, and which one it waits for where.
Control == {"subscribe", "suspend", "resume", "cleanup"}
Awaited == [subscribing |-> "subscribe", resubscribing |-> "subscribe", suspending |-> "suspend",
            resuming |-> "resume", cleaning |-> "cleanup"]

Places == Waiting \cup {"free", "backRefresh", "backTimer", "foreRefresh", "foreTimer", "daemon",
                        "over"}

PowerBlocks == [does : Control \cup {"match"}] \cup [does : {"interest"}, generation : Int]

\* A refresh is made for the generation of the stay in which it was begun.
Works == {w \in [generation : Int, begun : Int] : w.generation = 2 * (w.begun - 1)}
Finishes == {b \in [does : {"finished"}, generation : Int, begun : Int] :
               b.generation = 2 * (b.begun - 1)}

RefreshStates ==
  [inFlight : BOOLEAN, pending : BOOLEAN, suspended : BOOLEAN, spinning : BOOLEAN,
   generation : Int, flight : Int, queued : SUBSET Works]

MainBlocks == [does : {"status", "update"}] \cup Finishes

MonitorStates ==
  [initialized : BOOLEAN, suspended : BOOLEAN, attached : BOOLEAN,
   callback : {"none", "pmncb", "powerevent_listener"}, interests : SUBSET Sources,
   generation : Int]

Shape ==
  /\ monitor \in MonitorStates
  /\ announced \subseteq Sources /\ mail \subseteq Sources \X Int
  /\ powerQueue \in Seq(PowerBlocks)
  /\ power \in {"idle", "posting"} /\ main \in Places
  /\ app \in {"front", "back"} /\ session \in Int
  /\ refresh \in RefreshStates
  /\ mainQueue \in Seq(MainBlocks)

\* The queue holds a block the main thread waits for, and no other of its kind.
Orders(queue, place) ==
  /\ \A i \in 1..Len(queue) : queue[i].does \in Control =>
       place \in Waiting /\ queue[i].does = Awaited[place]
  /\ \A i, j \in 1..Len(queue) :
       queue[i].does \in Control /\ queue[j].does \in Control => i = j

\* Where the main thread is on the way to the background and back.
Away == {"suspending", "backRefresh", "backTimer", "resuming", "foreRefresh", "foreTimer"}
Lifted ==
  /\ main \in Away => app = "back"
  /\ main \in {"subscribing", "resubscribing", "cleaning", "daemon", "over"} => app = "front"
  /\ refresh.suspended <=> \/ main \in {"backTimer", "resuming", "foreRefresh"}
                           \/ main = "free" /\ app = "back"

\* Two generations to a stay: the second begins when it ends.
Counted == refresh.generation = 2 * (session - 1) + (IF refresh.suspended THEN 1 ELSE 0)

Silent == Quiet => ~monitor.initialized \/ monitor.suspended

PowerInv ==
  Shape /\ Orders(powerQueue, main) /\ Lifted /\ Counted /\ Silent /\ SpinnerBacked

-----------------------------------------------------------------------------
(* The blocks of the power queue.                                          *)

\* A block that has run leaves the order of the others, and none that is waited for if it was.
LEMMA TailOrders ==
  ASSUME NEW queue \in Seq(PowerBlocks), NEW place, queue # <<>>, Orders(queue, place)
  PROVE  /\ Tail(queue) \in Seq(PowerBlocks) /\ Orders(Tail(queue), place)
         /\ Head(queue) \in PowerBlocks
         /\ Head(queue).does \in Control =>
              /\ place \in Waiting /\ Head(queue).does = Awaited[place]
              /\ \A other : Orders(Tail(queue), other)
<1>1. /\ Tail(queue) \in Seq(PowerBlocks) /\ Len(Tail(queue)) = Len(queue) - 1 /\ Len(queue) \in Nat
      /\ Len(queue) > 0
      /\ Head(queue) = queue[1] /\ Head(queue) \in PowerBlocks
      /\ \A i \in 1..Len(Tail(queue)) : Tail(queue)[i] = queue[i + 1]
  OBVIOUS
<1>2. Orders(Tail(queue), place)
  BY <1>1 DEF Orders
<1>3. ASSUME Head(queue).does \in Control, NEW other PROVE Orders(Tail(queue), other)
  <2>1. \A i \in 1..Len(Tail(queue)) : Tail(queue)[i].does \notin Control
    BY <1>1, <1>3 DEF Orders
  <2> QED
    BY <2>1 DEF Orders
<1>4. Head(queue).does \in Control => place \in Waiting /\ Head(queue).does = Awaited[place]
  BY <1>1 DEF Orders
<1> QED
  BY <1>1, <1>2, <1>3, <1>4

\* A message of the kernel disturbs no order.
LEMMA MessageOrders ==
  ASSUME NEW queue \in Seq(PowerBlocks), NEW place, Orders(queue, place),
         NEW block \in PowerBlocks, block.does \notin Control
  PROVE  Append(queue, block) \in Seq(PowerBlocks) /\ Orders(Append(queue, block), place)
BY DEF Orders

\* Nor does the block of a main thread that was not waiting.
LEMMA CallOrders ==
  ASSUME NEW queue \in Seq(PowerBlocks), NEW place, NEW at \in Waiting,
         place \notin Waiting, Orders(queue, place)
  PROVE  LET asked == Append(queue, [does |-> Awaited[at]])
         IN asked \in Seq(PowerBlocks) /\ Orders(asked, at)
<1>1. [does |-> Awaited[at]] \in PowerBlocks
  BY DEF PowerBlocks, Awaited, Control, Waiting
<1>2. \A i \in 1..Len(queue) : queue[i].does \notin Control
  BY DEF Orders
<1> QED
  BY <1>1, <1>2 DEF Orders

\* A main thread that waits for nothing finds nothing there that it would wait for.
LEMMA IdleOrders ==
  ASSUME NEW queue \in Seq(PowerBlocks), NEW place, NEW other,
         place \notin Waiting, other \notin Waiting, Orders(queue, place)
  PROVE  Orders(queue, other)
BY DEF Orders

-----------------------------------------------------------------------------
(* The refresh machine.                                                    *)

\* A state of the refresh machine in the generation of the present one.
Kept(r) ==
  r \in RefreshStates /\ r.suspended = refresh.suspended /\ r.generation = refresh.generation

\* A refresh that starts is dated rightly, and the spinner that turns belongs to one.
LEMMA StartKeeps ==
  ASSUME session \in Int, Counted, NEW r, Kept(r)
  PROVE  /\ Kept(StartQueuedRefresh(r))
         /\ StartQueuedRefresh(r).spinning =>
              StartQueuedRefresh(r).inFlight
<1>1. CASE ~CanScheduleRefresh(r)
  BY <1>1 DEF Kept, RefreshStates, StartQueuedRefresh
<1>2. CASE CanScheduleRefresh(r) /\ r.inFlight
  BY <1>2 DEF Kept, RefreshStates, StartQueuedRefresh
<1>3. CASE CanScheduleRefresh(r) /\ ~r.inFlight
  <2>1. [generation |-> r.generation, begun |-> session] \in Works
    BY <1>3 DEF Kept, RefreshStates, Counted, CanScheduleRefresh, Works
  <2> QED
    BY <1>3, <2>1 DEF Kept, RefreshStates, StartQueuedRefresh
<1> QED
  BY <1>1, <1>2, <1>3

\* A table that cannot be updated now waits for the end of the scroll.
LEMMA UpdateKeeps ==
  ASSUME session \in Int, Counted, NEW r, Kept(r)
  PROVE  /\ Kept(UpdateTableView(r))
         /\ UpdateTableView(r).spinning =>
              \/ UpdateTableView(r).inFlight
              \/ /\ finger # "none" /\ r.spinning
                 /\ UpdateTableView(r).pending /\ UpdateTableView(r).inFlight = r.inFlight
<1>1. CASE ~CanScheduleRefresh(r)
  BY <1>1 DEF Kept, RefreshStates, UpdateTableView
<1>2. CASE CanScheduleRefresh(r) /\ Dragging
  BY <1>2 DEF Kept, RefreshStates, UpdateTableView, Dragging
<1>3. CASE CanScheduleRefresh(r) /\ ~Dragging
  BY <1>3, StartKeeps DEF UpdateTableView
<1> QED
  BY <1>1, <1>2, <1>3

\* The main thread's turns at it keep a spinner that is backed backed.
LEMMA TurnsKeep ==
  ASSUME PowerInv
  PROVE  /\ Kept(refresh)
         /\ Kept(UpdateTableView(refresh))
         /\ UpdateTableView(refresh).spinning =>
              \/ UpdateTableView(refresh).inFlight
              \/ UpdateTableView(refresh).pending /\ finger \in {"drag", "glide"}
         /\ Kept(ServePending(refresh))
         /\ ServePending(refresh).spinning => ServePending(refresh).inFlight
         /\ \A block : Kept(Finished(block)) /\ (Finished(block).spinning => Finished(block).inFlight)
<1> USE DEF PowerInv, Shape
<1>1. Kept(refresh)
  BY DEF Kept
<1>2. /\ Kept(UpdateTableView(refresh))
      /\ UpdateTableView(refresh).spinning =>
           \/ UpdateTableView(refresh).inFlight
           \/ UpdateTableView(refresh).pending /\ finger \in {"drag", "glide"}
  BY <1>1, UpdateKeeps DEF SpinnerBacked
<1>3. DEFINE served == [refresh EXCEPT !.pending = FALSE]
<1>4. Kept(served)
  BY DEF Kept, RefreshStates
<1>5. /\ Kept(ServePending(refresh))
      /\ ServePending(refresh).spinning => ServePending(refresh).inFlight
  BY <1>1, <1>4, StartKeeps DEF ServePending, SpinnerBacked
<1>6. ASSUME NEW block
      PROVE  Kept(Finished(block)) /\ (Finished(block).spinning => Finished(block).inFlight)
  <2> DEFINE r == [refresh EXCEPT !.inFlight = FALSE, !.spinning = FALSE]
             none == [r EXCEPT !.pending = FALSE]
  <2>1. /\ Kept(r) /\ Kept(none)
        /\ ~r.spinning /\ ~none.spinning
    BY DEF Kept, RefreshStates
  <2>2. Kept(StartQueuedRefresh(none)) /\ (StartQueuedRefresh(none).spinning => StartQueuedRefresh(none).inFlight)
    BY <2>1, StartKeeps
  <2>3. Finished(block) \in {r, none, StartQueuedRefresh(none)}
    BY DEF Finished
  <2> QED
    BY <2>1, <2>2, <2>3
<1> QED
  BY <1>1, <1>2, <1>5, <1>6

-----------------------------------------------------------------------------
(* The power queue and the kernel.                                         *)

\* Draining the iterator changes only what the monitor is interested in.
LEMMA DrainKeeps ==
  ASSUME Shape, NEW m \in MonitorStates, Drain(m)
  PROVE  /\ monitor' \in MonitorStates /\ announced' \subseteq Sources
         /\ monitor'.initialized = m.initialized /\ monitor'.suspended = m.suspended
<1>1. PICK failed \in SUBSET (announced \ m.interests) :
        monitor' = [m EXCEPT !.interests = @ \cup (announced \ failed)]
  BY DEF Drain
<1> QED
  BY <1>1 DEF Drain, Shape, MonitorStates

\* What a monitor becomes when it is given up, and when it is made anew.
LEMMA FreshMonitor ==
  ASSUME NEW g \in Int, NEW c \in {"none", "pmncb", "powerevent_listener"}
  PROVE  /\ [NoMonitor EXCEPT !.generation = g] \in MonitorStates
         /\ ~[NoMonitor EXCEPT !.generation = g].initialized
         /\ [NoMonitor EXCEPT !.initialized = TRUE, !.attached = TRUE, !.callback = c,
                              !.generation = g] \in MonitorStates
<1>1. NoMonitor \in MonitorStates
  <2>1. FALSE \in BOOLEAN /\ {} \in SUBSET Sources /\ 0 \in Int
    OBVIOUS
  <2>2. "none" \in {"none", "pmncb", "powerevent_listener"}
    OBVIOUS
  <2> QED
    BY <2>1, <2>2, Zenon DEF NoMonitor, MonitorStates
<1>2. ~NoMonitor.initialized
  BY Zenon DEF NoMonitor
<1> QED
  BY <1>1, <1>2 DEF MonitorStates

\* A block of the queue leaves the invariant as it was: the main thread goes on where it waited,
\* and one that suspends or ends the monitor leaves it silent.
LEMMA PowerQueueKeeps == ASSUME PowerInv, PowerQueue, UNCHANGED screen PROVE PowerInv'
<1> USE DEF PowerInv
<1>1. /\ powerQueue \in Seq(PowerBlocks) /\ powerQueue # <<>> /\ powerQueue' = Tail(powerQueue)
      /\ Head(powerQueue) \in PowerBlocks
      /\ powerQueue' \in Seq(PowerBlocks)
      /\ Orders(powerQueue', main)
      /\ Head(powerQueue).does \in Control =>
           /\ main \in Waiting /\ Head(powerQueue).does = Awaited[main]
           /\ \A other : Orders(powerQueue', other)
  BY TailOrders DEF PowerQueue, subscribeToPowerEvents, suspendPowerEventMonitoring,
     resumePowerEventMonitoring, cleanupPowerEventMonitoring, stpe_cb, powerInterestChanged, Runs, Shape
<1>2. ASSUME Head(powerQueue).does \in Control, Return PROVE Orders(powerQueue', main') /\ main' = After[main] /\ main \in Waiting
  BY <1>1, <1>2 DEF Return
<1>3. ASSUME Head(powerQueue).does \in Control, Return PROVE Lifted'
  BY <1>2, <1>3 DEF Lifted, After, Waiting, screen, Away
<1>4. CASE subscribeToPowerEvents
  <2>1. /\ Return /\ Head(powerQueue).does = "subscribe" /\ UNCHANGED <<mail, power>>
        /\ Head(powerQueue).does \in Control
        /\ main \in {"subscribing", "resubscribing"}
    BY <1>1, <1>4 DEF subscribeToPowerEvents, Runs, Control, Waiting, Awaited
  <2>2. /\ Callback \in {"none", "pmncb", "powerevent_listener"}
        /\ monitor.generation + 1 \in Int /\ monitor.generation + 2 \in Int
    BY DEF Callback, Shape, MonitorStates
  <2>3. Subscribed \in MonitorStates
    BY <2>2, FreshMonitor, Zenon DEF Subscribed
  <2>4. [NoMonitor EXCEPT !.generation = monitor.generation + 2] \in MonitorStates
    BY <2>2, FreshMonitor, Zenon
  <2>5. [monitor EXCEPT !.callback = Callback] \in MonitorStates
    BY <2>2 DEF MonitorStates, Shape
  <2>6. monitor' \in MonitorStates /\ announced' \subseteq Sources
    BY <1>4, <2>3, <2>4, <2>5, DrainKeeps DEF subscribeToPowerEvents, Shape
  <2>7. main' \in {"free", "daemon"} /\ app' = "front"
    BY <1>2, <2>1 DEF After, Lifted, screen
  <2>8. Shape'
    BY <1>1, <2>1, <2>6, <2>7 DEF Shape, Places, screen
  <2>9. Silent'
    BY <2>7 DEF Silent, Quiet
  <2> QED
    BY <1>2, <1>3, <2>1, <2>8, <2>9 DEF Counted, SpinnerBacked, screen
<1>5. CASE suspendPowerEventMonitoring
  <2>1. /\ Return /\ Head(powerQueue).does = "suspend" /\ UNCHANGED <<announced, mail, power>>
        /\ Head(powerQueue).does \in Control
    BY <1>1, <1>5 DEF suspendPowerEventMonitoring, Runs, Control
  <2>2. monitor' \in MonitorStates /\ (~monitor'.initialized \/ monitor'.suspended)
    BY <1>5 DEF suspendPowerEventMonitoring, Shape, MonitorStates
  <2>3. main' \in Places
    BY <1>2, <2>1 DEF After, Waiting, Places
  <2>4. Shape' /\ Silent'
    BY <1>1, <2>1, <2>2, <2>3 DEF Shape, Silent, screen
  <2> QED
    BY <1>2, <1>3, <2>1, <2>4 DEF Counted, SpinnerBacked, screen
<1>6. CASE resumePowerEventMonitoring
  <2>1. /\ Return /\ Head(powerQueue).does = "resume" /\ UNCHANGED <<mail, power>>
        /\ Head(powerQueue).does \in Control /\ main = "resuming"
    BY <1>1, <1>6 DEF resumePowerEventMonitoring, Runs, Control, Awaited, Waiting
  <2>2. monitor' \in MonitorStates /\ announced' \subseteq Sources
    <3>1. [monitor EXCEPT !.suspended = FALSE, !.attached = TRUE] \in MonitorStates
      BY DEF Shape, MonitorStates
    <3> QED
      BY <1>6, <3>1, DrainKeeps DEF resumePowerEventMonitoring, Shape
  <2>3. main' = "foreRefresh"
    BY <1>2, <2>1 DEF After
  <2>4. Shape' /\ Silent'
    BY <1>1, <2>1, <2>2, <2>3 DEF Shape, Silent, Quiet, screen, Places
  <2> QED
    BY <1>2, <1>3, <2>1, <2>4 DEF Counted, SpinnerBacked, screen
<1>7. CASE cleanupPowerEventMonitoring
  <2>1. /\ Return /\ Head(powerQueue).does = "cleanup" /\ UNCHANGED <<announced, power>>
        /\ Head(powerQueue).does \in Control /\ mail' = {}
    BY <1>1, <1>7 DEF cleanupPowerEventMonitoring, Runs, Control
  <2>2. monitor' \in MonitorStates /\ ~monitor'.initialized
    <3>1. monitor.generation + 1 \in Int
      BY DEF Shape, MonitorStates
    <3> QED
      BY <1>7, <3>1, FreshMonitor, Zenon DEF cleanupPowerEventMonitoring, Cleaned
  <2>3. main' \in Places
    BY <1>2, <2>1 DEF After, Waiting, Places
  <2>4. Shape' /\ Silent'
    BY <1>1, <2>1, <2>2, <2>3 DEF Shape, Silent, screen
  <2> QED
    BY <1>2, <1>3, <2>1, <2>4 DEF Counted, SpinnerBacked, screen
<1>8. CASE stpe_cb
  <2>1. monitor' \in MonitorStates /\ announced' \subseteq Sources
        /\ monitor'.initialized = monitor.initialized /\ monitor'.suspended = monitor.suspended
    BY <1>8, DrainKeeps DEF stpe_cb, Shape
  <2>2. Shape' /\ Silent'
    BY <1>1, <1>8, <2>1 DEF Shape, Silent, Quiet, screen, stpe_cb
  <2> QED
    BY <1>1, <1>8, <2>2 DEF Counted, SpinnerBacked, screen, Lifted, stpe_cb
<1>9. CASE powerInterestChanged
  <2>1. power' \in {"idle", "posting"} /\ UNCHANGED <<monitor, announced, mail, main>>
    BY <1>9 DEF powerInterestChanged, pmncb
  <2>2. Shape' /\ Silent'
    BY <1>1, <2>1 DEF Shape, Silent, Quiet, screen
  <2> QED
    BY <1>1, <2>1, <2>2 DEF Counted, SpinnerBacked, screen, Lifted
<1> QED
  BY <1>4, <1>5, <1>6, <1>7, <1>8, <1>9 DEF PowerQueue

\* Messages of the kernel find the monitor as it is.
LEMMA KernelKeeps == ASSUME PowerInv, Kernel, UNCHANGED screen PROVE PowerInv'
<1> USE DEF PowerInv
<1>1. ASSUME NEW s \in Sources, Changed(s) PROVE PowerInv'
  BY <1>1 DEF Changed, Shape, MonitorStates, screen, Lifted, Counted, Silent, Quiet, SpinnerBacked
<1>2. ASSUME NEW s \in Sources, Appears(s) PROVE PowerInv'
  <2>1. [does |-> "match"] \in PowerBlocks /\ "match" \notin Control
    BY DEF PowerBlocks, Control
  <2>2. powerQueue' \in Seq(PowerBlocks) /\ Orders(powerQueue', main')
    BY <1>2, <2>1, MessageOrders DEF Appears, Shape
  <2> QED
    BY <1>2, <2>2 DEF Appears, Shape, screen, Lifted, Counted, Silent, Quiet, SpinnerBacked
<1>3. ASSUME NEW m \in mail, Deliver(m) PROVE PowerInv'
  <2>1. [does |-> "interest", generation |-> m[2]] \in PowerBlocks /\ "interest" \notin Control
    BY DEF PowerBlocks, Control, Shape
  <2>2. powerQueue' \in Seq(PowerBlocks) /\ Orders(powerQueue', main')
    BY <1>3, <2>1, MessageOrders DEF Deliver, Shape
  <2> QED
    BY <1>3, <2>2 DEF Deliver, Shape, screen, Lifted, Counted, Silent, Quiet, SpinnerBacked
<1> QED
  BY <1>1, <1>2, <1>3 DEF Kernel

-----------------------------------------------------------------------------
(* The screen.                                                             *)

\* A step of the refresh machine that leaves the main thread and the power queue alone.
LEMMA RefreshKeeps ==
  ASSUME PowerInv, UNCHANGED <<monitorVars, main, app, session>>, mainQueue' \in Seq(MainBlocks),
         Kept(refresh'), refresh'.spinning =>
           refresh'.inFlight \/ (refresh'.pending /\ finger' \in {"drag", "glide"})
  PROVE  PowerInv'
<1>1. Shape'
  BY DEF PowerInv, Shape, Kept, monitorVars
<1>2. Orders(powerQueue', main') /\ Silent'
  BY DEF PowerInv, Silent, Quiet, monitorVars
<1>3. Lifted' /\ Counted'
  BY DEF PowerInv, Lifted, Counted, Kept
<1>4. SpinnerBacked'
  BY DEF SpinnerBacked
<1> QED
  BY <1>1, <1>2, <1>3, <1>4 DEF PowerInv

\* Events, timers and refreshes on their way to the screen.
LEMMA EventsKeep ==
  ASSUME PowerInv,
         RefreshDone \/ RunStatus \/ RunUpdate \/ RunFinished \/ BSVCTimerFired
  PROVE  PowerInv'
<1>1. /\ mainQueue \in Seq(MainBlocks) /\ refresh \in RefreshStates /\ Kept(refresh)
      /\ refresh.spinning => refresh.inFlight \/ (refresh.pending /\ finger \in {"drag", "glide"})
  BY DEF PowerInv, Shape, Kept, SpinnerBacked
<1>2. ASSUME NEW block, MainRuns(block)
      PROVE  /\ UNCHANGED <<monitorVars, main, app, session, finger>> /\ mainQueue' \in Seq(MainBlocks)
  BY <1>1, <1>2 DEF MainRuns
<1>3. CASE RefreshDone
  <2>1. PICK work \in refresh.queued :
          /\ refresh' = [refresh EXCEPT !.queued = {}]
          /\ mainQueue' = Append(mainQueue, [does |-> "finished", generation |-> work.generation,
                                             begun |-> work.begun])
          /\ UNCHANGED <<monitorVars, main, app, session, finger>>
    BY <1>3 DEF RefreshDone
  <2>2. [does |-> "finished", generation |-> work.generation, begun |-> work.begun] \in MainBlocks
    BY <1>1, <2>1 DEF RefreshStates, Works, MainBlocks, Finishes
  <2>3. mainQueue' \in Seq(MainBlocks)
    BY <1>1, <2>1, <2>2
  <2>4. /\ Kept(refresh')
        /\ refresh'.spinning => refresh'.inFlight \/ (refresh'.pending /\ finger' \in {"drag", "glide"})
    BY <1>1, <2>1 DEF RefreshStates, Kept
  <2> QED
    BY <2>1, <2>3, <2>4, RefreshKeeps
<1>4. CASE RunStatus \/ RunUpdate
  <2>1. \E block : MainRuns(block)
    BY <1>4 DEF RunStatus, RunUpdate
  <2>2. refresh' \in {refresh, UpdateTableView(refresh)}
    BY <1>4 DEF RunStatus, RunUpdate
  <2> QED
    BY <1>1, <1>2, <2>1, <2>2, TurnsKeep, RefreshKeeps
<1>5. CASE RunFinished
  <2>1. MainRuns("finished") /\ refresh' = Finished(Head(mainQueue))
    BY <1>5 DEF RunFinished
  <2> QED
    BY <1>2, <2>1, TurnsKeep, RefreshKeeps
<1>6. CASE BSVCTimerFired
  <2>1. refresh' \in {refresh, UpdateTableView(refresh)}
        /\ UNCHANGED <<monitorVars, main, app, session, finger, mainQueue>>
    BY <1>6 DEF BSVCTimerFired
  <2> QED
    BY <1>1, <2>1, TurnsKeep, RefreshKeeps
<1> QED
  BY <1>3, <1>4, <1>5, <1>6

\* The user's steps.
LEMMA UserKeeps == ASSUME PowerInv, User PROVE PowerInv'
<1>1. /\ mainQueue \in Seq(MainBlocks) /\ refresh \in RefreshStates /\ Kept(refresh)
      /\ refresh.spinning => refresh.inFlight \/ (refresh.pending /\ finger \in {"drag", "glide"})
  BY DEF PowerInv, Shape, Kept, SpinnerBacked
<1>2. UNCHANGED <<monitorVars, main, app, session, mainQueue>>
  BY DEF User, viewWillAppear, viewDidAppear, viewDidDisappear, SetPreference, Touch, Lift, Drag, Pull,
     EndDragging, EndDecelerating, Unmoved
<1>3. CASE viewWillAppear \/ viewDidAppear \/ viewDidDisappear \/ SetPreference
  <2>1. UNCHANGED <<refresh, finger>>
    BY <1>3 DEF viewWillAppear, viewDidAppear, viewDidDisappear, SetPreference
  <2> QED
    BY <1>1, <1>2, <2>1, RefreshKeeps
<1>4. CASE Touch \/ Lift \/ Drag \/ (EndDragging /\ refresh' = refresh)
  <2>1. refresh' = refresh
    BY <1>4 DEF Touch, Lift, Drag
  <2>2. finger \in {"drag", "glide"} => \/ finger' \in {"drag", "glide"}
                                        \/ refresh' = ServePending(refresh)
    BY <1>4 DEF Touch, Lift, Drag, EndDragging, Scroll
  <2> QED
    BY <1>1, <1>2, <2>1, <2>2, TurnsKeep, RefreshKeeps
<1>5. CASE Pull
  <2> DEFINE r == [refresh EXCEPT !.spinning = TRUE]
  <2>1. finger = "drag" /\ finger' = "drag" /\ refresh' = UpdateTableView(r)
    BY <1>5 DEF Pull, Scroll
  <2>2. Kept(r) /\ session \in Int /\ Counted
    BY <1>1 DEF Kept, RefreshStates, PowerInv, Shape
  <2>3. HIDE DEF r
  <2>4. Kept(refresh') /\ (refresh'.spinning => refresh'.inFlight \/ refresh'.pending)
    BY <2>1, <2>2, UpdateKeeps
  <2> QED
    BY <1>1, <1>2, <2>1, <2>4, RefreshKeeps
<1>6. CASE EndDecelerating \/ (EndDragging /\ refresh' # refresh)
  <2>1. refresh' = ServePending(refresh)
    BY <1>6 DEF EndDecelerating, EndDragging
  <2> QED
    BY <1>1, <1>2, <2>1, TurnsKeep, RefreshKeeps
<1> QED
  BY <1>3, <1>4, <1>5, <1>6 DEF User

-----------------------------------------------------------------------------
(* To the background and back.                                             *)

\* The callback hands its event over and waits for nobody.
LEMMA CallbackKeeps == ASSUME PowerInv, BSVCBatteryStatusCallback PROVE PowerInv'
<1>1. /\ power' = "idle" /\ UNCHANGED <<monitor, announced, mail, powerQueue, main, app, session, refresh, finger>>
      /\ mainQueue \in Seq(MainBlocks)
      /\ mainQueue' \in {mainQueue, Append(mainQueue, [does |-> "status"])}
  BY DEF BSVCBatteryStatusCallback, PowerInv, Shape
<1>2. mainQueue' \in Seq(MainBlocks)
  <2>1. [does |-> "status"] \in MainBlocks
    BY DEF MainBlocks
  <2> QED
    BY <1>1, <2>1
<1>3. Shape'
  BY <1>1, <1>2 DEF PowerInv, Shape
<1>4. Lifted' /\ Counted' /\ Silent' /\ SpinnerBacked' /\ Orders(powerQueue', main')
  BY <1>1 DEF PowerInv, Lifted, Counted, Silent, Quiet, SpinnerBacked
<1> QED
  BY <1>3, <1>4 DEF PowerInv

\* The main thread enters the power queue.
LEMMA CallsKeep ==
  ASSUME PowerInv, DidEnterBackground \/ WillEnterForeground \/ DaemonMain \/ Terminate
  PROVE  PowerInv'
<1>1. /\ UNCHANGED <<monitor, announced, mail, power, session, refresh, finger, mainQueue>>
      /\ powerQueue \in Seq(PowerBlocks) /\ Orders(powerQueue, main)
      /\ main \in {"free", "daemon"} /\ app' \in {"front", "back"}
  BY DEF PowerInv, Shape, DidEnterBackground, WillEnterForeground, DaemonMain, Terminate, screen
<1>2. main \notin Waiting
  BY <1>1 DEF Waiting
<1>3. \E at \in Waiting : main' = at /\ powerQueue' = Append(powerQueue, [does |-> Awaited[at]])
  <2>1. /\ {"suspending", "resuming", "resubscribing", "cleaning"} \subseteq Waiting
        /\ Awaited["suspending"] = "suspend" /\ Awaited["resuming"] = "resume"
        /\ Awaited["resubscribing"] = "subscribe" /\ Awaited["cleaning"] = "cleanup"
    BY DEF Waiting, Awaited
  <2> QED
    BY <2>1 DEF DidEnterBackground, WillEnterForeground, DaemonMain, Terminate, OnPowerQueue
<1>4. powerQueue' \in Seq(PowerBlocks) /\ Orders(powerQueue', main') /\ main' \in Waiting
  BY <1>1, <1>2, <1>3, CallOrders
<1>5. Shape'
  BY <1>1, <1>4 DEF PowerInv, Shape, Places
<1>6. Silent' /\ Counted' /\ SpinnerBacked'
  BY <1>1, <1>4 DEF PowerInv, Silent, Quiet, Waiting, Counted, SpinnerBacked
<1>7. Lifted'
  BY <1>1 DEF PowerInv, Lifted, Away, DidEnterBackground, WillEnterForeground, DaemonMain, Terminate,
     OnPowerQueue, screen
<1> QED
  BY <1>4, <1>5, <1>6, <1>7 DEF PowerInv

\* The observers of the app's life, one after the other.
LEMMA LifecycleKeeps == ASSUME PowerInv, Lifecycle PROVE PowerInv'
<1>1. /\ UNCHANGED <<monitorVars, finger>>
      /\ main \notin Waiting /\ main' \notin Waiting /\ main' \in Places
  BY DEF Lifecycle, applicationDidEnterBackground, PauseTimer, applicationWillEnterForeground, ResumeTimer,
     Waiting, Places
<1>2. powerQueue' \in Seq(PowerBlocks) /\ Orders(powerQueue', main')
  BY <1>1, IdleOrders DEF PowerInv, Shape, monitorVars
<1>3. /\ refresh \in RefreshStates /\ session \in Int
      /\ \/ main = "backRefresh" /\ main' = "backTimer" /\ UNCHANGED <<app, session>>
            /\ BackgroundRefresh
         \/ main = "backTimer" /\ main' = "free" /\ UNCHANGED <<app, session, refresh>>
         \/ main = "foreRefresh" /\ main' = "foreTimer" /\ app' = app /\ session' = session + 1
            /\ refresh' = [refresh EXCEPT !.suspended = FALSE, !.generation = @ + 1]
         \/ main = "foreTimer" /\ main' = "free" /\ app' = "front" /\ UNCHANGED <<session, refresh>>
  BY DEF Lifecycle, applicationDidEnterBackground, PauseTimer, applicationWillEnterForeground, ResumeTimer,
     PowerInv, Shape
<1>4. /\ refresh' \in RefreshStates /\ session' \in Int
       /\ \/ main = "backRefresh" /\ refresh'.suspended /\ refresh'.generation = refresh.generation + 1
          \/ main = "foreRefresh" /\ ~refresh'.suspended /\ refresh'.generation = refresh.generation + 1
          \/ main \in {"backTimer", "foreTimer"} /\ refresh' = refresh
  <2>1. CASE BackgroundRefresh /\ main = "backRefresh" /\ UNCHANGED session
    <3>1. TRUE \in BOOLEAN /\ FALSE \in BOOLEAN /\ refresh.generation + 1 \in Int
          /\ (refresh.spinning /\ refresh.inFlight) \in BOOLEAN
      BY <1>3 DEF RefreshStates
    <3>2. refresh' = [refresh EXCEPT !.suspended = TRUE, !.pending = FALSE,
                                     !.generation = refresh.generation + 1,
                                     !.spinning = refresh.spinning /\ refresh.inFlight]
      BY <2>1 DEF BackgroundRefresh
    <3>3. refresh'.suspended /\ refresh'.generation = refresh.generation + 1
      BY <1>3, <3>2 DEF RefreshStates
    <3>4. refresh' \in RefreshStates
      BY <1>3, <3>1, <3>2, Zenon DEF RefreshStates
    <3> QED
      BY <1>3, <2>1, <3>3, <3>4
  <2>2. CASE main = "foreRefresh"
    <3>1. session' = session + 1
          /\ refresh' = [refresh EXCEPT !.suspended = FALSE, !.generation = refresh.generation + 1]
      BY <1>3, <2>2
    <3>2. FALSE \in BOOLEAN /\ refresh.generation + 1 \in Int /\ session' \in Int
      BY <1>3, <3>1 DEF RefreshStates
    <3>3. ~refresh'.suspended /\ refresh'.generation = refresh.generation + 1
      BY <1>3, <3>1 DEF RefreshStates
    <3>4. refresh' \in RefreshStates
      BY <1>3, <3>1, <3>2, Zenon DEF RefreshStates
    <3> QED
      BY <2>2, <3>2, <3>3, <3>4
  <2> QED
    BY <1>3, <2>1, <2>2
<1>5. mainQueue' \in Seq(MainBlocks)
  <2>1. [does |-> "update"] \in MainBlocks
    BY DEF MainBlocks
  <2>2. mainQueue \in Seq(MainBlocks) /\ mainQueue' \in {mainQueue, Append(mainQueue, [does |-> "update"])}
    BY DEF Lifecycle, applicationDidEnterBackground, PauseTimer, applicationWillEnterForeground, ResumeTimer,
       PowerInv, Shape
  <2> QED
    BY <2>1, <2>2
<1>6. app' \in {"front", "back"}
  BY DEF Lifecycle, applicationDidEnterBackground, PauseTimer, applicationWillEnterForeground, ResumeTimer,
     PowerInv, Shape
<1>7. Shape'
  BY <1>1, <1>2, <1>5, <1>6, <1>4 DEF PowerInv, Shape, monitorVars
<1>8. Lifted' /\ Counted'
  <2>1. Lifted'
    BY <1>3, <1>4 DEF PowerInv, Lifted, Away
  <2>2. Counted'
    <3>1. refresh.generation \in Int
      BY <1>3 DEF RefreshStates
    <3> QED
      BY <1>3, <1>4, <3>1 DEF PowerInv, Lifted, Counted
  <2> QED
    BY <2>1, <2>2
<1>9. Silent'
  BY DEF Lifecycle, applicationDidEnterBackground, PauseTimer, applicationWillEnterForeground, ResumeTimer,
     PowerInv, Silent, Quiet, monitorVars
<1>10. SpinnerBacked'
  BY DEF Lifecycle, applicationDidEnterBackground, PauseTimer, applicationWillEnterForeground, ResumeTimer,
     BackgroundRefresh, PowerInv, Shape, RefreshStates, SpinnerBacked
<1> QED
  BY <1>2, <1>7, <1>8, <1>9, <1>10 DEF PowerInv

-----------------------------------------------------------------------------
(* The theorems.                                                           *)

\* The invariant holds at first.
LEMMA PowerInit == Init => PowerInv
<1> SUFFICES ASSUME Init PROVE PowerInv
  OBVIOUS
<1>1. monitor \in MonitorStates
  <2>1. monitor = [NoMonitor EXCEPT !.generation = 0]
    BY DEF Init, MonitorInit, NoMonitor
  <2>2. 0 \in Int
    OBVIOUS
  <2> QED
    BY <2>1, <2>2, FreshMonitor, Zenon
<1>2. powerQueue \in Seq(PowerBlocks) /\ Orders(powerQueue, main)
  <2>1. [does |-> "subscribe"] \in PowerBlocks
    BY DEF PowerBlocks, Control
  <2> QED
    BY <2>1 DEF Init, MonitorInit, Orders, Waiting, Awaited
<1>3. refresh \in RefreshStates
  <2>1. FALSE \in BOOLEAN /\ 0 \in Int /\ {} \in SUBSET Works
    OBVIOUS
  <2> QED
    BY <2>1, Zenon DEF Init, RefreshStates
<1>4. Shape
  BY <1>1, <1>2, <1>3 DEF Init, MonitorInit, Shape, Places, Waiting
<1>5. Lifted /\ Counted /\ Silent /\ SpinnerBacked
  BY DEF Init, MonitorInit, Lifted, Counted, Silent, Quiet, SpinnerBacked, Away
<1> QED
  BY <1>2, <1>4, <1>5 DEF PowerInv

\* And every step keeps it.
LEMMA PowerStep == PowerInv /\ [Next]_vars => PowerInv'
<1> SUFFICES ASSUME PowerInv, [Next]_vars PROVE PowerInv'
  OBVIOUS
<1>1. CASE UNCHANGED vars
  <2>1. UNCHANGED <<monitor, announced, mail, powerQueue, power, main, app, refresh, finger, mainQueue,
                    session>>
    BY <1>1 DEF vars, monitorVars, screen
  <2>2. Shape' /\ Orders(powerQueue', main')
    BY <2>1 DEF PowerInv, Shape
  <2>3. Lifted' /\ Counted' /\ Silent' /\ SpinnerBacked'
    BY <2>1 DEF PowerInv, Lifted, Counted, Silent, Quiet, SpinnerBacked
  <2> QED
    BY <2>2, <2>3 DEF PowerInv
<1>2. CASE Next
  BY <1>2, PowerQueueKeeps, KernelKeeps, CallbackKeeps, EventsKeep, LifecycleKeeps, CallsKeep, UserKeeps
     DEF Next
<1> QED
  BY <1>1, <1>2

\* The parts of the invariant hold throughout, for any power sources, refresh intervals and bounds.
THEOREM PowerInvariance == Spec => []PowerInv
BY PowerInit, PowerStep, PTL DEF Spec

\* The spinner of the battery page never turns without a refresh that runs or one that the end of
\* a scroll starts (updateTableView, scrollViewDidEndDragging:willDecelerate:).
THEOREM SpinnerBackedHolds == Spec => []SpinnerBacked
<1>1. PowerInv => SpinnerBacked
  BY DEF PowerInv
<1> QED
  BY <1>1, PowerInvariance, PTL

\* A refresh that was under way when the app went to the background is not shown after it has come
\* back, however often it goes and comes (the generations of the refresh).
THEOREM ShownFreshHolds == Spec => ShownFresh
<1> DEFINE A == shown' # shown => shown' = session
<1>1. ASSUME PowerInv, [Next]_vars PROVE [A]_vars
  <2>1. CASE RunFinished
    <3> DEFINE block == Head(mainQueue)
    <3>1. /\ mainQueue \in Seq(MainBlocks) /\ mainQueue # <<>> /\ block.does = "finished"
          /\ shown' \in {shown, block.begun}
          /\ shown' # shown => ~Stale(block)
      BY <1>1, <2>1 DEF RunFinished, MainRuns, PowerInv, Shape
    <3>2. block \in Finishes
      <4>1. block \in MainBlocks
        BY <3>1
      <4> HIDE DEF block
      <4> QED
        BY <3>1, <4>1 DEF MainBlocks
    <3>3. ~Stale(block) => block.generation = refresh.generation /\ ~refresh.suspended
      BY DEF Stale, CanScheduleRefresh
    <3>4. shown' # shown => block.begun = session
      BY <1>1, <3>1, <3>2, <3>3 DEF Finishes, PowerInv, Counted, Shape
    <3> QED
      BY <3>1, <3>4
  <2>2. CASE UNCHANGED shown
    BY <2>2
  <2>3. Next => RunFinished \/ UNCHANGED shown
    BY DEF Next, screen, BSVCBatteryStatusCallback, RunStatus, RunUpdate, RefreshDone, BSVCTimerFired,
       Lifecycle, applicationDidEnterBackground, PauseTimer, applicationWillEnterForeground, ResumeTimer,
       DidEnterBackground, WillEnterForeground, DaemonMain, Terminate, User, viewWillAppear, viewDidAppear,
       viewDidDisappear, SetPreference, Touch, Lift, Drag, Pull, EndDragging, EndDecelerating, Unmoved
  <2> QED
    BY <1>1, <2>1, <2>2, <2>3 DEF vars, screen
<1> QED
  BY <1>1, PowerInvariance, PTL DEF Spec, ShownFresh

\* Once suspendPowerEventMonitoring or cleanupPowerEventMonitoring has returned, no callback begins
\* until the monitor is resumed.
THEOREM QuietOnceSuspendedHolds == Spec => QuietOnceSuspended
<1> DEFINE A == Quiet => ~(power = "idle" /\ power' = "posting")
<1>1. ASSUME PowerInv, [Next]_vars PROVE [A]_vars
  <2>1. Next => powerInterestChanged \/ power' \in {power, "idle"}
    BY DEF Next, PowerQueue, subscribeToPowerEvents, suspendPowerEventMonitoring, resumePowerEventMonitoring,
       cleanupPowerEventMonitoring, stpe_cb, Kernel, Changed, Appears, Deliver, monitorVars, screen,
       BSVCBatteryStatusCallback, RunStatus, RunUpdate, RunFinished, MainRuns, RefreshDone, BSVCTimerFired,
       Lifecycle, applicationDidEnterBackground, PauseTimer, applicationWillEnterForeground, ResumeTimer,
       DidEnterBackground, WillEnterForeground, DaemonMain, Terminate, User, viewWillAppear, viewDidAppear,
       viewDidDisappear, SetPreference, Touch, Lift, Drag, Pull, EndDragging, EndDecelerating, Unmoved
  <2>2. powerInterestChanged /\ power' = "posting" => monitor.initialized /\ ~monitor.suspended
    BY DEF powerInterestChanged, pmncb
  <2>3. Quiet => ~monitor.initialized \/ monitor.suspended
    BY <1>1 DEF PowerInv, Silent
  <2> QED
    BY <1>1, <2>1, <2>2, <2>3 DEF vars, monitorVars
<1> QED
  BY <1>1, PowerInvariance, PTL DEF Spec, QuietOnceSuspended
=============================================================================
