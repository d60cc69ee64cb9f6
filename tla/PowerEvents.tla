------------------------------ MODULE PowerEvents ------------------------------
(***************************************************************************)
(* The first screen, kept up to date by power events or by a timer while   *)
(* the app goes to the background and comes back.                          *)
(*                                                                         *)
(* The monitor's callback posts on its queue; the screen's observer hands  *)
(* the event to the main thread, which asks for a refresh; the refresh is  *)
(* made on a queue of its own and shown by the main thread.                *)
(*                                                                         *)
(* External: UIKit.  applicationState is background until the observers of *)
(* willEnterForeground have run; a finger that lifts without having moved  *)
(* ends no drag and calls no delegate; a drag has ended before the screen  *)
(* or the app goes away.                                                   *)
(***************************************************************************)
EXTENDS PowerMonitor

CONSTANTS
  Intervals,       \* the refresh intervals: 0 is automatic, -1 never
  MaxBackgrounds,  \* bound on the times the app leaves the foreground
  MaxScrolls       \* bound on touches of the table

ASSUME EventsAssumption ==
  Intervals \subseteq Int /\ MaxBackgrounds \in Nat /\ MaxScrolls \in Nat

VARIABLES
  app,        \* applicationState: "front" or "back"
  view,       \* "gone", "appearing" or "visible"
  paused,     \* gNotificationsPaused
  pref,       \* the refresh interval preferred
  ctx,        \* BSVCTimerContext: the interval in use and its timer, "none", "valid" or "dead"
  refresh,    \* the screen's refresh state; queued is the work of _refreshQueue
  finger,     \* "none", "touch" (tracking), "drag" or "glide" (decelerating)
  mainQueue,  \* the blocks of the main queue
  scrolls,
  \* History, for the properties:
  session,    \* which stay in the foreground this is
  shown       \* the stay in which the refresh on the screen was begun

screen == <<app, view, paused, pref, ctx, refresh, finger, mainQueue, scrolls, session, shown>>
vars == <<monitorVars, main, screen>>

-----------------------------------------------------------------------------
Init ==
  /\ MonitorInit
  /\ app = "front" /\ view = "gone" /\ paused = FALSE
  /\ pref \in Intervals
  /\ ctx = [interval |-> 0, timer |-> "none"]
  /\ refresh = [inFlight |-> FALSE, pending |-> FALSE, suspended |-> FALSE, generation |-> 0,
                flight |-> 0, spinning |-> FALSE, queued |-> {}]
  /\ finger = "none" /\ mainQueue = <<>> /\ scrolls = 0
  /\ session = 1 /\ shown = 1

Dragging == finger # "none"                     \* dragging, decelerating or tracking
IsAuto == ctx.interval = 0                      \* isAutoMode; -1 is isNeverMode

-----------------------------------------------------------------------------
(* The refresh machine of the screen.                                      *)

CanScheduleRefresh(r) == ~r.suspended /\ app # "back"

\* A refresh that cannot be scheduled is dropped; one asked for while one of an older
\* generation runs is kept; one asked for while a current one runs is dropped.
StartQueuedRefresh(r) ==
  IF ~CanScheduleRefresh(r) THEN [r EXCEPT !.pending = FALSE, !.spinning = FALSE]
  ELSE IF r.inFlight THEN [r EXCEPT !.pending = @ \/ r.flight # r.generation]
  ELSE [r EXCEPT !.spinning = TRUE, !.inFlight = TRUE, !.flight = r.generation,
                 !.queued = {[generation |-> r.generation, begun |-> session]}]

UpdateTableView(r) ==
  IF ~CanScheduleRefresh(r) THEN [r EXCEPT !.pending = FALSE, !.spinning = FALSE]
  ELSE IF Dragging THEN [r EXCEPT !.pending = TRUE]
  ELSE StartQueuedRefresh(r)

\* A mutant: the refresh is shown whatever has happened since it was begun.
StaleNever(block) == ~CanScheduleRefresh(refresh)

\* A finished refresh that is not to be shown.
Stale(block) == block.generation # refresh.generation \/ ~CanScheduleRefresh(refresh)

\* What the main thread makes of it: a stale one is started again if one was asked for and
\* nobody is scrolling; after a current one the pending request is served.
Finished(block) ==
  LET r == [refresh EXCEPT !.inFlight = FALSE, !.spinning = FALSE]
  IN IF Stale(block)
     THEN IF r.pending /\ CanScheduleRefresh(r) /\ ~Dragging
          THEN StartQueuedRefresh([r EXCEPT !.pending = FALSE])
          ELSE [r EXCEPT !.pending = FALSE]
     ELSE IF r.pending /\ ~Dragging
          THEN StartQueuedRefresh([r EXCEPT !.pending = FALSE])
          ELSE r

\* A scroll has ended.
ServePending(r) ==
  IF r.pending /\ ~r.inFlight THEN StartQueuedRefresh([r EXCEPT !.pending = FALSE]) ELSE r

\* battery_info_update has run on the refresh queue.
RefreshDone ==
  \E work \in refresh.queued :
    /\ refresh' = [refresh EXCEPT !.queued = {}]
    /\ mainQueue' = Append(mainQueue, [does |-> "finished", generation |-> work.generation,
                                       begun |-> work.begun])
    /\ UNCHANGED <<monitorVars, main, app, view, paused, pref, ctx, finger, scrolls, session, shown>>

-----------------------------------------------------------------------------
(* The timer of the screen.                                                *)

\* BSVCUpdateRefreshMode; both of its callers have dropped the cached preference before.
UpdateRefreshMode ==
  ctx' = IF ctx.interval = pref THEN ctx
         ELSE [interval |-> pref,
               timer |-> IF pref > 0 THEN "valid"
                         ELSE IF ctx.timer = "valid" THEN "none" ELSE ctx.timer]

BSVCTimerFired ==
  /\ main = "free" /\ ctx.timer = "valid"
  /\ refresh' = IF ctx.interval > 0 THEN UpdateTableView(refresh) ELSE refresh
  /\ refresh' # refresh                  \* a tick that changes nothing is a stuttering step
  /\ UNCHANGED <<monitorVars, main, app, view, paused, pref, ctx, finger, mainQueue, scrolls,
                 session, shown>>

-----------------------------------------------------------------------------
(* Power events on their way to the screen.                                *)

\* A mutant: the observer waits until the main thread has taken the event.
BSVCBatteryStatusCallbackSync ==
  /\ power = "posting" /\ power' = "idle"
  /\ main \notin Waiting
  /\ mainQueue' = IF view # "visible" \/ paused THEN mainQueue
                  ELSE Append(mainQueue, [does |-> "status"])
  /\ UNCHANGED <<monitor, announced, mail, powerQueue, messages, main, app, view, paused, pref,
                 ctx, refresh, finger, scrolls, session, shown>>

\* pmncb posts on the power queue; the observer is there while the screen is visible, drops
\* the event while paused or out of memory, and never waits for the main thread.
BSVCBatteryStatusCallback ==
  /\ power = "posting" /\ power' = "idle"
  /\ mainQueue' \in IF view # "visible" \/ paused THEN {mainQueue}
                    ELSE {mainQueue, Append(mainQueue, [does |-> "status"])}
  /\ UNCHANGED <<monitor, announced, mail, powerQueue, messages, main, app, view, paused, pref,
                 ctx, refresh, finger, scrolls, session, shown>>

\* The main thread's blocks.
MainRuns(block) ==
  /\ main = "free"
  /\ mainQueue # <<>> /\ Head(mainQueue).does = block
  /\ mainQueue' = Tail(mainQueue)
  /\ UNCHANGED <<monitorVars, main, app, view, paused, pref, ctx, finger, scrolls, session>>

\* batteryStatusDidUpdate: with the event; the preference itself is read again.
RunStatus ==
  /\ MainRuns("status")
  /\ refresh' = IF IsAuto /\ pref = 0 THEN UpdateTableView(refresh) ELSE refresh
  /\ UNCHANGED shown

\* batteryStatusDidUpdate from the foreground.
RunUpdate ==
  /\ MainRuns("update")
  /\ refresh' = IF IsAuto THEN UpdateTableView(refresh) ELSE refresh
  /\ UNCHANGED shown

RunFinished ==
  /\ MainRuns("finished")
  /\ refresh' = Finished(Head(mainQueue))
  /\ shown' = IF ~Stale(Head(mainQueue)) /\ view = "visible" THEN Head(mainQueue).begun ELSE shown

-----------------------------------------------------------------------------
(* Going to the background: the observers run on the main thread in the    *)
(* order they were added.                                                  *)

DidEnterBackground ==
  /\ main = "free" /\ app = "front" /\ finger = "none"
  /\ session <= MaxBackgrounds
  /\ app' = "back"
  /\ OnPowerQueue("suspend", "suspending", "backRefresh")
  /\ UNCHANGED <<monitor, announced, mail, power, messages, view, paused, pref, ctx, refresh,
                 finger, mainQueue, scrolls, session, shown>>

BackgroundRefresh ==
  refresh' = [refresh EXCEPT !.suspended = TRUE, !.pending = FALSE, !.generation = @ + 1,
                             !.spinning = @ /\ refresh.inFlight]

applicationDidEnterBackground ==
  /\ main = "backRefresh" /\ main' = "backTimer"
  /\ BackgroundRefresh
  /\ UNCHANGED <<monitorVars, app, view, paused, pref, ctx, finger, mainQueue, scrolls, session,
                 shown>>

\* BSVCAppLifecycleCallback, registered while the screen is visible: the timer is stopped and
\* stays in the context.
PauseTimer ==
  /\ main = "backTimer" /\ main' = "free"
  /\ IF view = "visible"
     THEN /\ paused' = TRUE
          /\ ctx' = [ctx EXCEPT !.timer = IF @ = "valid" THEN "dead" ELSE @]
     ELSE UNCHANGED <<paused, ctx>>
  /\ UNCHANGED <<monitorVars, app, view, pref, refresh, finger, mainQueue, scrolls, session, shown>>

WillEnterForeground ==
  /\ main = "free" /\ app = "back"
  /\ OnPowerQueue("resume", "resuming", "foreRefresh")
  /\ UNCHANGED <<monitor, announced, mail, power, messages, screen>>

applicationWillEnterForeground ==
  /\ main = "foreRefresh" /\ main' = "foreTimer"
  /\ refresh' = [refresh EXCEPT !.suspended = FALSE, !.generation = @ + 1]
  /\ session' = session + 1
  /\ UNCHANGED <<monitorVars, app, view, paused, pref, ctx, finger, mainQueue, scrolls, shown>>

ResumeTimer ==
  /\ main = "foreTimer" /\ main' = "free"
  /\ app' = "front"
  /\ IF view = "visible"
     THEN /\ paused' = FALSE
          /\ UpdateRefreshMode
          /\ mainQueue' = Append(mainQueue, [does |-> "update"])
     ELSE UNCHANGED <<paused, ctx, mainQueue>>
  /\ UNCHANGED <<monitorVars, view, pref, refresh, finger, scrolls, session, shown>>

\* The same program run as the daemon takes the subscription over and shows no screen.
DaemonMain ==
  /\ main = "free" /\ view = "gone" /\ scrolls = 0 /\ session = 1 /\ app = "front"
  /\ OnPowerQueue("subscribe", "resubscribing", "daemon")
  /\ UNCHANGED <<monitor, announced, mail, power, messages, screen>>

\* The process ends: stoppmn.
Terminate ==
  /\ main \in {"free", "daemon"} /\ app = "front"
  /\ OnPowerQueue("cleanup", "cleaning", "over")
  /\ UNCHANGED <<monitor, announced, mail, power, messages, screen>>

-----------------------------------------------------------------------------
(* The user.                                                               *)

AtScreen == main = "free" /\ app = "front"

viewWillAppear ==
  /\ AtScreen /\ view = "gone" /\ view' = "appearing"
  /\ UpdateRefreshMode
  /\ UNCHANGED <<monitorVars, main, app, paused, pref, refresh, finger, mainQueue, scrolls, session,
                 shown>>

\* The context was made by viewWillAppear, so nothing else is set up here.
viewDidAppear ==
  /\ AtScreen /\ view = "appearing" /\ view' = "visible"
  /\ UNCHANGED <<monitorVars, main, app, paused, pref, ctx, refresh, finger, mainQueue, scrolls,
                 session, shown>>

viewDidDisappear ==
  /\ AtScreen /\ finger = "none" /\ view = "visible" /\ view' = "gone"
  /\ scrolls < MaxScrolls /\ scrolls' = scrolls + 1
  /\ ctx' = [ctx EXCEPT !.timer = "none"]
  /\ UNCHANGED <<monitorVars, main, app, paused, pref, refresh, finger, mainQueue, session, shown>>

\* The preference is set on another screen.
SetPreference ==
  /\ AtScreen /\ view = "gone"
  /\ pref' \in Intervals \ {pref}
  /\ UNCHANGED <<monitorVars, main, app, view, paused, ctx, refresh, finger, mainQueue, scrolls,
                 session, shown>>

Scroll(from, to) == AtScreen /\ view = "visible" /\ finger = from /\ finger' = to

Unmoved == UNCHANGED <<monitorVars, main, app, view, paused, pref, ctx, mainQueue, session, shown>>

Touch ==
  /\ scrolls < MaxScrolls /\ scrolls' = scrolls + 1
  /\ Scroll("none", "touch")
  /\ UNCHANGED refresh /\ Unmoved

Lift == Scroll("touch", "none") /\ UNCHANGED <<refresh, scrolls>> /\ Unmoved

Drag == Scroll("touch", "drag") /\ UNCHANGED <<refresh, scrolls>> /\ Unmoved

\* Pulling the table down far enough starts the spinner and asks for a refresh.
Pull ==
  /\ Scroll("drag", "drag") /\ ~refresh.spinning
  /\ refresh' = UpdateTableView([refresh EXCEPT !.spinning = TRUE])
  /\ UNCHANGED scrolls /\ Unmoved

\* A mutant: only a scroll that glides on serves the request.
EndDraggingUnserved ==
  /\ Scroll("drag", "glide") \/ Scroll("drag", "none")
  /\ UNCHANGED <<refresh, scrolls>> /\ Unmoved

\* scrollViewDidEndDragging:willDecelerate: and scrollViewDidEndDecelerating:.
EndDragging ==
  /\ \/ Scroll("drag", "glide") /\ UNCHANGED refresh
     \/ Scroll("drag", "none") /\ refresh' = ServePending(refresh)
  /\ UNCHANGED scrolls /\ Unmoved

EndDecelerating ==
  /\ Scroll("glide", "none") /\ refresh' = ServePending(refresh)
  /\ UNCHANGED scrolls /\ Unmoved

-----------------------------------------------------------------------------
User ==
  \/ viewWillAppear \/ viewDidAppear \/ viewDidDisappear \/ SetPreference
  \/ Touch \/ Lift \/ Drag \/ Pull \/ EndDragging \/ EndDecelerating

Lifecycle ==
  \/ applicationDidEnterBackground \/ PauseTimer \/ applicationWillEnterForeground \/ ResumeTimer

Next ==
  \/ PowerQueue /\ UNCHANGED screen
  \/ Kernel /\ UNCHANGED screen
  \/ BSVCBatteryStatusCallback
  \/ RunStatus \/ RunUpdate \/ RunFinished
  \/ RefreshDone \/ BSVCTimerFired
  \/ Lifecycle \/ DidEnterBackground \/ WillEnterForeground
  \/ DaemonMain \/ Terminate
  \/ User

\* A serial queue runs its blocks, and code once called goes on; events need not come.
Fairness ==
  /\ WF_vars(PowerQueue /\ UNCHANGED screen)
  /\ WF_vars(BSVCBatteryStatusCallback)
  /\ WF_vars(Lifecycle)
  /\ WF_vars(RefreshDone)
  /\ WF_vars(RunStatus \/ RunUpdate \/ RunFinished)

Spec == Init /\ [][Next]_vars /\ Fairness

-----------------------------------------------------------------------------
(* Properties.                                                             *)

Generations == 0 .. 2 * (MaxBackgrounds + 1)

\* Every variable has a value of its type.
TypeOK ==
  /\ monitor.interests \subseteq Sources /\ announced \subseteq Sources
  /\ monitor.generation \in 0..5
  /\ power \in {"idle", "posting"}
  /\ main \in Waiting \cup {"free", "backRefresh", "backTimer", "foreRefresh", "foreTimer", "daemon",
                           "over"}
  /\ app \in {"front", "back"} /\ view \in {"gone", "appearing", "visible"}
  /\ pref \in Intervals /\ paused \in BOOLEAN
  /\ ctx \in [interval : Intervals \cup {0}, timer : {"none", "valid", "dead"}]
  /\ refresh \in [inFlight : BOOLEAN, pending : BOOLEAN, suspended : BOOLEAN, spinning : BOOLEAN,
                  generation : Generations, flight : Generations,
                  queued : SUBSET [generation : Generations, begun : 1..(MaxBackgrounds + 1)]]
  /\ finger \in {"none", "touch", "drag", "glide"}
  /\ session \in 1..(MaxBackgrounds + 1) /\ shown \in 1..session

\* A thread that has entered the power queue comes back: the callbacks of that queue never
\* wait for the main thread, which may be waiting for them while it suspends the monitor.
MainReturns == (main \in Waiting) ~> (main \notin Waiting)

\* Once suspending or ending the monitor has returned, no callback begins until it is resumed:
\* what was queued earlier has been drained and what is delivered late is refused.
Quiet == main \in {"backRefresh", "backTimer", "over"} \/ (main = "free" /\ app = "back")
QuietOnceSuspended == [][Quiet => ~(power = "idle" /\ power' = "posting")]_vars

\* What the screen shows anew was read during this stay in the foreground, not by a refresh
\* that was under way when the app went to the background.
ShownFresh == [][shown' # shown => shown' = session]_vars

\* The spinner never turns for nothing: a refresh runs, or one is waiting for the scroll to end.
SpinnerBacked ==
  refresh.spinning => refresh.inFlight \/ (refresh.pending /\ finger \in {"drag", "glide"})

\* The app coming to the foreground starts the timer of a visible screen again, as
\* "Resume timer and update refresh mode when coming to foreground" says.
TimerResumes ==
  [][main = "foreTimer" /\ main' = "free" /\ view = "visible" /\ ctx'.interval > 0
     => ctx'.timer = "valid"]_vars
=============================================================================
