----------------------------- MODULE PowerMonitor -----------------------------
(***************************************************************************)
(* The monitor of power events: one subscription to the power sources of   *)
(* the system, kept on a serial queue that every other thread enters with  *)
(* dispatch_sync and waits for.                                            *)
(*                                                                         *)
(* The kernel's messages wait in the notification port and become work of  *)
(* the queue while the port has one.  Work queued before the port loses    *)
(* its queue may still run after it.                                       *)
(***************************************************************************)
EXTENDS Integers, Sequences

CONSTANTS
  Sources,      \* the power sources the system may have
  MaxMessages   \* bound on the kernel's messages

ASSUME PowerAssumption == MaxMessages \in Nat

VARIABLES
  monitor,      \* powerMonitor; interests is the set of sources it is registered with
  announced,    \* the sources its iterator holds
  mail,         \* the messages in its port: <<source, generation>>
  powerQueue,   \* the blocks of the queue
  power,        \* "idle", or "posting" while the callback runs
  main,         \* where the main thread is
  messages      \* how many messages the kernel has sent

monitorVars == <<monitor, announced, mail, powerQueue, power, messages>>

NoMonitor == [initialized |-> FALSE, suspended |-> FALSE, attached |-> FALSE,
              callback |-> "none", interests |-> {}, generation |-> 0]

MonitorInit ==
  /\ monitor = NoMonitor
  /\ announced \in SUBSET Sources
  /\ mail = {}
  /\ powerQueue = <<[does |-> "subscribe"]>>
  /\ power = "idle"
  /\ main = "subscribing"
  /\ messages = 0

-----------------------------------------------------------------------------
(* The main thread in dispatch_sync.                                       *)

Waiting == {"subscribing", "resubscribing", "suspending", "resuming", "cleaning"}

\* A mutant: the block is left to the queue and nobody waits for it.
OnPowerQueueAsync(block, at, then) ==
  /\ powerQueue' = Append(powerQueue, [does |-> block])
  /\ main' = then

\* onPowerQueue from the main thread, which then waits at `at' until the block has run.
OnPowerQueue(block, at, then) ==
  /\ powerQueue' = Append(powerQueue, [does |-> block])
  /\ main' = at

\* Where the main thread goes on once its block has run.
After == [subscribing |-> "free", resubscribing |-> "daemon", suspending |-> "backRefresh",
          resuming |-> "foreRefresh", cleaning |-> "over"]

Return == main' = IF main \in Waiting THEN After[main] ELSE main

-----------------------------------------------------------------------------
(* The blocks.                                                             *)

Runs(block) ==
  /\ power = "idle"
  /\ powerQueue # <<>>
  /\ Head(powerQueue).does = block
  /\ powerQueue' = Tail(powerQueue)

\* stpe_cb drains the iterator: an interest in each new source, unless the registration fails.
\* A source whose registration failed has left the iterator and is not tried again.
Drain(m) ==
  /\ \E failed \in SUBSET (announced \ m.interests) :
       monitor' = [m EXCEPT !.interests = @ \cup (announced \ failed)]
  /\ announced' = {}

Cleaned == [NoMonitor EXCEPT !.generation = monitor.generation + 1]

\* The constructor subscribes pmncb; daemon_main replaces it by its own callback.
Callback == IF main = "subscribing" THEN "pmncb" ELSE "powerevent_listener"

Subscribed == [NoMonitor EXCEPT !.initialized = TRUE, !.attached = TRUE, !.callback = Callback,
                                !.generation = monitor.generation + 1]

\* A subscription there is only gets the new callback.  Creating the port may fail, and so may
\* the matching notification, which cleans up.
subscribeToPowerEvents ==
  /\ Runs("subscribe")
  /\ Return
  /\ IF monitor.initialized
     THEN monitor' = [monitor EXCEPT !.callback = Callback] /\ UNCHANGED announced
     ELSE \/ UNCHANGED <<monitor, announced>>
          \/ monitor' = [NoMonitor EXCEPT !.generation = monitor.generation + 2]
             /\ UNCHANGED announced
          \/ Drain(Subscribed)
  /\ UNCHANGED <<mail, power, messages>>

suspendPowerEventMonitoring ==
  /\ Runs("suspend")
  /\ Return
  /\ monitor' = IF ~monitor.initialized \/ monitor.suspended THEN monitor
                ELSE [monitor EXCEPT !.suspended = TRUE, !.attached = FALSE]
  /\ UNCHANGED <<announced, mail, power, messages>>

resumePowerEventMonitoring ==
  /\ Runs("resume")
  /\ Return
  /\ IF ~monitor.initialized \/ ~monitor.suspended
     THEN UNCHANGED <<monitor, announced>>
     ELSE Drain([monitor EXCEPT !.suspended = FALSE, !.attached = TRUE])
  /\ UNCHANGED <<mail, power, messages>>

cleanupPowerEventMonitoring ==
  /\ Runs("cleanup")
  /\ Return
  /\ monitor' = Cleaned
  /\ mail' = {}
  /\ UNCHANGED <<announced, power, messages>>

\* A source has matched.
stpe_cb ==
  /\ Runs("match")
  /\ IF monitor.initialized THEN Drain(monitor) ELSE UNCHANGED <<monitor, announced>>
  /\ UNCHANGED <<mail, power, main, messages>>

\* pmncb posts the event, unless the message is of another kind or the source is gone.
pmncb ==
  IF ~monitor.initialized \/ monitor.suspended THEN {"idle"} ELSE {"idle", "posting"}

\* A delivery of an older subscription, or one that runs after the monitor was suspended, goes
\* no further.  The daemon's own callback posts nothing.
powerInterestChanged ==
  /\ Runs("interest")
  /\ power' \in IF \/ ~monitor.initialized \/ monitor.suspended
                   \/ Head(powerQueue).generation # monitor.generation
                   \/ monitor.callback # "pmncb"
                THEN {"idle"} ELSE pmncb
  /\ UNCHANGED <<monitor, announced, mail, main, messages>>

-----------------------------------------------------------------------------
(* The kernel.                                                             *)

\* A source the monitor holds an interest in changes.
Changed(s) ==
  /\ monitor.initialized /\ s \in monitor.interests
  /\ messages < MaxMessages
  /\ messages' = messages + 1
  /\ mail' = mail \cup {<<s, monitor.generation>>}
  /\ UNCHANGED <<monitor, announced, powerQueue, power, main>>

\* A source appears, and is announced to a port that has a queue.
Appears(s) ==
  /\ s \notin announced /\ s \notin monitor.interests
  /\ messages < MaxMessages
  /\ messages' = messages + 1
  /\ announced' = announced \cup {s}
  /\ powerQueue' = IF monitor.attached THEN Append(powerQueue, [does |-> "match"]) ELSE powerQueue
  /\ UNCHANGED <<monitor, mail, power, main>>

\* A message becomes a block of the queue.
Deliver(m) ==
  /\ monitor.attached /\ m \in mail
  /\ mail' = mail \ {m}
  /\ powerQueue' = Append(powerQueue, [does |-> "interest", generation |-> m[2]])
  /\ UNCHANGED <<monitor, announced, power, main, messages>>

\* The steps that belong to the queue itself.
PowerQueue ==
  \/ subscribeToPowerEvents \/ suspendPowerEventMonitoring \/ resumePowerEventMonitoring
  \/ cleanupPowerEventMonitoring \/ stpe_cb \/ powerInterestChanged

Kernel ==
  \/ \E s \in Sources : Changed(s) \/ Appears(s)
  \/ \E m \in mail : Deliver(m)
=============================================================================
