---------------------------- MODULE ControlServer ----------------------------
(***************************************************************************)
(* The daemon's control socket: a listener, at most MaxClients threads     *)
(* that each serve one client, and the redirection of the daemon's output  *)
(* to a client that asks for its log.                                      *)
(*                                                                         *)
(* What commands 3 and 4 do to the charger is modelled by ChargeControl,   *)
(* and the files by DaemonRunFile.                                         *)
(***************************************************************************)
EXTENDS Naturals, FiniteSets

CONSTANTS
  Clients,     \* the connections made to the socket
  MaxClients,  \* BATTMAN_MAX_CONTROL_CLIENTS
  Backlog,     \* the backlog of listen(2)
  MaxSends,    \* bound on the commands a client sends
  Nobody       \* no client

ASSUME ServerAssumption ==
  /\ IsFiniteSet(Clients) /\ Nobody \notin Clients
  /\ MaxClients \in Nat \ {0} /\ Backlog \in Nat \ {0} /\ MaxSends \in Nat

VARIABLES
  peer,       \* a client: "away", "waiting" in the backlog, "open", "gone", or "shut" by the daemon
  thread,     \* its thread: "none", or where it is
  input,      \* the command it has sent and the daemon has not read, or 0
  sent,       \* how many it has sent
  listener,   \* the connection the listener is making a thread for, or Nobody
  daemon_client_count,
  stdio,      \* whose pipe descriptors 1 and 2 are, Nobody for /dev/null
  line,       \* the clients whose pipe holds output
  running

vars == <<peer, thread, input, sent, listener, daemon_client_count, stdio, line, running>>

Init ==
  /\ peer = [c \in Clients |-> "away"] /\ thread = [c \in Clients |-> "none"]
  /\ input = [c \in Clients |-> 0] /\ sent = [c \in Clients |-> 0]
  /\ listener = Nobody /\ daemon_client_count = 0
  /\ stdio = <<Nobody, Nobody>> /\ line = {}
  /\ running = TRUE

\* Command 4 and the unknown ones are, for the socket, like 2.
Commands == {2, 3, 5, 6}

\* The output's descriptors; a thread closes its own copy of its pipe's write end.
Writes(c) == \E i \in 1..2 : stdio[i] = c

-----------------------------------------------------------------------------
(* The listener.                                                           *)

Accept(c) ==
  /\ running /\ listener = Nobody /\ peer[c] = "waiting"
  /\ IF daemon_client_count < MaxClients
     THEN /\ listener' = c
          /\ daemon_client_count' = daemon_client_count + 1
          /\ peer' = [peer EXCEPT ![c] = "open"]
     ELSE /\ peer' = [peer EXCEPT ![c] = "shut"]
          /\ UNCHANGED <<listener, daemon_client_count>>
  /\ UNCHANGED <<thread, input, sent, stdio, line, running>>

\* A mutant: a thread that cannot be made only closes the connection.
CloseRefusedHeld(c) ==
  /\ peer' = [peer EXCEPT ![c] = IF @ = "open" THEN "shut" ELSE @]
  /\ UNCHANGED daemon_client_count

\* daemon_close_control_client for a connection that got no thread.
CloseRefused(c) ==
  /\ peer' = [peer EXCEPT ![c] = IF @ = "open" THEN "shut" ELSE @]
  /\ daemon_client_count' = daemon_client_count - 1

MakeThread ==
  /\ running /\ listener # Nobody
  /\ listener' = Nobody
  /\ \/ /\ thread' = [thread EXCEPT ![listener] = "read"]
        /\ UNCHANGED <<peer, daemon_client_count>>
     \/ CloseRefused(listener) /\ UNCHANGED thread
  /\ UNCHANGED <<input, sent, stdio, line, running>>

-----------------------------------------------------------------------------
(* A client's thread.                                                      *)

At(c, pc) == running /\ thread[c] = pc
Goto(c, pc) == thread' = [thread EXCEPT ![c] = pc]

\* daemon_close_control_client; the thread goes on at `then'.
CloseClient(c, then) ==
  /\ Goto(c, then)
  /\ peer' = [peer EXCEPT ![c] = IF @ = "open" THEN "shut" ELSE @]
  /\ daemon_client_count' = daemon_client_count - 1
  /\ UNCHANGED <<input, sent, listener, stdio, line, running>>

\* Command 2 leaves the thread where it is; 3 ends the daemon once both keys
\* are written, and goes on otherwise; 5 ends the thread; 6 asks for the log.
ReadCommand(c) ==
  /\ At(c, "read") /\ input[c] # 0
  /\ \/ /\ input[c] \in {2, 3}
        /\ UNCHANGED <<thread, peer, daemon_client_count, running>>
     \/ /\ input[c] = 3
        /\ running' = FALSE
        /\ Goto(c, "none")
        /\ peer' = [d \in Clients |-> IF peer[d] \in {"open", "waiting"} THEN "shut" ELSE peer[d]]
        /\ daemon_client_count' = daemon_client_count - 1
     \/ /\ input[c] = 5
        /\ Goto(c, "none")
        /\ peer' = [peer EXCEPT ![c] = IF @ = "open" THEN "shut" ELSE @]
        /\ daemon_client_count' = daemon_client_count - 1
        /\ UNCHANGED running
     \/ /\ input[c] = 6
        /\ Goto(c, "hello")
        /\ UNCHANGED <<peer, daemon_client_count, running>>
  /\ input' = [input EXCEPT ![c] = 0]
  /\ UNCHANGED <<sent, listener, stdio, line>>

\* A mutant: a client that is silent is waited for.
ReadFailsOnlyAtEnd(c) ==
  /\ At(c, "read") /\ input[c] = 0 /\ peer[c] = "gone"
  /\ CloseClient(c, "none")

\* The client has gone, or has been silent for the two seconds of SO_RCVTIMEO.
ReadFails(c) ==
  /\ At(c, "read") /\ input[c] = 0
  /\ CloseClient(c, "none")

\* The greeting cannot be written to a client that has gone or does not read.
Greet(c) ==
  /\ At(c, "hello")
  /\ \/ /\ peer[c] = "open" /\ Goto(c, "log1")
        /\ UNCHANGED <<peer, input, sent, listener, daemon_client_count, stdio, line, running>>
     \/ CloseClient(c, "none")

\* The pipe takes the place of descriptor 1, then of descriptor 2.
Redirect(c) ==
  /\ \/ At(c, "log1") /\ stdio' = [stdio EXCEPT ![1] = c] /\ Goto(c, "log2")
     \/ At(c, "log2") /\ stdio' = [stdio EXCEPT ![2] = c] /\ Goto(c, "log")
  /\ UNCHANGED <<peer, input, sent, listener, daemon_client_count, line, running>>

\* A line of output goes to the client, or the write fails.
Forward(c) ==
  /\ At(c, "log") /\ c \in line
  /\ \/ /\ peer[c] = "open" /\ line' = line \ {c}
        /\ UNCHANGED <<peer, thread, input, sent, listener, daemon_client_count, stdio, running>>
     \/ CloseClient(c, "end1")

\* A mutant: the thread keeps its own copy of the write end.
LogEndsOwned(c) ==
  /\ At(c, "log") /\ c \notin line /\ ~Writes(c) /\ peer[c] = "gone"
  /\ CloseClient(c, "end1")

\* Nothing writes to the pipe any more.
LogEnds(c) ==
  /\ At(c, "log") /\ c \notin line /\ ~Writes(c)
  /\ CloseClient(c, "end1")

\* The output goes to /dev/null, whoever it went to.
Restore(c) ==
  /\ \/ At(c, "end1") /\ stdio' = [stdio EXCEPT ![1] = Nobody] /\ Goto(c, "end2")
     \/ At(c, "end2") /\ stdio' = [stdio EXCEPT ![2] = Nobody] /\ Goto(c, "none")
  /\ UNCHANGED <<peer, input, sent, listener, daemon_client_count, line, running>>

Thread(c) ==
  \/ ReadCommand(c) \/ ReadFails(c) \/ Greet(c) \/ Redirect(c) \/ Forward(c) \/ LogEnds(c)
  \/ Restore(c)

-----------------------------------------------------------------------------
(* The clients, and the daemon's output.                                   *)

Connect(c) ==
  /\ running /\ peer[c] = "away"
  /\ Cardinality({d \in Clients : peer[d] = "waiting"}) < Backlog
  /\ peer' = [peer EXCEPT ![c] = "waiting"]
  /\ UNCHANGED <<thread, input, sent, listener, daemon_client_count, stdio, line, running>>

Send(c) ==
  /\ running /\ peer[c] = "open" /\ input[c] = 0
  /\ sent[c] < MaxSends
  /\ sent' = [sent EXCEPT ![c] = @ + 1]
  /\ \E command \in Commands : input' = [input EXCEPT ![c] = command]
  /\ UNCHANGED <<peer, thread, listener, daemon_client_count, stdio, line, running>>

Leave(c) ==
  /\ peer[c] = "open"
  /\ peer' = [peer EXCEPT ![c] = "gone"]
  /\ UNCHANGED <<thread, input, sent, listener, daemon_client_count, stdio, line, running>>

Output ==
  /\ running
  /\ \E i \in 1..2 : stdio[i] # Nobody /\ line' = line \cup {stdio[i]}
  /\ line' # line
  /\ UNCHANGED <<peer, thread, input, sent, listener, daemon_client_count, stdio, running>>

Next ==
  \/ \E c \in Clients : Accept(c) \/ Thread(c) \/ Connect(c) \/ Send(c) \/ Leave(c)
  \/ MakeThread \/ Output

\* The daemon's threads run, and the time limit of a silent client passes.
Fairness ==
  /\ WF_vars(MakeThread)
  /\ \A c \in Clients : WF_vars(Thread(c))

Spec == Init /\ [][Next]_vars /\ Fairness

-----------------------------------------------------------------------------
(* Properties.                                                             *)

Serving == {"read", "hello", "log1", "log2", "log"}

\* The clients counted are those with a thread, and the one the listener is making a thread
\* for: no way out of a thread keeps its place or gives it back twice.
SlotsTrue ==
  /\ daemon_client_count =
       Cardinality({c \in Clients : thread[c] \in Serving \/ listener = c})
  /\ daemon_client_count <= MaxClients

\* A client that connects and says nothing does not keep its place.
IdleEnds ==
  \A c \in Clients : (running /\ thread[c] = "read") ~>
                       (~running \/ thread[c] # "read" \/ input[c] # 0)

\* A thread whose redirection another client has taken over ends, and gives its place back.
LogReturns ==
  \A c \in Clients : (running /\ thread[c] = "log" /\ ~Writes(c)) ~>
                       (~running \/ thread[c] # "log")
=============================================================================
