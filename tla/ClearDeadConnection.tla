------------------------- MODULE ClearDeadConnection -------------------------
(***************************************************************************)
(* The server of src/linux_server/11-2_clear_dead_connection.cc: one loop  *)
(* that accepts, reads once per edge-triggered event, and closes clients   *)
(* that have been silent for three alarm periods, with the timers of       *)
(* SortTimerList. Signals reach the loop through a socket pair.            *)
(*                                                                         *)
(* Time is counted in periods of TIMESLOT and relative to now, so that the *)
(* server can run for ever: an expiry is how many periods are left.        *)
(***************************************************************************)
EXTENDS SortTimerList

CONSTANTS
    Fds,        \* descriptors of connections; accept returns the lowest free one
    Lifetime,   \* periods a client may be silent, 3 in the code
    MaxUnread,  \* bound: 63-byte pieces of data waiting in one socket
    MaxLate     \* bound: periods the loop may be late with an expired timer

ASSUME FdsAssumption == Fds \subseteq Nat \ {0} /\ IsFiniteSet(Fds)
ASSUME LifetimeAssumption == Lifetime \in Nat \ {0}
ASSUME BoundsAssumption == MaxUnread \in Nat \ {0} /\ MaxLate \in Nat

Listen == 0     \* listenfd
Pipe == -1      \* pipefd[0]

VARIABLES
    list,       \* timer_lst
    allocated,  \* the nodes new has returned and delete has not taken
    timer,      \* users[fd].timer, which nobody resets
    open,       \* descriptors that are open
    backlog,    \* clients waiting in the listen queue
    unread,     \* bytes waiting in each connection
    hung,       \* connections whose client has closed its end
    edge,       \* what epoll has an event for
    pipe,       \* signals in pipefd
    alarm,      \* whether alarm is running; it goes off with the next period
    pc,         \* "wait" in epoll_wait, "batch" in the for loop, "stopped"
    batch,      \* the events not handled yet
    timeout,    \* the flag timeout
    stopServer, \* the flag stop_server
    silent      \* periods since each connection was last accepted or read from

clientVars == <<backlog, unread, hung>>
timerVars == <<list, allocated, timer>>
signalVars == <<pipe, alarm, timeout, stopServer>>
vars == <<timerVars, open, clientVars, edge, signalVars, pc, batch, silent>>

TypeOK ==
    /\ list \in [head : Timers \cup {None}, tail : Timers \cup {None},
                 prev : [Timers -> Timers \cup {None}], next : [Timers -> Timers \cup {None}],
                 expire : [Timers -> -MaxLate..Lifetime]]
    /\ allocated \subseteq Timers
    /\ timer \in [Fds -> Timers \cup {None}]
    /\ open \subseteq Fds /\ hung \subseteq open
    /\ backlog \in 0..Cardinality(Fds)
    /\ unread \in [Fds -> 0..MaxUnread]
    /\ edge \subseteq Fds \cup {Listen, Pipe} /\ batch \subseteq Fds \cup {Listen, Pipe}
    /\ pipe \subseteq {"ALRM", "TERM"}
    /\ alarm \in BOOLEAN /\ timeout \in BOOLEAN /\ stopServer \in BOOLEAN
    /\ pc \in {"wait", "batch", "stopped"}
    /\ silent \in [Fds -> 0..(Lifetime + MaxLate)]

Init ==
    /\ list = EmptyList /\ allocated = {} /\ timer = [fd \in Fds |-> None]
    /\ open = {} /\ backlog = 0
    /\ unread = [fd \in Fds |-> 0] /\ hung = {} /\ edge = {}
    /\ pipe = {} /\ alarm = TRUE
    /\ pc = "wait" /\ batch = {} /\ timeout = FALSE /\ stopServer = FALSE
    /\ silent = [fd \in Fds |-> 0]

----------------------------------------------------------------------------
(* Clients, signals and time                                               *)

\* There are descriptors for all clients that come.
Connect ==
    /\ pc # "stopped"
    /\ backlog + Cardinality(open) < Cardinality(Fds)
    /\ backlog' = backlog + 1
    /\ edge' = edge \cup {Listen}
    /\ UNCHANGED <<timerVars, open, unread, hung, signalVars, pc, batch, silent>>

ClientSends(fd) ==
    /\ fd \in open \ hung
    /\ \E n \in unread[fd]..MaxUnread \ {0} : unread' = [unread EXCEPT ![fd] = n]
    /\ edge' = edge \cup {fd}
    /\ UNCHANGED <<timerVars, open, backlog, hung, signalVars, pc, batch, silent>>

ClientCloses(fd) ==
    /\ fd \in open \ hung
    /\ hung' = hung \cup {fd}
    /\ edge' = edge \cup {fd}
    /\ UNCHANGED <<timerVars, open, backlog, unread, signalVars, pc, batch, silent>>

\* SigHandler sends one byte.
Signal(sig) ==
    /\ pipe' = pipe \cup {sig}
    /\ edge' = edge \cup {Pipe}

\* A period passes; SIGALRM arrives with it if an alarm is running.
ClockTick ==
    /\ pc # "stopped"
    /\ \A t \in allocated : list.expire[t] > -MaxLate
    /\ list' = [list EXCEPT !.expire = [t \in Timers |-> IF t \in allocated THEN @[t] - 1 ELSE 0]]
    /\ silent' = [fd \in Fds |-> IF fd \in open THEN silent[fd] + 1 ELSE silent[fd]]
    /\ IF alarm THEN Signal("ALRM") ELSE UNCHANGED <<pipe, edge>>
    /\ alarm' = FALSE
    /\ UNCHANGED <<allocated, timer, open, clientVars, timeout, stopServer, pc, batch>>

Terminate ==
    /\ pc # "stopped"
    /\ Signal("TERM")
    /\ UNCHANGED <<timerVars, open, clientVars, alarm, timeout, stopServer, pc, batch, silent>>

----------------------------------------------------------------------------
(* main                                                                    *)

\* Edge-triggered: an event is reported once.
EpollWait ==
    /\ pc = "wait" /\ edge # {}
    /\ pc' = "batch"
    /\ batch' = edge
    /\ edge' = {}
    /\ UNCHANGED <<timerVars, open, clientVars, signalVars, silent>>

Handle(event) ==
    /\ pc = "batch" /\ event \in batch
    /\ batch' = batch \ {event}
    /\ UNCHANGED pc

\* One accept per event; a new timer with three periods to live.
HandleListen ==
    /\ Handle(Listen)
    /\ backlog > 0
    /\ backlog' = backlog - 1
    /\ \E t \in Timers \ allocated : LET fd == Min(Fds \ open) IN
           /\ open' = open \cup {fd}
           /\ allocated' = allocated \cup {t}
           /\ timer' = [timer EXCEPT ![fd] = t]
           /\ silent' = [silent EXCEPT ![fd] = 0]
           /\ list' = AddTimer([list EXCEPT !.prev[t] = None, !.next[t] = None,
                                            !.expire[t] = Lifetime], t)
    /\ UNCHANGED <<unread, hung, edge, signalVars>>

\* Mutant of HandlePipe: the loop over the signals ends at SIGALRM.
HandlePipeFirstOnly ==
    /\ Handle(Pipe)
    /\ timeout' = (timeout \/ "ALRM" \in pipe)
    /\ stopServer' = (stopServer \/ ("TERM" \in pipe /\ "ALRM" \notin pipe))
    /\ pipe' = {}
    /\ UNCHANGED <<timerVars, open, clientVars, edge, alarm, silent>>

\* All signals in the pipe are read; they only set flags.
HandlePipe ==
    /\ Handle(Pipe)
    /\ timeout' = (timeout \/ "ALRM" \in pipe)
    /\ stopServer' = (stopServer \/ "TERM" \in pipe)
    /\ pipe' = {}
    /\ UNCHANGED <<timerVars, open, clientVars, edge, alarm, silent>>

\* cb_func closes the descriptors; what is known of them to the kernel is gone.
CloseFds(fds) ==
    /\ open' = open \ fds
    /\ hung' = hung \ fds
    /\ unread' = [fd \in Fds |-> IF fd \in fds THEN 0 ELSE unread[fd]]
    /\ silent' = [fd \in Fds |-> IF fd \in fds THEN 0 ELSE silent[fd]]
    /\ edge' = edge \ fds

\* Mutant of HandleData: the new expiry is added to the old.
HandleDataLonger(fd) ==
    /\ Handle(fd)
    /\ unread[fd] > 0
    /\ unread' = [unread EXCEPT ![fd] = @ - 1]
    /\ silent' = [silent EXCEPT ![fd] = 0]
    /\ list' = AdjustTimer([list EXCEPT !.expire[timer[fd]] = @ + Lifetime], timer[fd])
    /\ UNCHANGED <<allocated, timer, open, backlog, hung, edge, signalVars>>

\* One recv of up to 63 bytes, even if there are more: the client is alive.
HandleData(fd) ==
    /\ Handle(fd)
    /\ unread[fd] > 0
    /\ unread' = [unread EXCEPT ![fd] = @ - 1]
    /\ silent' = [silent EXCEPT ![fd] = 0]
    /\ list' = AdjustTimer([list EXCEPT !.expire[timer[fd]] = Lifetime], timer[fd])
    /\ UNCHANGED <<allocated, timer, open, backlog, hung, edge, signalVars>>

\* Mutant of HandleClose: the timer is not deleted.
HandleCloseKeepsTimer(fd) ==
    /\ Handle(fd)
    /\ fd \in hung
    /\ CloseFds({fd})
    /\ UNCHANGED <<timerVars, backlog, signalVars>>

\* recv returns 0, or an error that discards what was waiting.
HandleClose(fd) ==
    /\ Handle(fd)
    /\ fd \in hung
    /\ CloseFds({fd})
    /\ list' = DeleteTimer(list, timer[fd])
    /\ allocated' = allocated \ {timer[fd]}
    /\ UNCHANGED <<timer, backlog, signalVars>>

\* EAGAIN: an earlier recv has already taken what the event was about.
HandleNothing(fd) ==
    /\ Handle(fd)
    /\ unread[fd] = 0 /\ fd \notin hung
    /\ UNCHANGED <<timerVars, open, clientVars, edge, signalVars, silent>>

\* The end of the loop's body, when no timer event is due.
EndOfBatch ==
    /\ pc = "batch" /\ batch = {} /\ ~timeout
    /\ pc' = IF stopServer THEN "stopped" ELSE "wait"
    /\ UNCHANGED <<timerVars, open, clientVars, edge, signalVars, batch, silent>>

\* Mutant of HandleTimeout: no alarm is set when no timer is left.
HandleTimeoutIdle ==
    LET gone == ToSet(Expired(list, 0)) IN
    /\ pc = "batch" /\ batch = {} /\ timeout
    /\ CloseFds({fd \in open : timer[fd] \in gone})
    /\ list' = Tick(list, 0)
    /\ allocated' = allocated \ gone
    /\ alarm' = (list'.head # None)
    /\ timeout' = FALSE
    /\ pc' = IF stopServer THEN "stopped" ELSE "wait"
    /\ UNCHANGED <<timer, backlog, pipe, stopServer, batch>>

\* TimerHandler: Tick, then the next alarm.
HandleTimeout ==
    LET gone == ToSet(Expired(list, 0)) IN
    /\ pc = "batch" /\ batch = {} /\ timeout
    /\ CloseFds({fd \in open : timer[fd] \in gone})
    /\ list' = Tick(list, 0)
    /\ allocated' = allocated \ gone
    /\ alarm' = TRUE
    /\ timeout' = FALSE
    /\ pc' = IF stopServer THEN "stopped" ELSE "wait"
    /\ UNCHANGED <<timer, backlog, pipe, stopServer, batch>>

MainStep ==
    \/ EpollWait \/ HandleListen \/ HandlePipe
    \/ \E fd \in Fds : HandleData(fd) \/ HandleClose(fd) \/ HandleNothing(fd)
    \/ EndOfBatch \/ HandleTimeout

Next ==
    \/ Connect \/ ClockTick \/ Terminate
    \/ \E fd \in Fds : ClientSends(fd) \/ ClientCloses(fd)
    \/ MainStep

Spec == Init /\ [][Next]_vars

\* The process runs and time passes; clients and signals owe nothing.
FairSpec == Spec /\ WF_vars(MainStep) /\ WF_vars(ClockTick)

----------------------------------------------------------------------------
(* Properties                                                              *)

\* A timer is in the list as long as it is allocated, and it is allocated as long
\* as its connection is open: none is leaked, deleted twice or left behind for a
\* later connection on the same descriptor, though users[fd].timer is never reset.
TimersOfConnections ==
    /\ ToSet(Nodes(list)) = allocated
    /\ allocated = {timer[fd] : fd \in open}
    /\ \A fd, gd \in open : timer[fd] = timer[gd] => fd = gd

\* The chain of alarms never breaks, although each is only set by the handler of
\* the one before: it is running, or on its way through the pipe and the flag, and
\* what is in the pipe is seen, because epoll has its edge or main its event.
AlarmNeverLost ==
    /\ \/ alarm /\ "ALRM" \notin pipe /\ ~timeout
       \/ ~alarm /\ ("ALRM" \in pipe) # timeout
    /\ pipe # {} => Pipe \in edge \cup batch

\* TimerHandler closes the connections that have been silent for three periods,
\* all of them and no other.
OnlySilentAreClosed ==
    [][timeout /\ ~timeout' =>
        \A fd \in open : fd \notin open' <=> silent[fd] >= Lifetime]_vars

\* A client that has left is closed, even when one edge-triggered recv took its
\* last bytes and the end of its stream was never read: then by its timer.
DepartedAreClosed ==
    \A fd \in Fds : (fd \in hung) ~> (fd \notin hung \/ pc = "stopped")

\* SIGTERM stops the server, whatever else is in the pipe and in the batch.
TermStops == "TERM" \in pipe ~> pc = "stopped"
=============================================================================
