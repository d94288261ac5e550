----------------------------- MODULE ProcessPool -----------------------------
(***************************************************************************)
(* The process pool of src/linux_server/15-3_process_pool.h with the CGI   *)
(* connections of 15-4_processpool_CGI.cc as its T: the parent watches the *)
(* listening socket and tells one child after the other to accept; a child *)
(* starts a program per request. Every descriptor is edge-triggered and    *)
(* every event is answered with one recv or accept.                        *)
(*                                                                         *)
(* RunChild keeps its connections in users[5], indexed by descriptor, and  *)
(* every descriptor is higher: what lies there may be free memory, or the  *)
(* child dies.                                                             *)
(***************************************************************************)
EXTENDS Integers, Sequences, FiniteSets, FiniteSetsExt

CONSTANTS
    Processes,   \* m_process_number
    MaxBacklog,  \* bound: clients in the listen queue
    MaxConns,    \* bound: clients and programs of all children together
    MaxSignals   \* bound: signals in the parent's pipe

Indices == 0..(Processes - 1)

VARIABLES
    backlog,     \* clients in the listen queue
    ready,       \* what epoll of the parent has an event for
    signals,     \* the bytes in the parent's signal pipe
    counter,     \* sub_process_counter
    parent,      \* "runs", or "undefined" after reading past m_sub_process
    child,       \* of each child: "starts", "waits", "batch", "dead", "reaped"
    dispatches,  \* the notifications in its pipe, an int each
    childReady,  \* what its epoll has an event for
    batch,       \* its events not handled yet
    childSignals,\* the signals in its signal pipe
    conns,       \* its connections
    programs     \* the CGI programs it has started and that run

parentVars == <<ready, signals, counter, parent>>
childVars == <<child, dispatches, childReady, batch, childSignals, conns, programs>>
poolVars == <<backlog, parentVars, childVars>>

TypeOK ==
    /\ backlog \in 0..MaxBacklog
    /\ ready \subseteq {"listen", "signals"}
    /\ \A k \in DOMAIN signals : signals[k] \in {"CHLD", "TERM"}
    /\ counter \in Indices
    /\ parent \in {"runs", "undefined"}
    /\ child \in [Indices -> {"starts", "waits", "batch", "dead", "reaped"}]
    /\ dispatches \in [Indices -> Nat]
    /\ childReady \in [Indices -> SUBSET {"pipe", "signals"}] /\ batch \in [Indices -> SUBSET {"pipe", "signals"}]
    /\ childSignals \in [Indices -> SUBSET {"CHLD", "TERM"}]
    /\ conns \in [Indices -> 0..MaxConns] /\ programs \in [Indices -> 0..MaxConns]

\* All children are forked by the constructor; the parent has set up its pipe.
Init ==
    /\ backlog = 0 /\ ready = {} /\ signals = <<>> /\ counter = 0
    /\ parent = "runs"
    /\ child = [c \in Indices |-> "starts"]
    /\ dispatches = [c \in Indices |-> 0]
    /\ childReady = [c \in Indices |-> {}] /\ batch = [c \in Indices |-> {}]
    /\ childSignals = [c \in Indices |-> {}]
    /\ conns = [c \in Indices |-> 0] /\ programs = [c \in Indices |-> 0]

----------------------------------------------------------------------------
(* Clients, programs and the operator                                      *)

Connect ==
    /\ backlog < MaxBacklog
    /\ MapThenSumSet(LAMBDA c : conns[c] + programs[c], Indices) + backlog < MaxConns
    /\ backlog' = backlog + 1
    /\ ready' = ready \cup {"listen"}
    /\ UNCHANGED <<signals, counter, parent, childVars>>

\* Mutant of Signal: a signal that finds another in the pipe is dropped.
SignalCoalesces(sig) ==
    /\ signals' = IF signals = <<>> THEN <<sig>> ELSE signals
    /\ ready' = ready \cup {"signals"}

\* SigHandler sends a byte; the operator's signal goes to the parent.
Signal(sig) ==
    /\ signals' = Append(signals, sig)
    /\ ready' = ready \cup {"signals"}

Terminate ==
    /\ parent = "runs" /\ Len(signals) < MaxSignals
    /\ Signal("TERM")
    /\ UNCHANGED <<backlog, counter, parent, childVars>>

ProgramEnds(c) ==
    /\ programs[c] > 0
    /\ programs' = [programs EXCEPT ![c] = @ - 1]
    /\ childSignals' = [childSignals EXCEPT ![c] = @ \cup {"CHLD"}]
    /\ childReady' = [childReady EXCEPT ![c] = @ \cup {"signals"}]
    /\ UNCHANGED <<backlog, parentVars, child, dispatches, batch, conns>>

----------------------------------------------------------------------------
(* The parent                                                              *)

\* Mutant of Dispatch: a child that is busy is not told.
DispatchToIdle ==
    /\ parent = "runs" /\ "listen" \in ready
    /\ ready' = ready \ {"listen"}
    /\ counter' = (counter + 1) % Processes
    /\ IF child[counter] # "waits" THEN UNCHANGED <<dispatches, childReady>>
       ELSE /\ dispatches' = [dispatches EXCEPT ![counter] = @ + 1]
            /\ childReady' = [childReady EXCEPT ![counter] = @ \cup {"pipe"}]
    /\ UNCHANGED <<backlog, signals, parent, child, batch, childSignals, conns, programs>>

\* Mutant of Dispatch: the number of the next child is not taken modulo m_process_number.
DispatchPastLast ==
    /\ parent = "runs" /\ "listen" \in ready
    /\ ready' = ready \ {"listen"}
    /\ counter' = counter + 1
    /\ UNCHANGED <<backlog, signals, parent, childVars>>

\* Round robin. (The search passes over children that were crossed off, but none ever
\* is: the assignment of -1 lies in the loop that runs off the array.) To a dead child
\* the notification is lost.
Dispatch ==
    /\ parent = "runs" /\ "listen" \in ready
    /\ ready' = ready \ {"listen"}
    /\ counter' = (counter + 1) % Processes
    /\ IF child[counter] \in {"dead", "reaped"} THEN UNCHANGED <<dispatches, childReady>>
       ELSE /\ dispatches' = [dispatches EXCEPT ![counter] = @ + 1]
            /\ childReady' = [childReady EXCEPT ![counter] = @ \cup {"pipe"}]
    /\ UNCHANGED <<backlog, signals, parent, child, batch, childSignals, conns, programs>>

\* All bytes are read. SIGTERM is passed on to every child, and kills one that has
\* not set its handlers yet. SIGCHLD waits for the dead, but the loop over the children
\* tests the number of the byte: it never ends if that is small, and is not entered if
\* it is not.
HandleSignals ==
    LET zombies == {c \in Indices : child[c] = "dead"}
        Before(k, sig) == \E j \in 1..(k - 1) : signals[j] = sig
        endless == {k \in DOMAIN signals : /\ signals[k] = "CHLD" /\ ~Before(k, "CHLD")
                                           /\ k - 1 < Processes /\ zombies # {}}
        term == \E k \in DOMAIN signals : signals[k] = "TERM" /\ \A e \in endless : k < e
        killed == {c \in Indices : term /\ child[c] = "starts"}
        told == {c \in Indices : term /\ child[c] \in {"waits", "batch"}}
        waited == {c \in zombies : endless = {} /\ Before(Len(signals) + 1, "CHLD")}
    IN
    /\ parent = "runs" /\ "signals" \in ready
    /\ parent' = IF endless # {} THEN "undefined" ELSE parent
    /\ child' = [c \in Indices |-> IF c \in killed THEN "dead" ELSE IF c \in waited THEN "reaped" ELSE child[c]]
    /\ signals' = IF killed # {} THEN <<"CHLD">> ELSE <<>>
    /\ ready' = IF killed # {} THEN ready ELSE ready \ {"signals"}
    /\ childSignals' = [c \in Indices |-> IF c \in told THEN childSignals[c] \cup {"TERM"} ELSE childSignals[c]]
    /\ childReady' = [c \in Indices |-> IF c \in told THEN childReady[c] \cup {"signals"} ELSE childReady[c]]
    /\ UNCHANGED <<backlog, counter, dispatches, batch, conns, programs>>

ParentStep == Dispatch \/ HandleSignals

----------------------------------------------------------------------------
(* A child                                                                 *)

\* SetupSigPipe, Addfd.
ChildStarts(c) ==
    /\ child[c] = "starts"
    /\ child' = [child EXCEPT ![c] = "waits"]
    /\ UNCHANGED <<backlog, parentVars, dispatches, childReady, batch, childSignals, conns, programs>>

\* What has been read since it became ready is not reported.
ChildWaits(c) ==
    /\ child[c] = "waits"
    /\ batch' = [batch EXCEPT ![c] = {e \in childReady[c] : e = "pipe" => dispatches[c] > 0}]
    /\ batch'[c] # {}
    /\ childReady' = [childReady EXCEPT ![c] = {}]
    /\ child' = [child EXCEPT ![c] = "batch"]
    /\ UNCHANGED <<backlog, parentVars, dispatches, childSignals, conns, programs>>

ChildHandles(c, event) ==
    /\ child[c] = "batch" /\ event \in batch[c]
    /\ batch' = [batch EXCEPT ![c] = @ \ {event}]
    /\ UNCHANGED <<childReady, programs>>

\* One notification is read, if there is still one, and one client accepted.
ChildAccepts(c) ==
    /\ ChildHandles(c, "pipe")
    /\ dispatches' = [dispatches EXCEPT ![c] = IF @ > 0 THEN @ - 1 ELSE 0]
    /\ IF backlog = 0 THEN UNCHANGED <<backlog, conns, child, parentVars>>
       ELSE /\ backlog' = backlog - 1
            /\ \/ /\ conns' = [conns EXCEPT ![c] = @ + 1]
                  /\ UNCHANGED <<child, parentVars>>
               \/ /\ child' = [child EXCEPT ![c] = "dead"]
                  /\ conns' = [conns EXCEPT ![c] = 0]
                  /\ Signal("CHLD")
                  /\ UNCHANGED <<counter, parent>>
    /\ UNCHANGED childSignals

\* The signals are looked for in the pipe to the parent: what is read are notifications,
\* whose bytes are no signal the switch knows, and the signals stay where they are.
ChildSignal(c) ==
    /\ ChildHandles(c, "signals")
    /\ dispatches' = [dispatches EXCEPT ![c] = 0]
    /\ UNCHANGED <<backlog, parentVars, child, childSignals, conns>>

ChildLoops(c) ==
    /\ child[c] = "batch" /\ batch[c] = {}
    /\ child' = [child EXCEPT ![c] = "waits"]
    /\ UNCHANGED <<backlog, parentVars, dispatches, childReady, batch, childSignals, conns, programs>>

\* CgiConn::Process: the connection ends, with its program started or without.
Serve(c) ==
    /\ child[c] \in {"waits", "batch"} /\ conns[c] > 0
    /\ conns' = [conns EXCEPT ![c] = @ - 1]
    /\ \E k \in {0, 1} : programs' = [programs EXCEPT ![c] = @ + k]
    /\ UNCHANGED <<backlog, parentVars, child, dispatches, childReady, batch, childSignals>>

ChildStep(c) ==
    ChildStarts(c) \/ ChildWaits(c) \/ ChildAccepts(c) \/ ChildSignal(c) \/ ChildLoops(c)

Next ==
    \/ Connect \/ Terminate \/ ParentStep
    \/ \E c \in Indices : ChildStep(c) \/ Serve(c) \/ ProgramEnds(c)

Spec == Init /\ [][Next]_poolVars

\* Every process runs, and epoll_wait hands out all that is ready; clients, programs and
\* the operator owe nothing.
FairSpec ==
    /\ Spec
    /\ WF_poolVars(Dispatch) /\ WF_poolVars(HandleSignals)
    /\ \A c \in Indices : WF_poolVars(ChildStep(c))

----------------------------------------------------------------------------
(* Properties                                                              *)

\* As long as the parent runs, a child that died and was not waited for is announced: a
\* SIGCHLD is in the pipe and epoll has an event for it, whatever other signals came, and
\* whichever children the parent killed itself by passing SIGTERM on (SigHandler, 73 to
\* 79; the loop over the bytes, 283 to 338).
DeadAreAnnounced ==
    (parent = "runs" /\ \E c \in Indices : child[c] = "dead")
        => "signals" \in ready /\ \E k \in DOMAIN signals : signals[k] = "CHLD"

\* A client that is alone in the queue and announced is accepted by the child that is
\* told of it, unless a signal has come to some child: the child then reads its
\* notifications as signals. (Of two clients that one event announces, one stays.)
LoneClientIsAccepted ==
    (backlog = 1 /\ "listen" \in ready)
        ~> (backlog # 1 \/ \E c \in Indices : childSignals[c] # {} \/ child[c] \in {"dead", "reaped"})
=============================================================================
