---------------------------- MODULE ClearDeadMC ------------------------------
(***************************************************************************)
(* Small instances of the servers around one epoll loop: the initial state *)
(* picks ClearDeadConnection, TriggerModes or OneShotServer and the others *)
(* never move. Nodes are interchangeable, and so are threads; TimersMC has *)
(* the longer lists.                                                       *)
(***************************************************************************)
EXTENDS ClearDeadConnection, TLC

CONSTANT Threads

VARIABLES
    which,
    \* TriggerModes'
    mode, modeOpen, modeBacklog, modeUnread, modeHung, modeEdge, modeBatch, current, inLoop,
    \* OneShotServer's
    shotOpen, shotBacklog, shotUnread, shotHung, armed, shotEdge, shotBatch, shotInLoop,
    argument, thread, sockfd, overwritten

modeVars == <<mode, modeOpen, modeBacklog, modeUnread, modeHung, modeEdge, modeBatch, current, inLoop>>
shotVars ==
    <<shotOpen, shotBacklog, shotUnread, shotHung, armed, shotEdge, shotBatch, shotInLoop,
      argument, thread, sockfd, overwritten>>

M == INSTANCE TriggerModes WITH
         Conns <- Fds, open <- modeOpen, backlog <- modeBacklog, unread <- modeUnread,
         hung <- modeHung, edge <- modeEdge, batch <- modeBatch
O == INSTANCE OneShotServer WITH
         Conns <- Fds, Nowhere <- None, open <- shotOpen, backlog <- shotBacklog,
         unread <- shotUnread, hung <- shotHung, edge <- shotEdge, batch <- shotBatch,
         inLoop <- shotInLoop

MCInit ==
    /\ Init /\ M!Init /\ O!Init /\ which \in {"dead", "mode", "shot"}
    /\ which # "mode" => mode = "ET"

MCNext ==
    /\ UNCHANGED which
    /\ \/ which = "dead" /\ Next /\ UNCHANGED <<modeVars, shotVars>>
       \/ which = "mode" /\ M!Next /\ UNCHANGED <<vars, shotVars>>
       \/ which = "shot" /\ O!Next /\ UNCHANGED <<vars, modeVars>>

MCSpec == MCInit /\ [][MCNext]_<<which, vars, modeVars, shotVars>>

Symmetry == Permutations(Timers) \cup Permutations(Threads)

\* The types of all, and the other properties by the names the modules give them.
TypesOK == TypeOK /\ M!TypeOK /\ O!TypeOK
NothingLeftBehind == M!NothingLeftBehind
OneThreadEach == O!OneThreadEach
=============================================================================
