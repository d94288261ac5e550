------------------------------- MODULE ChatsMC -------------------------------
(***************************************************************************)
(* Small instances of PollChat, SharedMemoryChat and ProcessPool in one    *)
(* run: the initial state picks one server and the others never move.      *)
(*   poll       PollChat                                                   *)
(*   leave      SharedMemoryChat with clients that come and go, and        *)
(*              SIGTERM at any time                                        *)
(*   talk       SharedMemoryChat with clients that talk and stay           *)
(*   processes  ProcessPool                                                *)
(***************************************************************************)
EXTENDS PollChat

CONSTANTS
    \* SharedMemoryChat's
    Pids, LeavingPids, P1, P2, Zero, Leaked, LeaveLimit, TalkLimit, MaxPipes, MaxSends,
    \* ProcessPool's
    Processes, MaxBacklog, MaxConns, MaxSignals

ASSUME ConstantsAssumption ==
    /\ {Zero, Leaked} \cap Pids = {} /\ Zero # Leaked
    /\ {P1, P2} \subseteq Pids /\ P1 # P2 /\ LeavingPids \subseteq Pids
    /\ LeaveLimit \in Nat \ {0} /\ TalkLimit \in Nat \ {0} /\ MaxPipes \in Nat
    /\ Processes \in Nat \ {0} /\ MaxBacklog \in Nat \ {0} /\ MaxConns \in Nat \ {0}

\* The variables of SharedMemoryChat and of ProcessPool.
VARIABLES
    which,
    chatBacklog, chatUsers, chatSubProcess, chatUserCount, chatPipeAt, chatReady,
    chatBatch, chatSignals, chatBytes, chatTerminate, chatStopServer, chatPc,
    chatChild, chatIdx, chatStopChild, chatEvents, chatHandling, chatHolders,
    chatTold, chatAnnounced, chatUnread, chatClosed, chatBlock, chatSends, chatHeard
VARIABLES
    procBacklog, procReady, procSignals, procCounter, procParent, procChild,
    procDispatches, procChildReady, procBatch, procChildSignals, procConns,
    procPrograms

memoryVars ==
    <<chatBacklog, chatUsers, chatSubProcess, chatUserCount, chatPipeAt, chatReady,
      chatBatch, chatSignals, chatBytes, chatTerminate, chatStopServer, chatPc,
      chatChild, chatIdx, chatStopChild, chatEvents, chatHandling, chatHolders,
      chatTold, chatAnnounced, chatUnread, chatClosed, chatBlock, chatSends,
      chatHeard>>
procVars ==
    <<procBacklog, procReady, procSignals, procCounter, procParent, procChild,
      procDispatches, procChildReady, procBatch, procChildSignals, procConns,
      procPrograms>>

Two == INSTANCE SharedMemoryChat WITH
         backlog <- chatBacklog, users <- chatUsers, subProcess <- chatSubProcess,
         userCount <- chatUserCount, pipeAt <- chatPipeAt, ready <- chatReady, batch
         <- chatBatch, signals <- chatSignals, bytes <- chatBytes, terminate <-
         chatTerminate, stopServer <- chatStopServer, pc <- chatPc, child <-
         chatChild, idx <- chatIdx, stopChild <- chatStopChild, events <-
         chatEvents, handling <- chatHandling, holders <- chatHolders, told <-
         chatTold, announced <- chatAnnounced, unread <- chatUnread, closed <-
         chatClosed, block <- chatBlock, sends <- chatSends, heard <- chatHeard,
         USER_LIMIT <- LeaveLimit, MaxFd <- MaxPipes, MaxSends <- 0
Three == INSTANCE SharedMemoryChat WITH
         backlog <- chatBacklog, users <- chatUsers, subProcess <- chatSubProcess,
         userCount <- chatUserCount, pipeAt <- chatPipeAt, ready <- chatReady, batch
         <- chatBatch, signals <- chatSignals, bytes <- chatBytes, terminate <-
         chatTerminate, stopServer <- chatStopServer, pc <- chatPc, child <-
         chatChild, idx <- chatIdx, stopChild <- chatStopChild, events <-
         chatEvents, handling <- chatHandling, holders <- chatHolders, told <-
         chatTold, announced <- chatAnnounced, unread <- chatUnread, closed <-
         chatClosed, block <- chatBlock, sends <- chatSends, heard <- chatHeard,
         USER_LIMIT <- TalkLimit, MaxFd <- MaxPipes
G == INSTANCE ProcessPool WITH
         backlog <- procBacklog, ready <- procReady, signals <- procSignals, counter
         <- procCounter, parent <- procParent, child <- procChild, dispatches <-
         procDispatches, childReady <- procChildReady, batch <- procBatch,
         childSignals <- procChildSignals, conns <- procConns, programs <-
         procPrograms

MCInit ==
    /\ Init /\ G!Init
    /\ \/ which \in {"poll", "leave", "processes"} /\ Two!Init
       \/ which = "talk" /\ Three!Init

LeaveNext == Two!Next /\ \A p \in Pids \ LeavingPids : chatChild'[p] = "none"

TalkNext ==
    \/ Three!Connect \/ Three!ParentStep
    \/ \E p \in Pids : Three!ClientSends(p) \/ Three!ChildStep(p)

MCNext ==
    /\ UNCHANGED which
    /\ \/ which = "poll" /\ Next /\ UNCHANGED <<memoryVars, procVars>>
       \/ which = "leave" /\ LeaveNext /\ UNCHANGED <<pollVars, procVars>>
       \/ which = "talk" /\ TalkNext /\ UNCHANGED <<pollVars, procVars>>
       \/ which = "processes" /\ G!Next /\ UNCHANGED <<pollVars, memoryVars>>

\* The fairness of each module for its own server.
MCFairSpec ==
    /\ MCInit /\ [][MCNext]_<<which, pollVars, memoryVars, procVars>>
    /\ WF_pollVars(which = "poll" /\ ServerStep)
    /\ WF_memoryVars(which = "talk" /\ Three!ParentStep)
    /\ \A p \in Pids : WF_memoryVars(which = "talk" /\ Three!ChildStep(p))
    /\ WF_procVars(which = "processes" /\ G!Dispatch)
    /\ WF_procVars(which = "processes" /\ G!HandleSignals)
    /\ \A c \in 0..(Processes - 1) : WF_procVars(which = "processes" /\ G!ChildStep(c))

\* The types of all, and the other properties by the names the modules give them. What
\* is true of the message from one client to another is true of any two, because
\* nothing tells pids apart.
TypesOK ==
    /\ TypeOK /\ G!TypeOK
    /\ IF which = "talk" THEN Three!TypeOK ELSE Two!TypeOK
CountIsChildren == Two!CountIsChildren
LastChildStopsServer == Two!LastChildStopsServer
DeadAreAnnounced == G!DeadAreAnnounced
LoneMessageIsHeard == Three!MessageIsHeard(P1, P2)
LoneClientIsAccepted == G!LoneClientIsAccepted
=============================================================================
