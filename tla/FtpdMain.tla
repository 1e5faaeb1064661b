------------------------------ MODULE FtpdMain ------------------------------
(***************************************************************************)
(* The main process of the FTP server: accept, fork, and the handler that  *)
(* waits for processes that have ended.  What a session does is the        *)
(* subject of Ftpd; here a process runs and ends.                          *)
(*                                                                         *)
(* SIGCHLD is not queued: while one is pending others add nothing.  The    *)
(* handler may interrupt the main process between any two of its calls; it *)
(* is not interrupted by itself, and accept is resumed after it.           *)
(*                                                                         *)
(* The main process does not close its copy of a client's connection, so   *)
(* that each client costs it a descriptor for ever.                        *)
(***************************************************************************)
EXTENDS Naturals, FiniteSets

CONSTANTS Clients,      \* those that ever connect
          MainFds       \* connections for which the main process has room

ASSUME ClientsAssumption == IsFiniteSet(Clients)
ASSUME FdsAssumption == MainFds \in Nat

VARIABLES
    conn,       \* "idle", "waiting" in the listener's queue, "in" or "refused"
    mainpc,     \* main process: in "accept" or before "fork"
    fd,         \* main process: the client it has accepted last
    keptfds,    \* clients whose connection the main process holds
    child,      \* the process for each client
    pending,    \* whether SIGCHLD is pending
    handler     \* whether zombie_reaper runs

mainvars == <<conn, mainpc, fd, keptfds, child, pending, handler>>

NoClient == "none"
Full == Cardinality(keptfds) >= MainFds

MainInit == /\ conn = [c \in Clients |-> "idle"]
            /\ mainpc = "accept" /\ fd = NoClient /\ keptfds = {}
            /\ child = [c \in Clients |-> "none"]
            /\ pending = "no" /\ handler = "off"

(***************************************************************************)
(* The main process.  With no descriptor left, accept fails and is tried   *)
(* again at once; the client stays in the queue.                           *)
(***************************************************************************)
MainAccept(c) == /\ mainpc = "accept" /\ handler = "off"
                 /\ conn[c] = "waiting" /\ ~Full
                 /\ fd' = c /\ keptfds' = keptfds \cup {c}
                 /\ mainpc' = "fork"
                 /\ UNCHANGED <<conn, child, pending, handler>>

MainAcceptFails == /\ mainpc = "accept" /\ handler = "off" /\ Full
                   /\ \E c \in Clients : conn[c] = "waiting"
                   /\ UNCHANGED mainvars

Fork == /\ mainpc = "fork" /\ handler = "off"
        /\ child' = [child EXCEPT ![fd] = "running"]
        /\ conn' = [conn EXCEPT ![fd] = "in"]
        /\ mainpc' = "accept" /\ fd' = NoClient
        /\ UNCHANGED <<keptfds, pending, handler>>

\* The client is left with a connection that nobody serves.
ForkFails == /\ mainpc = "fork" /\ handler = "off"
             /\ conn' = [conn EXCEPT ![fd] = "refused"]
             /\ mainpc' = "accept" /\ fd' = NoClient
             /\ UNCHANGED <<keptfds, child, pending, handler>>

(***************************************************************************)
(* zombie_reaper: one call waits for every process that has ended.         *)
(***************************************************************************)
\* A slip: the signal stays blocked.
SignalBlocked == pending = "yes" /\ handler = "off" /\ UNCHANGED mainvars

Signal == /\ pending = "yes" /\ handler = "off"
          /\ pending' = "no" /\ handler' = "on"
          /\ UNCHANGED <<conn, mainpc, fd, keptfds, child>>

\* A slip: one process is waited for per signal.
ReapOne(c) == /\ handler = "on" /\ child[c] = "zombie"
              /\ child' = [child EXCEPT ![c] = "reaped"]
              /\ handler' = "off"
              /\ UNCHANGED <<conn, mainpc, fd, keptfds, pending>>

Reap(c) == /\ handler = "on" /\ child[c] = "zombie"
           /\ child' = [child EXCEPT ![c] = "reaped"]
           /\ UNCHANGED <<conn, mainpc, fd, keptfds, pending, handler>>

\* A slip: without WNOHANG the handler waits until no process is left.
ReapBlocks == /\ handler = "on" /\ \A c \in Clients : child[c] \notin {"zombie", "running"}
              /\ handler' = "off"
              /\ UNCHANGED <<conn, mainpc, fd, keptfds, child, pending>>

ReapEnds == /\ handler = "on" /\ \A c \in Clients : child[c] # "zombie"
            /\ handler' = "off"
            /\ UNCHANGED <<conn, mainpc, fd, keptfds, child, pending>>

(***************************************************************************)
(* The others.                                                             *)
(***************************************************************************)
Connect(c) == /\ conn[c] = "idle"
              /\ conn' = [conn EXCEPT ![c] = "waiting"]
              /\ UNCHANGED <<mainpc, fd, keptfds, child, pending, handler>>

SessionEnds(c) == /\ child[c] = "running"
                  /\ child' = [child EXCEPT ![c] = "zombie"]
                  /\ pending' = "yes"
                  /\ UNCHANGED <<conn, mainpc, fd, keptfds, handler>>

Main == (\E c \in Clients : MainAccept(c)) \/ Fork
Handler == Signal \/ (\E c \in Clients : Reap(c)) \/ ReapEnds
Others == MainAcceptFails \/ ForkFails \/ \E c \in Clients : Connect(c) \/ SessionEnds(c)
MainNext == Main \/ Handler \/ Others
MainSpec == MainInit /\ [][MainNext]_mainvars

\* The main process and its handler go on, and the listener's queue is fair
\* to each client.  Nobody has to connect or to end, and fork need not fail.
FairMainSpec == /\ MainSpec
                /\ SF_mainvars(Fork \/ ForkFails) /\ WF_mainvars(Handler)
                /\ \A c \in Clients : SF_mainvars(MainAccept(c))

(***************************************************************************)
(* Properties.                                                             *)
(***************************************************************************)
\* The state is well formed.
MainTypeOK == /\ conn \in [Clients -> {"idle", "waiting", "in", "refused"}]
              /\ mainpc \in {"accept", "fork"} /\ fd \in Clients \cup {NoClient}
              /\ keptfds \subseteq Clients
              /\ child \in [Clients -> {"none", "running", "zombie", "reaped"}]
              /\ pending \in {"no", "yes"} /\ handler \in {"off", "on"}

(***************************************************************************)
(* A process that has ended is never forgotten: the handler runs or will   *)
(* run, though signals of processes that end together are merged.          *)
(***************************************************************************)
NoZombieForgotten ==
    (\E c \in Clients : child[c] = "zombie") => pending = "yes" \/ handler = "on"

(***************************************************************************)
(* Every process that has ended is waited for.                             *)
(***************************************************************************)
AllReaped == \A c \in Clients : child[c] = "zombie" ~> child[c] = "reaped"

(***************************************************************************)
(* A client that connects is taken, unless all descriptors are used up by  *)
(* clients that came before, in service or not.                            *)
(***************************************************************************)
ClientTaken ==
    \A c \in Clients : conn[c] = "waiting" ~> conn[c] \in {"in", "refused"} \/ Full
=============================================================================
