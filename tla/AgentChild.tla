------------------------------ MODULE AgentChild ------------------------------
(***************************************************************************)
(* State shared by the two halves of a data-transfer child: the process    *)
(* that poll_loop() forks for one client and that runs                     *)
(* poll_data_transfer() until everything is closed.  It owns one host      *)
(* socket and num_parallel_connections agent sockets, all non-blocking,    *)
(* and one mask per socket.                                                *)
(*                                                                         *)
(* pc is where the single thread is:                                       *)
(*   "top"      at the head of the loop, about to look for closed sockets  *)
(*   "wait"     in epoll_wait()                                            *)
(*   "deliver"  in the loop of send_data_host(), between two packets       *)
(*   "done"     left through "Everything has been closed!"                 *)
(*   "exit"     killed by a system error: exit(1) after a perror(), or the *)
(*              SIGPIPE no code handles                                    *)
(*   an abort   left through one of the exit(1)s that report a state the   *)
(*              program believes impossible                                *)
(***************************************************************************)
EXTENDS Naturals, Sequences, FiniteSets, EpollMask

CONSTANTS Agents,     \* the parallel connections (indices into agent_sock)
          HdrUnits,   \* units of the length header of a packet on the wire
          PayUnits,   \* units of its body
          WireCap,    \* units the socket buffers of a connection hold
          EnvEvents   \* which of the optional environment events may happen

ASSUME AgentsAssumption == IsFiniteSet(Agents) /\ Agents # {}
ASSUME UnitsAssumption  == HdrUnits \in Nat \ {0} /\ PayUnits \in Nat \ {0}
ASSUME WireAssumption   == WireCap \in Nat \ {0}

VARIABLES pc,
          hostMask,   \* host_fd_poll
          agentMask,  \* agent_fd_poll[]
          hostSock,   \* the host connection, as the kernel has it
          agentSock   \* each agent connection, as the kernel has it

childVars == <<pc, hostMask, agentMask, hostSock, agentSock>>

Aborts == {"no free slot",         \* "I SHOULDNT HAVE BEEN TRIGGERED!!"
           "weird false fire",     \* "Weird false fire"
           "should not be here",   \* "Should not have gotten here..."
           "host not pollable",    \* " AIHLKJKj"
           "epoll_ctl failed"}     \* EPOLL_CTL_ADD or _DEL returned an error

PCs == {"top", "wait", "deliver", "done", "exit"} \cup Aborts

Terminated == pc \in {"done", "exit"} \cup Aborts

SockStates == {"open", "reset", "closed"}

\* Connection i is open at this end.  The kernel closes the sockets of a process
\* that has ended, wherever it was: also inside a packet.
IsUp(i) == ~Terminated /\ agentSock[i] = "open"

\* A packet on the wire: a length header, then a body that starts with the
\* sequence number.
PktUnits == HdrUnits + PayUnits

\* configure_poll(): every socket is polled for input.
ChildInit ==
  /\ pc = "top"
  /\ hostMask  = MaskIN
  /\ agentMask = [i \in Agents |-> MaskIN]
  /\ hostSock  = "open"
  /\ agentSock = [i \in Agents |-> "open"]

=============================================================================
