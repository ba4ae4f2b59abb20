------------------------------ MODULE EpollMask ------------------------------
(***************************************************************************)
(* The poll mask the data-transfer child keeps for each of its sockets     *)
(* (agent_fd_poll[i], host_fd_poll).  The C code uses the integers of      *)
(* datatypes.h (OFF 0, IN 1, OUT 2, INAndOut 3, CLOSED 4); here a mask is  *)
(* the set of directions the socket is polled for, and CLOSED is a set of  *)
(* its own, so that testing a bit of a CLOSED mask is FALSE as it is in C. *)
(* A socket is registered in client_event_pool exactly when its mask is    *)
(* neither OFF nor CLOSED.                                                 *)
(***************************************************************************)

OFF      == {}
MaskIN   == {"in"}         \* IN, a reserved word of TLA+
OUT      == {"out"}
INAndOut == {"in", "out"}
CLOSED   == {"closed"}

Masks == {OFF, MaskIN, OUT, INAndOut, CLOSED}

Registered(m) == m \notin {OFF, CLOSED}

\* Mutant: EPOLL_CTL_DEL where EPOLL_CTL_MOD is due.
MutStopBoth(m, b) == IF m = CLOSED THEN m ELSE OFF

\* Start polling for direction b: EPOLL_CTL_ADD from OFF, EPOLL_CTL_MOD from
\* the other direction.  No branch of the code touches a CLOSED mask.
PollFor(m, b) == IF m = CLOSED THEN m ELSE m \cup {b}

\* Stop polling for direction b: EPOLL_CTL_DEL when nothing else is polled.
StopPolling(m, b) == m \ {b}

=============================================================================
