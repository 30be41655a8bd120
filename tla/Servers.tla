------------------------------ MODULE Servers ------------------------------
(***************************************************************************)
(* The servers of the repository with their clients, side by side: that of *)
(* epoll/, the one over select and the two that serve one line.  They      *)
(* share no variable.                                                      *)
(***************************************************************************)
CONSTANTS
  EventClient, Listener,    \* of EventServer
  SelectClient, MaxAsked,   \* of SelectServer
  ThreadClient, Failure     \* of ThreadServer

VARIABLES
  e_phase, e_round, e_queue, inbox, answers, interest, ready, events, line, server,
  d_phase, asked, d_queue, input, d_answered, readSet, bad, testSet, listening, running,
  o_kind, o_phase, o_queue, open, sock, failed, o_at, has, o_answered, late, lost, robbed

Event == INSTANCE EventServer WITH
  Client <- EventClient, phase <- e_phase, round <- e_round, queue <- e_queue
Select == INSTANCE SelectServer WITH
  Client <- SelectClient, phase <- d_phase, queue <- d_queue, answered <- d_answered
Threads == INSTANCE ThreadServer WITH
  Client <- ThreadClient, kind <- o_kind, phase <- o_phase, queue <- o_queue,
  at <- o_at, answered <- o_answered

-----------------------------------------------------------------------------
(* The server over epoll answers each client that waits for an answer; the *)
(* one over select does as long as it runs; those that serve one line do   *)
(* but for the clients that a failed call or a thread that is late leaves  *)
(* without a thread of their own or without their connection.              *)
EventAnswers  == Event!ClientsAreAnswered
SelectAnswers == Select!ClientsAreAnswered
ThreadAnswers == Threads!ClientsAreAnswered

(* No thread of ocot_server closes the connection of another client, or    *)
(* leaves its own open, unless one was late to read which it is.           *)
OwnConnections == Threads!OwnConnections
=============================================================================
