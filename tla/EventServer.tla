----------------------------- MODULE EventServer -----------------------------
(***************************************************************************)
(* epoll/ETServer.cpp with clients that run epoll/ETClient.cpp.  The       *)
(* server is a single thread over an edge-triggered epoll: `ready` is the  *)
(* kernel's list of descriptors with news, `events` what epoll_wait has    *)
(* returned and is not handled yet.  A client sends, waits for an answer,  *)
(* sends again, waits again, and closes.  There is one `line` for all: an  *)
(* answer is the beginning of whatever was read last.                      *)
(***************************************************************************)
EXTENDS Integers, Sequences, Functions

CONSTANTS Client, Listener

ListenerAssumption == Listener \notin Client

VARIABLES
  phase,     \* clients: "new", "connected", "asked" or "closed"
  round,     \* clients: answers received
  queue,     \* connections that are not accepted yet
  inbox,     \* what the server can read from a client: "none", "text", "eof" or "reset"
  answers,   \* lines on their way to a client
  interest,  \* registration of a connection: "none", "IN" or "OUT"
  ready,
  events,
  line,      \* what was read last
  server     \* "up" or "exited"

clientVars == <<phase, round, answers>>
vars == <<phase, round, queue, inbox, answers, interest, ready, events, line, server>>

Init ==
  /\ phase = [c \in Client |-> "new"] /\ round = [c \in Client |-> 0]
  /\ queue = <<>> /\ inbox = [c \in Client |-> "none"]
  /\ answers = [c \in Client |-> <<>>] /\ interest = [c \in Client |-> "none"]
  /\ ready = <<>> /\ events = <<>> /\ line = "" /\ server = "up"

With(s, fd) == IF fd \in Range(s) THEN s ELSE Append(s, fd)

-----------------------------------------------------------------------------
(* The clients.                                                            *)

Connect(c) ==
  /\ server = "up" /\ phase[c] = "new" /\ phase' = [phase EXCEPT ![c] = "connected"]
  /\ queue' = Append(queue, c) /\ ready' = With(ready, Listener)
  /\ UNCHANGED <<round, inbox, answers, interest, events, line, server>>

Send(c) ==
  /\ server = "up" /\ phase[c] = "connected" /\ round[c] < 2
  /\ phase' = [phase EXCEPT ![c] = "asked"] /\ inbox' = [inbox EXCEPT ![c] = "text"]
  /\ ready' = IF interest[c] = "IN" THEN With(ready, c) ELSE ready
  /\ UNCHANGED <<round, queue, answers, interest, events, line, server>>

Receive(c) ==
  /\ phase[c] = "asked" /\ answers[c] # <<>>
  /\ phase' = [phase EXCEPT ![c] = "connected"] /\ round' = [round EXCEPT ![c] = @ + 1]
  /\ answers' = [answers EXCEPT ![c] = Tail(@)]
  /\ UNCHANGED <<queue, inbox, interest, ready, events, line, server>>

(* shutdown and close: news for the server whatever it waits for.          *)
Close(c) ==
  /\ server = "up" /\ phase[c] = "connected" /\ round[c] = 2
  /\ phase' = [phase EXCEPT ![c] = "closed"] /\ inbox' = [inbox EXCEPT ![c] = "eof"]
  /\ ready' = With(ready, c)
  /\ UNCHANGED <<round, queue, answers, interest, events, line, server>>

-----------------------------------------------------------------------------
(* The server.                                                             *)

News(fd) ==
  IF fd = Listener THEN queue # <<>>
  ELSE interest[fd] = "OUT" \/ inbox[fd] # "none"
Event(fd) == [fd |-> fd, on |-> IF fd = Listener THEN "IN" ELSE interest[fd]]
(* epoll_wait reports those of the first k in `ready` that have news.      *)
Reported[k \in 0..Len(ready)] ==
  IF k = 0 THEN <<>>
  ELSE IF News(ready[k]) THEN Append(Reported[k - 1], Event(ready[k])) ELSE Reported[k - 1]

EpollWait ==
  /\ server = "up" /\ events = <<>> /\ ready # <<>>
  /\ events' = Reported[Len(ready)]
  /\ ready' = <<>>
  /\ UNCHANGED <<clientVars, queue, inbox, interest, line, server>>

(* Nothing for 500 ms.                                                     *)
Timeout == server = "up" /\ events = <<>> /\ ready = <<>> /\ UNCHANGED vars

Handles(on) == server = "up" /\ events # <<>> /\ Head(events).on = on
FirstFd == Head(events).fd

(* One connection for each event.  accept is given a length that was never *)
(* set, and may refuse it: then the server ends, as for any other error.   *)
Accept ==
  /\ Handles("IN") /\ FirstFd = Listener
  /\ \/ /\ interest' = [interest EXCEPT ![Head(queue)] = "IN"]
        /\ ready' = IF inbox[Head(queue)] # "none" THEN With(ready, Head(queue)) ELSE ready
        /\ queue' = Tail(queue) /\ UNCHANGED server
     \/ server' = "exited" /\ UNCHANGED <<interest, ready, queue>>
  /\ events' = Tail(events)
  /\ UNCHANGED <<clientVars, inbox, line>>

(* Everything there is is read.  At the end of the input that is nothing,  *)
(* and an answer is written to the closed connection nevertheless.         *)
Read ==
  /\ Handles("IN") /\ FirstFd # Listener
  /\ events' = Tail(events)
  /\ IF inbox[FirstFd] = "reset"
     THEN server' = "exited" /\ UNCHANGED <<inbox, interest, ready, line>>
     ELSE /\ line' = IF inbox[FirstFd] = "text" THEN "text" ELSE ""
          /\ inbox' = [inbox EXCEPT ![FirstFd] = IF @ = "text" THEN "none" ELSE @]
          /\ interest' = [interest EXCEPT ![FirstFd] = "OUT"]
          /\ ready' = With(ready, FirstFd)
          /\ UNCHANGED server
  /\ UNCHANGED <<clientVars, queue>>

(* A closed connection answers with a reset; a write after that is fatal.  *)
Write ==
  /\ Handles("OUT")
  /\ events' = <<[Head(events) EXCEPT !.on = "REARM"]>> \o Tail(events)
  /\ CASE inbox[FirstFd] = "reset" -> server' = "exited" /\ UNCHANGED <<inbox, answers>>
       [] inbox[FirstFd] = "eof"   -> inbox' = [inbox EXCEPT ![FirstFd] = "reset"] /\ UNCHANGED <<answers, server>>
       [] OTHER -> answers' = [answers EXCEPT ![FirstFd] = Append(@, line)] /\ UNCHANGED <<inbox, server>>
  /\ UNCHANGED <<phase, round, queue, interest, ready, line>>

(* EPOLL_CTL_MOD looks again whether there is something to read: the       *)
(* client may have sent the next line already.  Mutant: the connection is  *)
(* left waiting for output.                                                *)
Rearmed_Out(fd) == interest' = interest /\ ready' = ready
Rearmed(fd) ==
  /\ interest' = [interest EXCEPT ![fd] = "IN"]
  /\ ready' = IF inbox[fd] # "none" THEN With(ready, fd) ELSE ready

Rearm ==
  /\ Handles("REARM")
  /\ Rearmed(FirstFd)
  /\ events' = Tail(events)
  /\ UNCHANGED <<clientVars, queue, inbox, line, server>>

Ended == server = "exited" /\ UNCHANGED vars

ServerStep == EpollWait \/ Accept \/ Read \/ Write \/ Rearm
Next ==
  \/ \E c \in Client : Connect(c) \/ Send(c) \/ Receive(c) \/ Close(c)
  \/ ServerStep \/ Timeout \/ Ended

Spec == Init /\ [][Next]_vars
(* The server takes its next step; clients need not.                       *)
Fairness == WF_vars(ServerStep)

-----------------------------------------------------------------------------
(* A client whose connection was accepted and who has sent a line gets an  *)
(* answer, unless the server ends.                                         *)
ClientsAreAnswered ==
  \A c \in Client :
    (phase[c] = "asked" /\ interest[c] # "none")
      ~> (phase[c] # "asked" \/ answers[c] # <<>> \/ server = "exited")

TypeOK ==
  /\ phase \in [Client -> {"new", "connected", "asked", "closed"}] /\ round \in [Client -> 0..2]
  /\ inbox \in [Client -> {"none", "text", "eof", "reset"}]
  /\ interest \in [Client -> {"none", "IN", "OUT"}]
  /\ Range(queue) \subseteq Client /\ Range(ready) \subseteq Client \cup {Listener}
  /\ line \in {"", "text"} /\ server \in {"up", "exited"}
=============================================================================
