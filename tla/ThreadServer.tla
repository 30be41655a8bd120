---------------------------- MODULE ThreadServer ----------------------------
(***************************************************************************)
(* socket/tcp_server.cpp and socket/ocot_server.cpp with the clients of    *)
(* socket/client.cpp: each accepted connection gets one line and is        *)
(* closed, by the loop itself or by a thread of its own.  The thread is    *)
(* given the address of the loop's `sock` and reads it when it starts; the *)
(* loop sleeps a second meanwhile, which usually, not always, is enough.   *)
(* A thread that reads a later connection sends and closes there, and the  *)
(* descriptor may be a third one's by the time it closes it.  Neither what *)
(* accept nor what pthread_create returns is looked at; threads are not    *)
(* joined or detached, so that the system may well run out of them.  Left  *)
(* out is that a third line for a client that has gone ends the server.    *)
(***************************************************************************)
EXTENDS Integers, Sequences, FiniteSetsExt

CONSTANTS
  Client,
  Failure   \* names for the calls of accept that fail in a run

ClientAssumption ==
  IsFiniteSet(Client) /\ "none" \notin Client \cup Failure /\ Client \cap Failure = {}

(* A thread is named by the accept that it follows.                        *)
Thread == Client \cup Failure

VARIABLES
  kind,      \* the server: "tcp" or "ocot"
  phase,     \* clients: "new", "waiting" or "done"
  queue,     \* connections that are not accepted yet
  open,      \* for each descriptor its connection, or None
  sock,      \* the variable of the loop: what accept gave last, or 0
  failed,    \* calls of accept that failed
  at,        \* what a thread does next
  has,       \* the descriptor that the thread has read, or 0
  answered,  \* clients whose line is on its way
  late,      \* history: threads that had not read sock at the next accept
  lost,      \* history: clients whose accept or pthread_create failed
  robbed     \* history: clients whose connection was closed before their line came

history == <<late, lost, robbed>>
vars == <<kind, phase, queue, open, sock, failed, at, has, answered, history>>

None == "none"
Descriptor == 1..Cardinality(Client)

Init ==
  /\ kind = None /\ phase = [c \in Client |-> "new"] /\ queue = <<>>
  /\ open = [d \in Descriptor |-> None] /\ sock = 0 /\ failed = {}
  /\ at = [t \in Thread |-> None] /\ has = [t \in Thread |-> 0]
  /\ answered = {} /\ late = {} /\ lost = {} /\ robbed = {}

Open(program) ==
  /\ kind = None /\ kind' = program
  /\ UNCHANGED <<phase, queue, open, sock, failed, at, has, answered, history>>

Connect(c) ==
  /\ kind # None /\ phase[c] = "new" /\ phase' = [phase EXCEPT ![c] = "waiting"]
  /\ queue' = Append(queue, c)
  /\ UNCHANGED <<kind, open, sock, failed, at, has, answered, history>>

Receive(c) ==
  /\ phase[c] = "waiting" /\ c \in answered
  /\ phase' = [phase EXCEPT ![c] = "done"]
  /\ UNCHANGED <<kind, queue, open, sock, failed, at, has, answered, history>>

(* accept gives the lowest descriptor that is free, or -1: the connection  *)
(* is then lost with the error or goes on waiting.                         *)
Free == Min({d \in Descriptor : open[d] = None})
Accepted ==
  /\ queue # <<>> /\ queue' = Tail(queue)
  /\ open' = [open EXCEPT ![Free] = Head(queue)] /\ sock' = Free
  /\ UNCHANGED failed
NotAccepted(f) ==
  /\ f \notin failed /\ failed' = failed \cup {f} /\ sock' = -1 /\ UNCHANGED open
  /\ \/ UNCHANGED <<queue, lost>>
     \/ queue # <<>> /\ queue' = Tail(queue) /\ lost' = lost \cup {Head(queue)}

(* Who gets what is sent on d, and the descriptors after close(d): on -1   *)
(* and on a descriptor that is closed both fail, and nobody looks.         *)
At(d)     == {c \in Client : d \in Descriptor /\ open[d] = c}
Closed(d) == [e \in Descriptor |-> IF e = d THEN None ELSE open[e]]

(* tcp_server: accept, send and close before the next accept.              *)
Serve ==
  /\ kind = "tcp" /\ sock = 0 /\ Accepted
  /\ UNCHANGED <<kind, phase, at, has, answered, history>>

ServeFails(f) ==
  /\ kind = "tcp" /\ sock = 0 /\ NotAccepted(f)
  /\ UNCHANGED <<kind, phase, at, has, answered, late, robbed>>

SendAndClose ==
  /\ kind = "tcp" /\ sock # 0
  /\ answered' = answered \cup At(sock) /\ open' = Closed(sock) /\ sock' = 0
  /\ UNCHANGED <<kind, phase, queue, failed, at, has, history>>

(* ocot_server: pthread_create comes after every accept, even one that     *)
(* failed, and may fail itself.  The threads that have not started yet     *)
(* will read the new value of sock.                                        *)
Create(t) == at' = [at EXCEPT ![t] = "start"]
Overtaken == late' = late \cup {t \in Thread : at[t] = "start"}

Accept ==
  /\ kind = "ocot" /\ Accepted /\ Overtaken
  /\ \/ Create(Head(queue)) /\ UNCHANGED lost
     \/ UNCHANGED at /\ lost' = lost \cup {Head(queue)}
  /\ UNCHANGED <<kind, phase, has, answered, robbed>>

AcceptFails(f) ==
  /\ kind = "ocot" /\ NotAccepted(f) /\ Overtaken
  /\ Create(f) \/ UNCHANGED at
  /\ UNCHANGED <<kind, phase, has, answered, robbed>>

ThreadStart(t) ==
  /\ at[t] = "start" /\ at' = [at EXCEPT ![t] = "send"]
  /\ has' = [has EXCEPT ![t] = sock]
  /\ UNCHANGED <<kind, phase, queue, open, sock, failed, answered, history>>

(* Mutant: the connection is closed before the line is sent.               *)
ThreadSend_Closed(t) ==
  /\ at[t] = "send" /\ at' = [at EXCEPT ![t] = "close"]
  /\ open' = Closed(has[t])
  /\ UNCHANGED <<kind, phase, queue, sock, failed, has, answered, history>>
ThreadSend(t) ==
  /\ at[t] = "send" /\ at' = [at EXCEPT ![t] = "close"]
  /\ answered' = answered \cup At(has[t])
  /\ UNCHANGED <<kind, phase, queue, open, sock, failed, has, history>>

(* Mutant: the thread closes what its argument points to, not its copy.    *)
ThreadCloses(t, d) ==
  /\ at[t] = "close" /\ at' = [at EXCEPT ![t] = "done"]
  /\ open' = Closed(d) /\ robbed' = robbed \cup (At(d) \ answered)
  /\ UNCHANGED <<kind, phase, queue, sock, failed, has, answered, late, lost>>
ThreadClose_Arg(t) == ThreadCloses(t, sock)
ThreadClose(t) == ThreadCloses(t, has[t])

(* The server waits for the next client.                                   *)
Blocked ==
  /\ kind # None /\ queue = <<>> /\ (kind = "tcp" => sock = 0)
  /\ \A t \in Thread : at[t] \in {None, "done"}
  /\ UNCHANGED vars

ServerStep == Serve \/ SendAndClose \/ Accept
ThreadStep(t) == ThreadStart(t) \/ ThreadSend(t) \/ ThreadClose(t)
Next ==
  \/ \E program \in {"tcp", "ocot"} : Open(program)
  \/ ServerStep \/ Blocked
  \/ \E f \in Failure : ServeFails(f) \/ AcceptFails(f)
  \/ \E c \in Client : Connect(c) \/ Receive(c)
  \/ \E t \in Thread : ThreadStep(t)

Spec == Init /\ [][Next]_vars
(* Every thread of the server is scheduled.  Since the failures of a run   *)
(* are finitely many, accept succeeds again while a connection waits.      *)
Fairness == WF_vars(ServerStep) /\ \A t \in Thread : WF_vars(ThreadStep(t))

-----------------------------------------------------------------------------
(* As long as every thread has started before the next accept, none closes *)
(* a connection that is not its own, and each closes its own.              *)
OwnConnections ==
  late = {} => robbed = {} /\ \A d \in Descriptor : open[d] = None \/ at[open[d]] # "done"

(* In any case a client is answered unless its accept or pthread_create    *)
(* failed, its own thread was late, or another closed its connection.      *)
ClientsAreAnswered ==
  \A c \in Client : phase[c] = "waiting" ~> c \in answered \cup lost \cup late \cup robbed

TypeOK ==
  /\ kind \in {None, "tcp", "ocot"} /\ phase \in [Client -> {"new", "waiting", "done"}]
  /\ Range(queue) \subseteq Client /\ open \in [Descriptor -> Client \cup {None}]
  /\ sock \in Descriptor \cup {-1, 0} /\ has \in [Thread -> Descriptor \cup {-1, 0}]
  /\ at \in [Thread -> {None, "start", "send", "close", "done"}]
  /\ answered \cup lost \cup robbed \subseteq Client /\ failed \subseteq Failure /\ late \subseteq Thread
=============================================================================
