---------------------------- MODULE SelectServer ----------------------------
(***************************************************************************)
(* socket/select_server.cpp: one thread that sends back what it receives.  *)
(* select is level-triggered: what is not taken in one round is reported   *)
(* in the next.  A client asks, waits for its answer before it asks again, *)
(* and may go away at any time.  Once select fails the server closes its   *)
(* listening socket and ends.  A failing accept is not looked at: its -1   *)
(* goes to FD_SET.  Fewer than 60 clients are connected at once, so that   *)
(* descriptor 63 is never open, nor any that is too high for an fd_set.    *)
(***************************************************************************)
EXTENDS Integers, Sequences, Functions

CONSTANTS Client, MaxAsked   \* lines that a client sends

MaxAskedAssumption == MaxAsked \in Nat

VARIABLES
  phase,     \* clients: "new", "connected", "asked" or "closed"
  asked,     \* lines a client has sent
  queue,     \* connections that are not accepted yet
  input,     \* clients whose line the server can read
  answered,  \* clients whose answer is on its way
  readSet,   \* connections in read_set
  bad,       \* FD_SET(-1, &read_set) has marked descriptor 63, which is not open
  testSet,   \* those in test_set that the loop over the descriptors has yet to reach
  listening, \* the listening socket is in test_set and not reached yet
  running    \* the server has not ended

clientVars == <<phase, asked>>
vars == <<clientVars, queue, input, answered, readSet, bad, testSet, listening, running>>

Init ==
  /\ phase = [c \in Client |-> "new"] /\ asked = [c \in Client |-> 0] /\ queue = <<>>
  /\ input = {} /\ answered = {} /\ readSet = {} /\ bad = FALSE /\ testSet = {} /\ listening = FALSE
  /\ running = TRUE

Connect(c) ==
  /\ running /\ phase[c] = "new" /\ phase' = [phase EXCEPT ![c] = "connected"]
  /\ queue' = Append(queue, c)
  /\ UNCHANGED <<asked, input, answered, readSet, bad, testSet, listening, running>>

Ask(c) ==
  /\ running /\ phase[c] = "connected" /\ asked[c] < MaxAsked
  /\ phase' = [phase EXCEPT ![c] = "asked"] /\ asked' = [asked EXCEPT ![c] = @ + 1]
  /\ input' = input \cup {c}
  /\ UNCHANGED <<queue, answered, readSet, bad, testSet, listening, running>>

Receive(c) ==
  /\ phase[c] = "asked" /\ c \in answered
  /\ phase' = [phase EXCEPT ![c] = "connected"] /\ answered' = answered \ {c}
  /\ UNCHANGED <<asked, queue, input, readSet, bad, testSet, listening, running>>

Close(c) ==
  /\ phase[c] \in {"connected", "asked"} /\ phase' = [phase EXCEPT ![c] = "closed"]
  /\ answered' = answered \ {c}
  /\ UNCHANGED <<asked, queue, input, readSet, bad, testSet, listening, running>>

-----------------------------------------------------------------------------
Readable == {c \in readSet : c \in input \/ phase[c] = "closed"}
Scanned  == running /\ ~ listening /\ testSet = {}

Select ==
  /\ Scanned /\ ~ bad /\ (queue # <<>> \/ Readable # {})
  /\ testSet' = Readable /\ listening' = (queue # <<>>)
  /\ UNCHANGED <<clientVars, queue, input, answered, readSet, bad, running>>

(* Nothing to read.  What is left of the time out is used up the first     *)
(* time, and select returns at once from then on.                          *)
Timeout == Scanned /\ ~ bad /\ queue = <<>> /\ Readable = {} /\ UNCHANGED vars

(* With the process go its sockets, the connections still waiting too.     *)
End ==
  /\ running' = FALSE /\ queue' = <<>> /\ readSet' = {} /\ testSet' = {} /\ listening' = FALSE
  /\ UNCHANGED <<clientVars, input, answered, bad>>

(* select fails on a descriptor that is not open, and may fail otherwise.  *)
SelectFails == Scanned /\ End

(* The listening socket has the lowest descriptor.  Mutant: the new        *)
(* connection does not get into read_set.                                  *)
Accept_NotSet ==
  /\ listening /\ listening' = FALSE /\ queue' = Tail(queue)
  /\ UNCHANGED <<clientVars, input, answered, readSet, bad, testSet, running>>
Accept ==
  /\ listening /\ listening' = FALSE
  /\ readSet' = readSet \cup {Head(queue)} /\ queue' = Tail(queue)
  /\ UNCHANGED <<clientVars, input, answered, bad, testSet, running>>

(* The connection is lost with the error or goes on waiting.  FD_SET(-1)   *)
(* shifts by -1, which is bit 63, or is caught by a checked build, which   *)
(* ends there.                                                             *)
AcceptFails ==
  /\ listening
  /\ \/ /\ listening' = FALSE /\ bad' = TRUE /\ queue' \in {queue, Tail(queue)}
        /\ UNCHANGED <<clientVars, input, answered, readSet, testSet, running>>
     \/ End

(* Then the others, in the order of the descriptors they happen to have.   *)
Reached(c) == ~ listening /\ c \in testSet /\ testSet' = testSet \ {c}

Echo(c) ==
  /\ Reached(c) /\ c \in input
  /\ input' = input \ {c}
  /\ answered' = IF phase[c] = "closed" THEN answered ELSE answered \cup {c}
  /\ UNCHANGED <<clientVars, queue, readSet, bad, listening, running>>

(* FIONREAD says that there is nothing: the client has closed.             *)
RemoveClient(c) ==
  /\ Reached(c) /\ c \notin input
  /\ readSet' = readSet \ {c}
  /\ UNCHANGED <<clientVars, queue, input, answered, bad, listening, running>>

Ended == ~ running /\ UNCHANGED vars

ServerStep == Select \/ Accept \/ (bad /\ SelectFails) \/ \E c \in Client : Echo(c) \/ RemoveClient(c)
Next ==
  \/ \E c \in Client : Connect(c) \/ Ask(c) \/ Receive(c) \/ Close(c)
  \/ ServerStep \/ AcceptFails \/ SelectFails \/ Timeout \/ Ended

Spec == Init /\ [][Next]_vars
(* The server goes on while it runs; that a call fails is not demanded,    *)
(* but select does fail when it has to.                                    *)
Fairness == WF_vars(ServerStep)

-----------------------------------------------------------------------------
(* Every client that asks is answered or goes away, accepted or not and    *)
(* whatever the others do, and each that goes away is removed, as long as  *)
(* the server runs; and after an accept that failed it ends, so that the   *)
(* client whose connection was lost does not wait for ever.                *)
ClientsAreAnswered ==
  /\ bad ~> ~ running
  /\ \A c \in Client :
       /\ phase[c] = "asked" ~> (phase[c] # "asked" \/ c \in answered \/ ~ running)
       /\ phase[c] = "closed" ~> c \notin readSet

TypeOK ==
  /\ phase \in [Client -> {"new", "connected", "asked", "closed"}]
  /\ asked \in [Client -> 0..MaxAsked] /\ Range(queue) \subseteq Client
  /\ input \cup answered \cup readSet \subseteq Client /\ testSet \subseteq readSet
  /\ listening \in BOOLEAN /\ bad \in BOOLEAN /\ running \in BOOLEAN
=============================================================================
