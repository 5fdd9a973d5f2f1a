------------------------------ MODULE Sockets ------------------------------
(***************************************************************************)
(* The sockets of the sender (src/mold/udp_sender.cc) and of the receiver  *)
(* (src/receive/socket_setup.cc, recvfrom_receiver.cc): each is opened and *)
(* configured by one constructor, call by call, any of which may fail, and *)
(* closed by a destructor.  Objects are built and destroyed in threads of  *)
(* their own, and the system gives the number of a closed descriptor to    *)
(* whoever opens one next.                                                 *)
(***************************************************************************)
EXTENDS Integers, Sequences, FiniteSets

CONSTANTS
  Senders, Receivers,   \* the objects
  MaxBuilt              \* times an object may be built

ASSUME SocketsAssumption ==
  /\ Senders \cap Receivers = {} /\ MaxBuilt \in Nat
  /\ IsFiniteSet(Senders) /\ IsFiniteSet(Receivers)

Objects == Senders \cup Receivers

VARIABLES
  table,    \* the open descriptors of the process, as a function to whoever opened each
  object    \* the objects: where each is in its life, and its locals and members

socketVars == <<table, object>>

\* What an object is asked for: a multicast group, a size for the send buffer.
Options == [multicast : BOOLEAN, sndbuf : BOOLEAN]

If(condition, calls) == IF condition THEN calls ELSE << >>

\* The calls after socket(), in their order, up to the first that fails.
SenderCalls(o) ==
  <<"inet_pton">>
    \o If(o.multicast, <<"inet_pton", "IP_MULTICAST_TTL", "IP_MULTICAST_LOOP",
                         "IP_MULTICAST_IF">>)
    \o If(o.sndbuf, <<"SO_SNDBUF">>)

ReceiverCalls(o) ==
  <<"SO_REUSEADDR">>
    \o If(~o.multicast, <<"inet_pton">>) \o <<"bind">>
    \o If(o.multicast, <<"inet_pton", "IP_ADD_MEMBERSHIP">>) \o <<"getsockname">>

Calls(x) == IF x \in Senders THEN SenderCalls(object[x].options)
            ELSE ReceiverCalls(object[x].options)

In(x, states) == object[x].state \in states

-----------------------------------------------------------------------------
SocketsInit ==
  /\ table = [fd \in {} |-> "nobody"]
  /\ object = [x \in Objects |->
                 [state |-> "absent", fd |-> -1, step |-> 0, built |-> 0,
                  options |-> [multicast |-> FALSE, sndbuf |-> FALSE]]]

Lowest == CHOOSE fd \in 0 .. Cardinality(Objects) :
            fd \notin DOMAIN table /\ \A lower \in 0 .. fd - 1 : lower \in DOMAIN table

\* socket(): the system hands out the lowest number that is free, or fails.
Open(x) ==
  /\ In(x, {"absent"}) /\ object[x].built < MaxBuilt
  /\ \E options \in Options :
       object' = [object EXCEPT ![x].state = "configuring", ![x].fd = Lowest, ![x].step = 0,
                                ![x].built = @ + 1, ![x].options = options]
  /\ table' = [fd \in DOMAIN table \cup {Lowest} |-> IF fd = Lowest THEN x ELSE table[fd]]

OpenFails(x) ==
  /\ In(x, {"absent"}) /\ object[x].built < MaxBuilt
  /\ object' = [object EXCEPT ![x].built = @ + 1]
  /\ UNCHANGED table

\* One call succeeds; after the last the object is built.
Configure(x) ==
  /\ In(x, {"configuring"})
  /\ object' = [object EXCEPT
       ![x].step = @ + 1,
       ![x].state = IF object[x].step + 1 = Len(Calls(x)) THEN "live" ELSE @]
  /\ UNCHANGED table

\* A call fails, whichever it is.
ConfigureFails(x) ==
  /\ In(x, {"configuring"})
  /\ object' = [object EXCEPT ![x].state = "failing"]
  /\ UNCHANGED table

\* close() of whatever has the number, whoever opened it.
Close(x) == table' = [fd \in DOMAIN table \ {object[x].fd} |-> table[fd]]

\* Mutant of Throw: the destructor runs as well.
ThrowAndDestroy(x) ==
  /\ In(x, {"failing"}) /\ Close(x)
  /\ object' = [object EXCEPT ![x].state = "live"]

\* The constructor closes what it opened and throws; no destructor runs.
Throw(x) ==
  /\ In(x, {"failing"}) /\ Close(x)
  /\ object' = [object EXCEPT ![x].state = "absent"]

Destroy(x) ==
  /\ In(x, {"live"}) /\ Close(x)
  /\ object' = [object EXCEPT ![x].state = "absent"]

SocketsNext ==
  \E x \in Objects :
    Open(x) \/ OpenFails(x) \/ Configure(x) \/ ConfigureFails(x) \/ Throw(x) \/ Destroy(x)

SocketsSpec == SocketsInit /\ [][SocketsNext]_socketVars

-----------------------------------------------------------------------------
\* Whichever system call fails, a descriptor is closed once: none is leaked, each open one belongs
\* to an object that is alive or on its way and will close it; and none is closed twice, so
\* that what an object sends to, receives from or configures is the socket it opened, and
\* not one that another thread was given under the same number.
EachSocketOneOwner ==
  /\ \A fd \in DOMAIN table : ~In(table[fd], {"absent"}) /\ object[table[fd]].fd = fd
  /\ \A x \in Objects :
       ~In(x, {"absent"}) => object[x].fd \in DOMAIN table /\ table[object[x].fd] = x
=============================================================================
