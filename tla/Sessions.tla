------------------------------ MODULE Sessions ------------------------------
(***************************************************************************)
(* The web application's end of the connections of one device: the         *)
(* websocket handlers and the ping timer of routesWSdevices.js, and the    *)
(* table _clients of devices.js.                                           *)
(*                                                                         *)
(* The connections of the device are numbered in the order in which it     *)
(* makes them; it makes the next one when it has given up the last, which  *)
(* the server may learn late or only from missing pongs.  The server runs  *)
(* one handler at a time; what it starts and waits for (the lookup of the  *)
(* device in the database, the end of a connection) comes back as another  *)
(* action.  What the library ws does with a connection is external.        *)
(***************************************************************************)
EXTENDS Naturals

CONSTANT MaxSockets  \* bound: how many connections the device makes

ASSUME SessionsAssumption == MaxSockets \in Nat \ {0}

Sockets == 1..MaxSockets

VARIABLES
    opened,    \* how many connections the device has made
    state,     \* of each connection: "gone" is one the device gave up,
               \* "closing" one the server gave up
    alive,     \* ws.isAlive
    identity,  \* of each connection: "asked" while its hi is looked up,
               \* "known" when ws.id is set, "late" when it was set on a
               \* connection that had closed meanwhile
    clients,   \* the connection in _clients[id], 0 when there is none
    overtaken  \* history: another connection was not finished when the one
               \* in _clients was put there

vars == <<opened, state, alive, identity, clients, overtaken>>

TypeOK ==
    /\ opened \in 0..MaxSockets
    /\ state \in [Sockets -> {"unused", "open", "gone", "closing", "closed"}]
    /\ \A s \in Sockets : state[s] = "unused" <=> s > opened
    /\ alive \in [Sockets -> BOOLEAN]
    /\ identity \in [Sockets -> {"none", "asked", "known", "late"}]
    /\ clients \in 0..MaxSockets
    /\ overtaken \in BOOLEAN

Exists(s) == state[s] \in {"open", "gone"}

Unfinished(s) == state[s] \notin {"unused", "closed"} \/ identity[s] = "asked"

(* The device connects: app.ws runs. *)
Connect ==
    /\ opened < MaxSockets
    /\ opened > 0 => state[opened] # "open"
    /\ opened' = opened + 1
    /\ state' = [state EXCEPT ![opened + 1] = "open"]
    /\ alive' = [alive EXCEPT ![opened + 1] = TRUE]
    /\ UNCHANGED <<identity, clients, overtaken>>

(* The first message: devices.add looks the device up. *)
Hi(s) ==
    /\ Exists(s)
    /\ identity[s] = "none"
    /\ identity' = [identity EXCEPT ![s] = "asked"]
    /\ UNCHANGED <<opened, state, alive, clients, overtaken>>

(* A message that is not JSON, or a hi without an id: ws.close(). *)
BadMessage(s) ==
    /\ Exists(s)
    /\ state' = [state EXCEPT ![s] = "closing"]
    /\ UNCHANGED <<opened, alive, identity, clients, overtaken>>

(* Mutant: the connection that is in the table stays there. *)
FoundKeepsOld(s) ==
    /\ identity[s] = "asked"
    /\ identity' = [identity EXCEPT ![s] =
                       IF state[s] = "closed" THEN "late" ELSE "known"]
    /\ clients' = IF clients = 0 THEN s ELSE clients
    /\ overtaken' = \E o \in Sockets \ {s} : Unfinished(o)
    /\ UNCHANGED <<opened, state, alive>>

(* The lookup returns the device: nobody asks whether the connection is    *)
(* still there.                                                            *)
Found(s) ==
    /\ identity[s] = "asked"
    /\ identity' = [identity EXCEPT ![s] =
                       IF state[s] = "closed" THEN "late" ELSE "known"]
    /\ clients' = s
    /\ overtaken' = \E o \in Sockets \ {s} : Unfinished(o)
    /\ UNCHANGED <<opened, state, alive>>

NotFound(s) ==
    /\ identity[s] = "asked"
    /\ identity' = [identity EXCEPT ![s] = "none"]
    /\ state' = [state EXCEPT ![s] = IF @ = "closed" THEN @ ELSE "closing"]
    /\ UNCHANGED <<opened, alive, clients, overtaken>>

(* The device loses or leaves its connection. *)
GivenUp(s) ==
    /\ state[s] = "open"
    /\ state' = [state EXCEPT ![s] = "gone"]
    /\ UNCHANGED <<opened, alive, identity, clients, overtaken>>

(* Mutant: the entry stays. *)
CloseKeepsEntry(s) ==
    /\ state[s] \in {"gone", "closing"}
    /\ state' = [state EXCEPT ![s] = "closed"]
    /\ UNCHANGED <<opened, alive, identity, clients, overtaken>>

(* The close event: devices.remove when the connection has an id. *)
Close(s) ==
    /\ state[s] \in {"gone", "closing"}
    /\ state' = [state EXCEPT ![s] = "closed"]
    /\ clients' = IF identity[s] = "known" THEN 0 ELSE clients
    /\ UNCHANGED <<opened, alive, identity, overtaken>>

(* Mutant: the round forgets to clear isAlive. *)
PingForgets ==
    /\ \E s \in Sockets : Exists(s) /\ ~alive[s]
    /\ state' = [s \in Sockets |->
                    IF Exists(s) /\ ~alive[s] THEN "closing" ELSE state[s]]
    /\ UNCHANGED <<opened, alive, identity, clients, overtaken>>

(* The timer: terminate the connections that have not answered since the   *)
(* last round, ping the others.                                            *)
Ping ==
    /\ \E s \in Sockets : Exists(s)
    /\ state' = [s \in Sockets |->
                    IF Exists(s) /\ ~alive[s] THEN "closing" ELSE state[s]]
    /\ alive' = [s \in Sockets |-> alive[s] /\ ~Exists(s)]
    /\ UNCHANGED <<opened, identity, clients, overtaken>>

Pong(s) ==
    /\ state[s] = "open" /\ ~alive[s]
    /\ alive' = [alive EXCEPT ![s] = TRUE]
    /\ UNCHANGED <<opened, state, identity, clients, overtaken>>

Init ==
    /\ opened = 0
    /\ state = [s \in Sockets |-> "unused"]
    /\ alive = [s \in Sockets |-> FALSE]
    /\ identity = [s \in Sockets |-> "none"]
    /\ clients = 0
    /\ overtaken = FALSE

Next ==
    \/ Connect
    \/ \E s \in Sockets :
          \/ Hi(s) \/ BadMessage(s) \/ Found(s) \/ NotFound(s)
          \/ GivenUp(s) \/ Close(s) \/ Pong(s)
    \/ Ping

(***************************************************************************)
(* The interval runs, the database answers, and a connection that the      *)
(* server closes or terminates emits its close event.                      *)
(***************************************************************************)
Fairness ==
    /\ WF_vars(Ping)
    /\ \A s \in Sockets :
          /\ WF_vars(Found(s) \/ NotFound(s))
          /\ WF_vars(state[s] = "closing" /\ Close(s))

Spec == Init /\ [][Next]_vars /\ Fairness
-----------------------------------------------------------------------------
(* The device has a connection that said hi, and nothing is under way. *)
Connected ==
    /\ opened > 0
    /\ state[opened] = "open" /\ identity[opened] = "known"
    /\ \A s \in Sockets : state[s] # "closing" /\ identity[s] # "asked"

(***************************************************************************)
(* A connected device is the one that commands are sent to, provided that  *)
(* the server had finished with its earlier connections when it registered *)
(* this one.                                                               *)
(***************************************************************************)
ReachableUnlessOvertaken == Connected /\ ~overtaken => clients = opened

(***************************************************************************)
(* The same without the proviso: the system is there to "remotely and      *)
(* automatically control electrical devices" (README), and the page of a   *)
(* device says whether it is connected.                                    *)
(***************************************************************************)
Reachable == Connected => clients = opened

(***************************************************************************)
(* A command is sent to a closed connection, where ws throws, only if that *)
(* connection closed while its hi was being looked up.                     *)
(***************************************************************************)
OnlyLateGhosts ==
    clients # 0 => state[clients] # "closed" \/ identity[clients] = "late"

(***************************************************************************)
(* A connection that the device has given up does not stay for ever, even  *)
(* when the network never says so: two rounds of pings end it.             *)
(***************************************************************************)
GivenUpIsReaped ==
    \A s \in Sockets : state[s] = "gone" ~> state[s] = "closed"
=============================================================================
