--------------------------- MODULE SessionsProofs ---------------------------
(***************************************************************************)
(* The invariants of Sessions, for any number of connections.              *)
(***************************************************************************)
EXTENDS Sessions, TLAPS

(* A connection that was not made yet said nothing, and the one in the     *)
(* table said hi.                                                          *)
SaidHi ==
    /\ \A s \in Sockets : state[s] = "unused" => identity[s] = "none"
    /\ clients # 0 => identity[clients] \in {"known", "late"}

(* When the device's last connection took its place in the table after the *)
(* server had finished with all others, it is the only one with a close    *)
(* event or a lookup to come.                                              *)
Alone ==
    ~overtaken /\ opened > 0 =>
       (state[opened] = "open" /\ identity[opened] = "known" =>
           /\ clients = opened
           /\ \A o \in Sockets \ {opened} : ~Unfinished(o))

(* ReachableUnlessOvertaken is not inductive: nothing in it says that no   *)
(* close event of an older connection is to come.                          *)
IInv == TypeOK /\ SaidHi /\ Alone /\ OnlyLateGhosts

(* The state in which the server starts. *)
LEMMA InitIInv ==
  ASSUME SessionsAssumption, Init  PROVE IInv
<1>1. \A s \in Sockets : s \in Nat /\ s > 0
  BY DEF SessionsAssumption, Sockets
<1>2. TypeOK
  <2>1. opened \in 0..MaxSockets /\ clients \in 0..MaxSockets
    BY DEF SessionsAssumption, Init
  <2>2. \A s \in Sockets : state[s] = "unused" /\ s > opened
    BY <1>1 DEF Init
  <2>3. QED  BY <2>1, <2>2 DEF Init, TypeOK
<1>3. SaidHi /\ Alone /\ OnlyLateGhosts
  BY DEF Init, SaidHi, Alone, OnlyLateGhosts
<1>4. QED  BY <1>2, <1>3 DEF IInv

(* The last connection is one of the connections. *)
LEMMA LastIsSocket ==
  ASSUME SessionsAssumption, TypeOK, opened > 0  PROVE opened \in Sockets
  BY DEF SessionsAssumption, TypeOK, Sockets

(* Every step keeps the types. *)
LEMMA TypeNext ==
  ASSUME SessionsAssumption, TypeOK, SaidHi, [Next]_vars  PROVE TypeOK'
<1> USE DEF TypeOK
<1>1. CASE Connect
  <2>1. opened + 1 \in Sockets /\ opened' \in 0..MaxSockets
    BY <1>1 DEF SessionsAssumption, Connect, Sockets
  <2>2. \A s \in Sockets : state'[s] = "unused" <=> s > opened'
    BY <1>1, <2>1 DEF Connect, Sockets, SessionsAssumption
  <2>3. /\ state' \in [Sockets -> {"unused", "open", "gone", "closing", "closed"}]
        /\ alive' \in [Sockets -> BOOLEAN]
    BY <1>1, <2>1 DEF Connect
  <2>4. QED  BY <1>1, <2>1, <2>2, <2>3 DEF Connect
<1>2. ASSUME NEW s \in Sockets,
             Hi(s) \/ Found(s) \/ Pong(s)
      PROVE  TypeOK'
  <2>1. CASE Hi(s) \/ Pong(s)
    BY <2>1 DEF Hi, Pong
  <2>2. CASE Found(s)
    <3>1. clients' \in 0..MaxSockets
      BY <2>2 DEF Found, Sockets, SessionsAssumption
    <3>2. identity' \in [Sockets -> {"none", "asked", "known", "late"}]
      BY <2>2 DEF Found
    <3>3. overtaken' \in BOOLEAN
      BY <2>2, Zenon DEF Found
    <3>4. QED  BY <2>2, <3>1, <3>2, <3>3 DEF Found
  <2>3. QED  BY <1>2, <2>1, <2>2
<1>3. ASSUME NEW s \in Sockets,
             BadMessage(s) \/ NotFound(s) \/ GivenUp(s) \/ Close(s),
             state[s] # "unused"
      PROVE  TypeOK'
  <2>1. state' \in [Sockets -> {"unused", "open", "gone", "closing", "closed"}]
    BY <1>3 DEF BadMessage, NotFound, GivenUp, Close
  <2>2. \A x \in Sockets : state'[x] = "unused" <=> state[x] = "unused"
    BY <1>3 DEF BadMessage, NotFound, GivenUp, Close
  <2>3. QED
    BY <1>3, <2>1, <2>2 DEF BadMessage, NotFound, GivenUp, Close, Sockets,
                            SessionsAssumption
<1>4. CASE Ping
  BY <1>4 DEF Ping, Exists
<1>5. CASE UNCHANGED vars
  BY <1>5 DEF vars
<1>6. ASSUME NEW s \in Sockets,
             BadMessage(s) \/ NotFound(s) \/ GivenUp(s) \/ Close(s)
      PROVE  state[s] # "unused"
  BY <1>6 DEF BadMessage, NotFound, GivenUp, Close, Exists, SaidHi
<1>7. QED
  BY <1>1, <1>2, <1>3, <1>4, <1>5, <1>6 DEF Next

(* Every step keeps what has been said: only a connection that exists says *)
(* hi, and the table changes only when a lookup ends or a connection       *)
(* closes.                                                                 *)
LEMMA SaidHiNext ==
  ASSUME SessionsAssumption, TypeOK, SaidHi, [Next]_vars  PROVE SaidHi'
<1> USE DEF SaidHi, TypeOK
<1>0. clients # 0 => clients \in Sockets
  BY DEF Sockets, SessionsAssumption
<1>1. CASE Connect \/ Ping
  BY <1>1, <1>0 DEF Connect, Ping, Exists
<1>2. ASSUME NEW s \in Sockets,
             Hi(s) \/ BadMessage(s) \/ NotFound(s) \/ GivenUp(s) \/ Pong(s)
      PROVE  SaidHi'
  BY <1>2, <1>0 DEF Hi, BadMessage, NotFound, GivenUp, Pong, Exists
<1>3. ASSUME NEW s \in Sockets, Found(s) \/ Close(s)
      PROVE  SaidHi'
  BY <1>3, <1>0 DEF Found, Close
<1>4. CASE UNCHANGED vars
  BY <1>4 DEF vars
<1>5. QED  BY <1>1, <1>2, <1>3, <1>4 DEF Next

(* Every step keeps Alone.  A lookup that ends for an older connection     *)
(* finds the last one open, so it marks the table overtaken; and the close *)
(* events to come are those of the last connection only.                   *)
LEMMA AloneNext ==
  ASSUME SessionsAssumption, TypeOK, SaidHi, Alone, [Next]_vars  PROVE Alone'
<1> DEFINE Top == state[opened] = "open" /\ identity[opened] = "known"
<1> SUFFICES ASSUME ~overtaken', opened' > 0, Top'
             PROVE  /\ clients' = opened'
                    /\ \A o \in Sockets \ {opened'} : ~Unfinished(o)'
  BY DEF Alone
<1>0. TypeOK' /\ opened' \in Sockets
  BY TypeNext DEF TypeOK, Sockets, SessionsAssumption
<1>1. CASE Connect
  BY <1>0, <1>1 DEF Connect, SaidHi, TypeOK
<1>2. ASSUME NEW s \in Sockets, Found(s)
      PROVE  /\ clients' = opened'
             /\ \A o \in Sockets \ {opened'} : ~Unfinished(o)'
  <2>1. \A o \in Sockets \ {s} : ~Unfinished(o)
    BY <1>2 DEF Found
  <2>2. s = opened
    BY <1>0, <1>2, <2>1 DEF Found, Unfinished
  <2>3. QED  BY <1>2, <2>1, <2>2 DEF Found, Unfinished, TypeOK
<1>3. ASSUME NEW s \in Sockets,
             Hi(s) \/ BadMessage(s) \/ NotFound(s) \/ GivenUp(s)
             \/ Close(s) \/ Pong(s)
      PROVE  /\ clients' = opened'
             /\ \A o \in Sockets \ {opened'} : ~Unfinished(o)'
  <2>1. /\ UNCHANGED <<opened, overtaken>>
        /\ Top
    BY <1>0, <1>3 DEF Hi, BadMessage, NotFound, GivenUp, Close, Pong, TypeOK
  <2>2. /\ clients = opened
        /\ \A o \in Sockets \ {opened} : ~Unfinished(o)
    BY <1>0, <2>1 DEF Alone
  <2>3. s = opened \/ Pong(s)
    BY <1>3, <2>2 DEF Hi, BadMessage, NotFound, GivenUp, Close, Exists,
                      Unfinished
  <2>4. CASE Pong(s)
    BY <2>1, <2>2, <2>4 DEF Pong, Unfinished
  <2>5. CASE s = opened
    BY <1>0, <1>3, <2>1, <2>2, <2>5
       DEF Hi, BadMessage, NotFound, GivenUp, Close, Pong, Unfinished, TypeOK
  <2>6. QED  BY <2>3, <2>4, <2>5
<1>4. CASE Ping
  <2>1. /\ UNCHANGED <<opened, overtaken, clients, identity>>
        /\ Top
    BY <1>0, <1>4 DEF Ping, TypeOK
  <2>2. /\ clients = opened
        /\ \A o \in Sockets \ {opened} : ~Unfinished(o)
    BY <1>0, <2>1 DEF Alone
  <2>3. QED  BY <1>4, <2>1, <2>2 DEF Ping, Unfinished, Exists
<1>5. CASE UNCHANGED vars
  BY <1>0, <1>5 DEF vars, Alone, Unfinished
<1>6. QED
  BY <1>1, <1>2, <1>3, <1>4, <1>5 DEF Next

(* Every step keeps OnlyLateGhosts: the close event of a connection that   *)
(* has an id empties the table.                                            *)
LEMMA GhostsNext ==
  ASSUME SessionsAssumption, TypeOK, SaidHi, OnlyLateGhosts, [Next]_vars
  PROVE  OnlyLateGhosts'
<1> USE DEF OnlyLateGhosts, TypeOK
<1>0. clients # 0 => clients \in Sockets
  BY DEF Sockets, SessionsAssumption
<1>1. CASE Connect \/ Ping
  BY <1>0, <1>1 DEF Connect, Ping, Exists
<1>2. ASSUME NEW s \in Sockets,
             Hi(s) \/ BadMessage(s) \/ NotFound(s) \/ GivenUp(s) \/ Pong(s)
      PROVE  OnlyLateGhosts'
  BY <1>0, <1>2 DEF Hi, BadMessage, NotFound, GivenUp, Pong, SaidHi
<1>3. ASSUME NEW s \in Sockets, Found(s) \/ Close(s)
      PROVE  OnlyLateGhosts'
  BY <1>0, <1>3 DEF Found, Close, SaidHi
<1>4. CASE UNCHANGED vars
  BY <1>4 DEF vars
<1>5. QED  BY <1>1, <1>2, <1>3, <1>4 DEF Next

(* The invariant holds in every state. *)
LEMMA Invariant == Spec => []IInv
<1>1. SessionsAssumption
  BY SessionsAssumption
<1>2. Init => IInv
  BY <1>1, InitIInv
<1>3. IInv /\ [Next]_vars => IInv'
  BY <1>1, TypeNext, SaidHiNext, AloneNext, GhostsNext DEF IInv
<1>4. QED  BY <1>2, <1>3, PTL DEF Spec

(* The table names a connection that was made, or none: whatever lookups,  *)
(* pings and close events do, `state', `alive', `identity' and _clients    *)
(* stay what the handlers take them for.                                   *)
THEOREM TypeCorrect == Spec => []TypeOK
<1>1. IInv => TypeOK
  BY DEF IInv
<1>2. QED  BY <1>1, Invariant, PTL

(* A device whose last connection was registered after the server had      *)
(* finished with the earlier ones is the one that commands are sent to, in *)
(* every order in which lookups, pings and close events come.              *)
THEOREM ReachableWhenNotOvertaken == Spec => []ReachableUnlessOvertaken
<1>1. IInv => ReachableUnlessOvertaken
  BY DEF IInv, Alone, ReachableUnlessOvertaken, Connected
<1>2. QED  BY <1>1, Invariant, PTL

(* _clients names a closed connection only if that connection closed       *)
(* before the database had answered its hi.                                *)
THEOREM GhostsAreLate == Spec => []OnlyLateGhosts
<1>1. IInv => OnlyLateGhosts
  BY DEF IInv
<1>2. QED  BY <1>1, Invariant, PTL
=============================================================================
