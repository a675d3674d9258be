----------------------------- MODULE RelayProofs -----------------------------
(***************************************************************************)
(* Theorems about Relay, for every length of the timers and every bound:   *)
(* type correctness, TimerIsOfLastCommand and ViewIsTrue; and for keys that*)
(* are held longer than they bounce and are checked, OnePressOneCall.      *)
(***************************************************************************)
EXTENDS Relay, SequenceTheorems, TLAPS

(***************************************************************************)
(* What makes ViewIsTrue inductive: on the device's connection the last    *)
(* message on its way tells the state the relay is in, a connection that   *)
(* is closed carries nothing, and what is known was brought by a           *)
(* connection and stands in an entry.                                      *)
(***************************************************************************)
ReportsAreInOrder ==
    /\ link # NoLink /\ toServer[link] # <<>> => toServer[link][Len(toServer[link])] = relay
    /\ \A c \in Links : app[c] = "closed" => toServer[c] = <<>>
    /\ view # "unknown" => reporter \in Links /\ entry # NoLink

IInv == TypeOK /\ TimerIsOfLastCommand /\ ReportsAreInOrder /\ ViewIsTrue

-----------------------------------------------------------------------------
(* What the variables of the relay, of the connection and of the keys are, *)
(* apart: most actions disturb only one of them.                           *)
PortTypeOK ==
    /\ relay \in BOOLEAN /\ timer \in BOOLEAN /\ config \in BOOLEAN
    /\ lastCommand \in {"on", "off", "timed", "expired"}
    /\ pages \in {"never started", "served", "hidden"}

NetworkTypeOK ==
    /\ link \in Links \cup {NoLink}
    /\ app \in [Links -> {"closed", "open", "registered"}]
    /\ toServer \in [Links -> Seq(BOOLEAN)]
    /\ \A c \in Links : Len(toServer[c]) <= MaxFrames
    /\ entry \in Links \cup {NoLink} /\ reporter \in Links \cup {NoLink}
    /\ view \in {"unknown", "on", "off"}

KeysTypeOK ==
    /\ finger \in [Keys -> {"up", "down"}]
    /\ held \in [Keys -> 0..MinHold]
    /\ bounce \in [Keys -> 0..Bounce]
    /\ pin \in [Keys -> 0..1]
    /\ status \in [Keys -> BOOLEAN]
    /\ edge \in [Keys -> {"falling", "rising", "disabled"}]
    /\ keyLevel \in [Keys -> 0..1]
    /\ key50ms \in [Keys -> 0..Debounce]
    /\ owed \in [Keys -> Int]

Reports == TimerIsOfLastCommand /\ ReportsAreInOrder /\ ViewIsTrue

LEMMA Parts == IInv <=> PortTypeOK /\ NetworkTypeOK /\ KeysTypeOK /\ Reports
  BY DEF IInv, TypeOK, PortTypeOK, NetworkTypeOK, KeysTypeOK, Reports

LEMMA PartsNext ==
  IInv' <=> PortTypeOK' /\ NetworkTypeOK' /\ KeysTypeOK' /\ Reports'
  BY DEF IInv, TypeOK, PortTypeOK, NetworkTypeOK, KeysTypeOK, Reports

LEMMA InitInv == Init => IInv
<1> SUFFICES ASSUME Init PROVE IInv
  OBVIOUS
<1> USE DEF Init
<1>1. PortTypeOK BY DEF PortTypeOK
<1>2. NetworkTypeOK
  <2> HIDE DEF Init
  <2>1. /\ link = NoLink /\ entry = NoLink /\ reporter = NoLink /\ view = "unknown"
        /\ app = [c \in Links |-> "closed"] /\ toServer = [c \in Links |-> <<>>]
    BY DEF Init, KeyInit
  <2>2. <<>> \in Seq(BOOLEAN) /\ Len(<<>>) = 0
    BY EmptySeq
  <2>3. 0 <= MaxFrames
    BY RelayAssumption DEF RelayAssumption
  <2> QED BY <2>1, <2>2, <2>3 DEF NetworkTypeOK
<1>3. KeysTypeOK
  <2> HIDE DEF Init
  <2>1. 0 \in 0..Bounce /\ 0 \in 0..Debounce /\ MinHold \in 0..MinHold
    BY RelayAssumption DEF RelayAssumption
  <2>2. 0 \in 0..1 /\ 1 \in 0..1 /\ 0 \in Int
    OBVIOUS
  <2> QED BY Zenon, <2>1, <2>2 DEF KeysTypeOK, Init, KeyInit
<1>4. Reports
  BY DEF Reports, TimerIsOfLastCommand, ReportsAreInOrder, ViewIsTrue
<1> QED BY <1>1, <1>2, <1>3, <1>4, Parts

(* Sending a state and receiving one, as far as the queue is concerned.    *)
LEMMA AppendLast ==
  ASSUME NEW s \in Seq(BOOLEAN), NEW b \in BOOLEAN
  PROVE  /\ Append(s, b) \in Seq(BOOLEAN)
         /\ Len(Append(s, b)) = Len(s) + 1
         /\ Append(s, b) # <<>>
         /\ Append(s, b)[Len(Append(s, b))] = b
  OBVIOUS

LEMMA TailLast ==
  ASSUME NEW s \in Seq(BOOLEAN), s # <<>>
  PROVE  /\ Tail(s) \in Seq(BOOLEAN)
         /\ Len(Tail(s)) <= Len(s)
         /\ Head(s) \in BOOLEAN
         /\ Tail(s) = <<>> => Head(s) = s[Len(s)]
         /\ Tail(s) # <<>> => Tail(s)[Len(Tail(s))] = s[Len(s)]
<1>1. /\ Len(s) \in Nat \ {0} /\ Head(s) \in BOOLEAN
      /\ Tail(s) \in Seq(BOOLEAN) /\ Len(Tail(s)) = Len(s) - 1
      /\ \A i \in 1..Len(Tail(s)) : Tail(s)[i] = s[i + 1]
  BY HeadTailProperties, EmptySeq
<1>2. Head(s) = s[1]
  OBVIOUS
<1>3. Tail(s) = <<>> => Len(s) = 1
  <2>1. Len(<<>>) = 0
    BY EmptySeq
  <2> QED BY <1>1, <2>1
<1>4. Tail(s) # <<>> => Len(Tail(s)) \in Nat \ {0}
  BY <1>1, EmptySeq
<1> QED BY <1>1, <1>2, <1>3, <1>4

(***************************************************************************)
(* Every way to set the relay keeps what is known of it.                   *)
(***************************************************************************)
LEMMA SetKeeps ==
  ASSUME PortTypeOK, NetworkTypeOK, Reports,
         NEW enable \in BOOLEAN, OnChange(enable), relay' = enable
  PROVE  NetworkTypeOK' /\ ReportsAreInOrder' /\ ViewIsTrue'
<1>1. UNCHANGED <<link, app, entry, view, reporter>>
  BY DEF OnChange, table
<1>2. link # NoLink => link \in Links
  BY DEF NetworkTypeOK
<1>3. CASE link = NoLink \/ app[link] = "closed"
  <2>1. toServer' = toServer
    BY <1>3 DEF OnChange, WsWorkerSendState, WebsocketClientSend
  <2>2. link # NoLink /\ view # "unknown" => reporter # link
    BY <1>2, <1>3 DEF Reports, ReportsAreInOrder, ViewIsTrue
  <2>3. link # NoLink => toServer[link] = <<>>
    BY <1>2, <1>3 DEF Reports, ReportsAreInOrder
  <2> QED BY <1>1, <1>2, <1>3, <2>1, <2>2, <2>3, RelayAssumption
          DEF RelayAssumption, NetworkTypeOK, Reports, ReportsAreInOrder, ViewIsTrue
<1>4. CASE link # NoLink /\ app[link] # "closed"
  <2>1. /\ toServer' = [toServer EXCEPT ![link] = Append(@, enable)]
        /\ Len(toServer[link]) < MaxFrames
    BY <1>4 DEF OnChange, WsWorkerSendState, WebsocketClientSend
  <2>2. /\ toServer[link] \in Seq(BOOLEAN)
        /\ toServer'[link] = Append(toServer[link], enable)
        /\ \A c \in Links : c # link => toServer'[c] = toServer[c]
    BY <1>2, <1>4, <2>1 DEF NetworkTypeOK
  <2>3. /\ toServer'[link] \in Seq(BOOLEAN)
        /\ Len(toServer'[link]) = Len(toServer[link]) + 1
        /\ toServer'[link] # <<>>
        /\ toServer'[link][Len(toServer'[link])] = enable
    BY <2>2, AppendLast
  <2>4. toServer' \in [Links -> Seq(BOOLEAN)]
    BY <1>2, <1>4, <2>1, <2>2, <2>3 DEF NetworkTypeOK
  <2>5. \A c \in Links : Len(toServer'[c]) <= MaxFrames
    <3>1. Len(toServer'[link]) <= MaxFrames
      BY <2>1, <2>2, <2>3, LenProperties, RelayAssumption DEF RelayAssumption
    <3> QED BY <2>2, <3>1 DEF NetworkTypeOK
  <2>6. NetworkTypeOK'
    BY <1>1, <2>4, <2>5 DEF NetworkTypeOK
  <2>7. ReportsAreInOrder' /\ ViewIsTrue'
    BY <1>1, <1>4, <2>2, <2>3 DEF Reports, ReportsAreInOrder, ViewIsTrue
  <2> QED BY <2>6, <2>7
<1> QED BY <1>3, <1>4

LEMMA PortWorkerSetKeeps ==
  ASSUME PortTypeOK, NetworkTypeOK, Reports,
         NEW enable \in BOOLEAN,
         NEW command \in {"on", "off", "expired"},
         enable <=> command = "on",
         PortWorkerSet(enable, command)
  PROVE  /\ NetworkTypeOK' /\ Reports'
         /\ relay' \in BOOLEAN /\ timer' \in BOOLEAN
         /\ lastCommand' \in {"on", "off", "timed", "expired"}
<1>1. NetworkTypeOK' /\ ReportsAreInOrder' /\ ViewIsTrue'
  BY SetKeeps DEF PortWorkerSet
<1>2. TimerIsOfLastCommand'
  BY DEF PortWorkerSet, TimerIsOfLastCommand
<1> QED BY <1>1, <1>2 DEF PortWorkerSet, Reports

(* The connections come and go; the relay stays as it is.                  *)
LEMMA ConnectKeeps ==
  ASSUME NetworkTypeOK, ReportsAreInOrder, ViewIsTrue, relay' = relay,
         NEW c \in Links, Connect(c)
  PROVE  NetworkTypeOK' /\ ReportsAreInOrder' /\ ViewIsTrue'
<1>1. /\ link' = c /\ app' = [app EXCEPT ![c] = "open"] /\ app[c] = "closed"
      /\ UNCHANGED <<toServer, entry, view, reporter>>
  BY DEF Connect, table
<1>2. toServer[c] = <<>>
  BY <1>1 DEF ReportsAreInOrder
<1>3. view # "unknown" => reporter \in Links /\ reporter # c
  BY <1>1 DEF ReportsAreInOrder, ViewIsTrue
<1> QED BY <1>1, <1>2, <1>3 DEF NetworkTypeOK, ReportsAreInOrder, ViewIsTrue

LEMMA RegisterKeeps ==
  ASSUME NetworkTypeOK, ReportsAreInOrder, ViewIsTrue, relay' = relay,
         NEW c \in Links, Register(c)
  PROVE  NetworkTypeOK' /\ ReportsAreInOrder' /\ ViewIsTrue'
<1>1. /\ app' = [app EXCEPT ![c] = "registered"] /\ app[c] = "open"
      /\ entry' = c /\ view' = "unknown" /\ reporter' = NoLink
      /\ UNCHANGED <<link, toServer>>
  BY DEF Register
<1> QED BY <1>1 DEF NetworkTypeOK, ReportsAreInOrder, ViewIsTrue

LEMMA CloseKeeps ==
  ASSUME NetworkTypeOK, ReportsAreInOrder, ViewIsTrue, relay' = relay,
         NEW c \in Links, Close(c)
  PROVE  NetworkTypeOK' /\ ReportsAreInOrder' /\ ViewIsTrue'
<1>1. /\ app' = [app EXCEPT ![c] = "closed"]
      /\ toServer' = [toServer EXCEPT ![c] = <<>>]
      /\ link' = link
  BY DEF Close
<1>2. \/ entry' = NoLink /\ view' = "unknown" /\ reporter' = NoLink
      \/ app[c] = "open" /\ UNCHANGED <<entry, view, reporter>>
  BY DEF Close, Remove, table
<1>3. <<>> \in Seq(BOOLEAN) /\ Len(<<>>) = 0 /\ 0 <= MaxFrames
  BY EmptySeq, RelayAssumption DEF RelayAssumption
<1>4. NetworkTypeOK'
  <2>1. toServer' \in [Links -> Seq(BOOLEAN)] /\ \A d \in Links : Len(toServer'[d]) <= MaxFrames
    BY <1>1, <1>3 DEF NetworkTypeOK
  <2> QED BY <1>1, <1>2, <2>1 DEF NetworkTypeOK
<1>5. ReportsAreInOrder'
  BY <1>1, <1>2 DEF NetworkTypeOK, ReportsAreInOrder
<1>6. ViewIsTrue'
  <2>1. view' # "unknown" => /\ reporter \in Links /\ reporter # c
                             /\ UNCHANGED <<entry, view, reporter>>
    BY <1>2 DEF ReportsAreInOrder, ViewIsTrue
  <2> QED BY <1>1, <2>1 DEF NetworkTypeOK, ViewIsTrue
<1> QED BY <1>4, <1>5, <1>6

(* On the device's connection the last message to arrive tells the truth.  *)
LEMMA UpdateStateKeeps ==
  ASSUME NetworkTypeOK, ReportsAreInOrder, ViewIsTrue, relay' = relay,
         NEW c \in Links, UpdateState(c)
  PROVE  NetworkTypeOK' /\ ReportsAreInOrder' /\ ViewIsTrue'
<1>1. /\ toServer[c] # <<>> /\ toServer' = [toServer EXCEPT ![c] = Tail(@)]
      /\ UNCHANGED <<link, app, entry>>
      /\ app[c] # "closed"
  BY DEF UpdateState, ReportsAreInOrder
<1>2. /\ toServer[c] \in Seq(BOOLEAN) /\ toServer'[c] = Tail(toServer[c])
      /\ \A d \in Links : d # c => toServer'[d] = toServer[d]
  BY <1>1 DEF NetworkTypeOK
<1>3. /\ toServer'[c] \in Seq(BOOLEAN) /\ Len(toServer'[c]) <= Len(toServer[c])
      /\ toServer'[c] = <<>> => Head(toServer[c]) = toServer[c][Len(toServer[c])]
      /\ toServer'[c] # <<>> => toServer'[c][Len(toServer'[c])] = toServer[c][Len(toServer[c])]
  BY <1>1, <1>2, TailLast
<1>4. toServer' \in [Links -> Seq(BOOLEAN)] /\ \A d \in Links : Len(toServer'[d]) <= MaxFrames
  <2>1. toServer' \in [Links -> Seq(BOOLEAN)]
    BY <1>1, <1>2, <1>3 DEF NetworkTypeOK
  <2>2. Len(toServer'[c]) <= MaxFrames
    <3>1. Len(toServer[c]) \in Nat /\ Len(toServer'[c]) \in Nat /\ Len(toServer[c]) <= MaxFrames
      BY <1>2, <1>3, LenProperties DEF NetworkTypeOK
    <3> QED BY <1>3, <3>1, RelayAssumption DEF RelayAssumption
  <2> QED BY <1>2, <2>1, <2>2 DEF NetworkTypeOK
<1>5. CASE app[c] = "registered" /\ entry # NoLink
  <2>1. view' = (IF Head(toServer[c]) THEN "on" ELSE "off") /\ reporter' = c
    BY <1>5 DEF UpdateState
  <2>2. NetworkTypeOK'
    BY <1>1, <1>4, <2>1 DEF NetworkTypeOK
  <2>3. ReportsAreInOrder'
    BY <1>1, <1>2, <1>3, <1>5, <2>1 DEF NetworkTypeOK, ReportsAreInOrder
  <2>4. ViewIsTrue'
    <3>1. c = link /\ toServer'[c] = <<>> => Head(toServer[c]) = relay
      BY <1>1, <1>3, RelayAssumption DEF ReportsAreInOrder, RelayAssumption
    <3> QED BY <1>1, <1>5, <2>1, <3>1 DEF ViewIsTrue
  <2> QED BY <2>2, <2>3, <2>4
<1>6. CASE ~(app[c] = "registered" /\ entry # NoLink)
  <2>1. UNCHANGED <<view, reporter>>
    BY <1>6 DEF UpdateState
  <2>2. NetworkTypeOK'
    BY <1>1, <1>4, <2>1 DEF NetworkTypeOK
  <2>3. ReportsAreInOrder'
    BY <1>1, <1>2, <1>3, <2>1 DEF NetworkTypeOK, ReportsAreInOrder
  <2>4. view # "unknown" => reporter \in Links /\ reporter # c
    BY <1>6 DEF ReportsAreInOrder, ViewIsTrue
  <2>5. ViewIsTrue'
    BY <1>1, <1>2, <2>1, <2>4 DEF ViewIsTrue
  <2> QED BY <2>2, <2>3, <2>5
<1> QED BY <1>5, <1>6

-----------------------------------------------------------------------------
LEMMA NextKeeps == IInv /\ [Next]_vars => IInv'
<1> SUFFICES ASSUME PortTypeOK, NetworkTypeOK, KeysTypeOK, Reports, [Next]_vars
             PROVE  PortTypeOK' /\ NetworkTypeOK' /\ KeysTypeOK' /\ Reports'
  BY Parts, PartsNext
<1> USE RelayAssumption DEF RelayAssumption
<1> DEFINE
      SameKeys == UNCHANGED <<contacts, status, driver, owed>>
      SameRelay == UNCHANGED <<port, config, pages, network>>
<1>a. ASSUME SameKeys PROVE KeysTypeOK'
  BY <1>a DEF KeysTypeOK, contacts, driver
<1>b. ASSUME SameRelay PROVE PortTypeOK' /\ NetworkTypeOK' /\ Reports'
  BY <1>b DEF PortTypeOK, NetworkTypeOK, Reports, TimerIsOfLastCommand,
              ReportsAreInOrder, ViewIsTrue, port, network, table
<1>1. CASE TimerTimeEnd
  <2>1. PortWorkerSet(FALSE, "expired") /\ UNCHANGED <<config, pages>> /\ SameKeys
    BY <1>1 DEF TimerTimeEnd
  <2> QED BY <2>1, <1>a, PortWorkerSetKeeps DEF PortTypeOK
<1>2. ASSUME NEW json, LetMessage(json)
      PROVE  PortTypeOK' /\ NetworkTypeOK' /\ KeysTypeOK' /\ Reports'
  <2>1. UNCHANGED <<config, pages>> /\ SameKeys
    BY <1>2 DEF LetMessage
  <2>2. CASE PortWorkerEnableToTime
    <3>1. NetworkTypeOK' /\ ReportsAreInOrder' /\ ViewIsTrue'
      BY <2>2, SetKeeps DEF PortWorkerEnableToTime
    <3>2. PortTypeOK' /\ TimerIsOfLastCommand'
      BY <2>2, <2>1 DEF PortWorkerEnableToTime, PortTypeOK, TimerIsOfLastCommand
    <3> QED BY <3>1, <3>2, <2>1, <1>a DEF Reports
  <2>3. CASE PortWorkerSet(TRUE, "on") \/ PortWorkerSet(FALSE, "off")
    BY <2>1, <2>3, <1>a, PortWorkerSetKeeps DEF PortTypeOK
  <2> QED BY <1>2, <2>2, <2>3 DEF LetMessage
<1>3. ASSUME NEW c \in Links, Connect(c) \/ Register(c) \/ Close(c) \/ UpdateState(c)
      PROVE  PortTypeOK' /\ NetworkTypeOK' /\ KeysTypeOK' /\ Reports'
  <2>1. SameKeys /\ UNCHANGED <<port, config, pages>>
    BY <1>3 DEF Connect, Register, Close, UpdateState
  <2>2. PortTypeOK' /\ TimerIsOfLastCommand'
    BY <2>1 DEF port, PortTypeOK, Reports, TimerIsOfLastCommand
  <2>3. relay' = relay
    BY <2>1 DEF port
  <2>4. NetworkTypeOK' /\ ReportsAreInOrder' /\ ViewIsTrue'
    <3>1. ReportsAreInOrder /\ ViewIsTrue
      BY DEF Reports
    <3>2. CASE Connect(c)
      BY <2>3, <3>1, <3>2, ConnectKeeps
    <3>3. CASE Register(c)
      BY <2>3, <3>1, <3>3, RegisterKeeps
    <3>4. CASE Close(c)
      BY <2>3, <3>1, <3>4, CloseKeeps
    <3>5. CASE UpdateState(c)
      BY <2>3, <3>1, <3>5, UpdateStateKeeps
    <3> QED BY <1>3, <3>2, <3>3, <3>4, <3>5
  <2> QED BY <2>1, <2>2, <2>4, <1>a DEF Reports
<1>4. CASE LinkLost
  <2>1. SameKeys /\ UNCHANGED <<port, config, pages, app, toServer, table>> /\ link' = NoLink
    BY <1>4 DEF LinkLost
  <2>2. PortTypeOK' /\ TimerIsOfLastCommand'
    BY <2>1 DEF port, PortTypeOK, Reports, TimerIsOfLastCommand
  <2>3. NetworkTypeOK' /\ ReportsAreInOrder' /\ ViewIsTrue'
    BY <2>1 DEF table, NetworkTypeOK, Reports, ReportsAreInOrder, ViewIsTrue
  <2> QED BY <2>1, <2>2, <2>3, <1>a DEF Reports
<1>5. ASSUME NEW k \in Keys, PinMoves(k)
      PROVE  PortTypeOK' /\ NetworkTypeOK' /\ KeysTypeOK' /\ Reports'
  <2>1. SameRelay BY <1>5 DEF PinMoves
  <2>2. KeysTypeOK' BY <1>5 DEF PinMoves, KeysTypeOK, driver
  <2> QED BY <2>1, <2>2, <1>b
<1>6. ASSUME NEW k \in Keys, FingerMoves(k)
      PROVE  PortTypeOK' /\ NetworkTypeOK' /\ KeysTypeOK' /\ Reports'
  <2>1. SameRelay BY <1>6 DEF FingerMoves
  <2>2. KeysTypeOK' BY <1>6 DEF FingerMoves, KeysTypeOK, driver
  <2> QED BY <2>1, <2>2, <1>b
<1>7. ASSUME NEW k \in Keys, Key50ms(k)
      PROVE  PortTypeOK' /\ NetworkTypeOK' /\ KeysTypeOK' /\ Reports'
  <2>1. KeysTypeOK'
    BY <1>7 DEF Key50ms, KeysTypeOK, contacts
  <2>2. CASE RelShortPress
    <3>1. /\ PortWorkerSet(~relay, IF relay THEN "off" ELSE "on")
          /\ UNCHANGED <<config, pages>>
      BY <2>2 DEF RelShortPress, PortWorkerToggle, PortWorkerGet
    <3>2. /\ (~relay) \in BOOLEAN
          /\ (IF relay THEN "off" ELSE "on") \in {"on", "off", "expired"}
          /\ (~relay) <=> (IF relay THEN "off" ELSE "on") = "on"
      BY DEF PortTypeOK
    <3>3. /\ NetworkTypeOK' /\ Reports'
          /\ relay' \in BOOLEAN /\ timer' \in BOOLEAN
          /\ lastCommand' \in {"on", "off", "timed", "expired"}
      BY <3>1, <3>2, PortWorkerSetKeeps
    <3> QED BY <2>1, <3>1, <3>3 DEF PortTypeOK
  <2>3. CASE ConfigShortPress
    <3>1. PortTypeOK'
      BY <2>3 DEF ConfigShortPress, WebserverStart, WebserverStop, PortTypeOK, port
    <3>2. NetworkTypeOK' /\ Reports'
      BY <2>3 DEF ConfigShortPress, port, network, table, NetworkTypeOK, Reports,
                  TimerIsOfLastCommand, ReportsAreInOrder, ViewIsTrue
    <3> QED BY <2>1, <3>1, <3>2
  <2>4. CASE SameRelay
    BY <2>1, <2>4, <1>b
  <2> QED BY <1>7, <2>2, <2>3, <2>4 DEF Key50ms
<1>8. CASE KeyIntrHandler
  <2>1. SameRelay BY <1>8 DEF KeyIntrHandler
  <2>2. KeysTypeOK' BY <1>8 DEF KeyIntrHandler, KeysTypeOK, contacts
  <2> QED BY <2>1, <2>2, <1>b
<1>9. CASE Tick
  <2>1. SameRelay BY <1>9 DEF Tick
  <2>2. KeysTypeOK' BY <1>9 DEF Tick, KeysTypeOK
  <2> QED BY <2>1, <2>2, <1>b
<1>10. CASE UNCHANGED vars
  <2>1. SameRelay /\ SameKeys BY <1>10 DEF vars
  <2> QED BY <2>1, <1>a, <1>b
<1> QED
  BY <1>1, <1>2, <1>3, <1>4, <1>5, <1>6, <1>7, <1>8, <1>9, <1>10 DEF Next

LEMMA Invariance == Spec => []IInv
  BY InitInv, NextKeeps, PTL DEF Spec

(* Every variable keeps its type, whatever the lengths of the timers.      *)
THEOREM TypeCorrect == Spec => []TypeOK
<1>1. IInv => TypeOK BY DEF IInv
<1> QED BY <1>1, Invariance, PTL

(* The timer that is armed is always that of the last command.             *)
THEOREM NoOldTimer == Spec => []TimerIsOfLastCommand
<1>1. IInv => TimerIsOfLastCommand BY DEF IInv
<1> QED BY <1>1, Invariance, PTL

(* However the two ends lose their connections, and in whatever order the  *)
(* messages of several connections arrive, what the application holds for  *)
(* the relay's state is of a connection it has not closed, and it is true  *)
(* if that is the device's connection and nothing more is on its way.      *)
THEOREM NoFalseReport == Spec => []ViewIsTrue
<1>1. IInv => ViewIsTrue BY DEF IInv
<1> QED BY <1>1, Invariance, PTL
-----------------------------------------------------------------------------
(***************************************************************************)
(* The life of a key from one press to the next: where the finger is, what *)
(* the driver waits for and what it owes.  The contacts are at rest where  *)
(* the finger is once they have stopped to bounce, and a check by the 50 ms*)
(* timer, once begun, ends after the bouncing and before the finger moves. *)
(***************************************************************************)
Rest(k) ==
    /\ bounce[k] = 0 => pin[k] = Level(finger[k]) /\ ~status[k]
    /\ bounce[k] > 0 => held[k] + bounce[k] = Bounce

Untouched(k) ==
    /\ finger[k] = "up" /\ owed[k] = 0 /\ bounce[k] = 0
    /\ edge[k] = "falling" /\ keyLevel[k] = 1 /\ key50ms[k] = 0
PressBegun(k) ==
    /\ finger[k] = "down" /\ owed[k] = 1 /\ bounce[k] > 0
    /\ edge[k] = "falling" /\ keyLevel[k] = 1 /\ key50ms[k] = 0
    /\ status[k] \/ pin[k] = 1
Pressed(k) ==
    /\ finger[k] = "down" /\ owed[k] = 1
    /\ edge[k] = "rising" /\ keyLevel[k] = 0 /\ key50ms[k] = 0
ReleaseBegun(k) ==
    /\ finger[k] = "up" /\ owed[k] = 1 /\ bounce[k] > 0
    /\ edge[k] = "rising" /\ keyLevel[k] = 0 /\ key50ms[k] = 0
    /\ status[k] \/ pin[k] = 0
Checked(k) ==
    /\ owed[k] = 1 /\ ~status[k]
    /\ edge[k] = "disabled" /\ keyLevel[k] = 0 /\ key50ms[k] > 0
    /\ bounce[k] < key50ms[k]
    /\ held[k] + key50ms[k] < Bounce + Debounce

KeyLife(k) ==
    /\ Rest(k)
    /\ Untouched(k) \/ PressBegun(k) \/ Pressed(k) \/ ReleaseBegun(k) \/ Checked(k)

LongHold == Bounce < Debounce /\ Bounce + Debounce <= MinHold + 1

(* A key of which nothing changes stays where it is in its life. *)
LEMMA SameKeyLife ==
  ASSUME NEW k \in Keys, KeyLife(k),
         finger'[k] = finger[k], held'[k] = held[k], bounce'[k] = bounce[k],
         pin'[k] = pin[k], status'[k] = status[k], edge'[k] = edge[k],
         keyLevel'[k] = keyLevel[k], key50ms'[k] = key50ms[k], owed'[k] = owed[k]
  PROVE  KeyLife(k)'
  BY DEF KeyLife, Rest, Untouched, PressBegun, Pressed, ReleaseBegun, Checked, Level

LEMMA KeyLifeInit ==
  ASSUME Init  PROVE \A k \in Keys : KeyLife(k)
<1> TAKE k \in Keys
<1>1. /\ finger[k] = "up" /\ owed[k] = 0 /\ bounce[k] = 0 /\ pin[k] = 1 /\ ~status[k]
      /\ edge[k] = "falling" /\ keyLevel[k] = 1 /\ key50ms[k] = 0
  BY DEF Init, KeyInit
<1>2. QED  BY <1>1 DEF KeyLife, Rest, Untouched, Level

(* The contacts move: a press or a release is seen at the first edge. *)
LEMMA PinMovesLife ==
  ASSUME KeysTypeOK, NEW k \in Keys, KeyLife(k), PinMoves(k)
  PROVE  KeyLife(k)'
<1>1. /\ bounce[k] > 0 /\ pin[k] \in 0..1 /\ pin'[k] = 1 - pin[k]
      /\ status'[k] = (\/ status[k]
                       \/ edge[k] = "falling" /\ pin[k] = 1
                       \/ edge[k] = "rising" /\ pin[k] = 0)
      /\ UNCHANGED <<finger, held, bounce, edge, keyLevel, key50ms, owed>>
  BY DEF PinMoves, KeysTypeOK, driver
<1>2. status[k] \in BOOLEAN /\ status'[k] \in BOOLEAN /\ bounce[k] \in Nat
  BY <1>1 DEF KeysTypeOK
<1>3. Rest(k)'
  BY <1>1, <1>2 DEF KeyLife, Rest
<1>4. CASE Untouched(k)
  BY <1>1, <1>2, <1>4 DEF Untouched
<1>5. CASE PressBegun(k)
  BY <1>1, <1>2, <1>3, <1>5 DEF KeyLife, PressBegun
<1>6. CASE Pressed(k)
  BY <1>1, <1>3, <1>6 DEF KeyLife, Pressed
<1>7. CASE ReleaseBegun(k)
  BY <1>1, <1>2, <1>3, <1>7 DEF KeyLife, ReleaseBegun
<1>8. CASE Checked(k)
  BY <1>1, <1>2, <1>3, <1>8 DEF KeyLife, Checked
<1>9. QED  BY <1>4, <1>5, <1>6, <1>7, <1>8 DEF KeyLife

(* The finger moves only when the driver has come to rest. *)
LEMMA FingerMovesLife ==
  ASSUME LongHold, KeysTypeOK, NEW k \in Keys, KeyLife(k), FingerMoves(k)
  PROVE  KeyLife(k)'
<1>1. /\ held[k] = MinHold /\ bounce[k] = 0 /\ held'[k] = 0 /\ bounce'[k] = Bounce
      /\ finger'[k] = IF finger[k] = "up" THEN "down" ELSE "up"
      /\ owed'[k] = IF finger[k] = "up" THEN owed[k] + 1 ELSE owed[k]
      /\ UNCHANGED <<pin, status, edge, keyLevel, key50ms>>
  BY DEF FingerMoves, KeysTypeOK, driver
<1>2. Bounce \in Nat \ {0} /\ Debounce \in Nat /\ MinHold \in Nat
  BY RelayAssumption DEF RelayAssumption
<1>3. ~Checked(k)
  <2>1. key50ms[k] \in 0..Debounce
    BY DEF KeysTypeOK
  <2>2. QED  BY <1>1, <1>2, <2>1 DEF LongHold, Checked
<1>4. pin[k] = Level(finger[k])
  BY <1>1 DEF KeyLife, Rest
<1>5. Rest(k)'
  BY <1>1, <1>2 DEF Rest
<1>6. CASE Untouched(k)
  BY <1>1, <1>2, <1>4, <1>5, <1>6 DEF KeyLife, Untouched, PressBegun, Level
<1>7. CASE Pressed(k)
  BY <1>1, <1>2, <1>4, <1>5, <1>7 DEF KeyLife, Pressed, ReleaseBegun, Level
<1>8. CASE PressBegun(k) \/ ReleaseBegun(k)
  BY <1>1, <1>8 DEF PressBegun, ReleaseBegun
<1>9. QED  BY <1>3, <1>6, <1>7, <1>8 DEF KeyLife

(* A tick: no edge has been missed when the contacts come to rest. *)
LEMMA TickLife ==
  ASSUME LongHold, KeysTypeOK, NEW k \in Keys, KeyLife(k), Tick
  PROVE  KeyLife(k)'
<1>1. /\ ~status[k] /\ key50ms[k] # 1
      /\ bounce[k] = 1 => pin[k] = Level(finger[k])
      /\ held'[k] = IF held[k] < MinHold THEN held[k] + 1 ELSE MinHold
      /\ bounce'[k] = IF bounce[k] > 0 THEN bounce[k] - 1 ELSE 0
      /\ key50ms'[k] = IF key50ms[k] > 0 THEN key50ms[k] - 1 ELSE 0
      /\ UNCHANGED <<finger, pin, status, edge, keyLevel, owed>>
  BY DEF Tick
<1>2. /\ held[k] \in 0..MinHold /\ bounce[k] \in 0..Bounce /\ key50ms[k] \in 0..Debounce
      /\ Bounce \in Nat \ {0} /\ Debounce \in Nat \ {0} /\ MinHold \in Nat
  BY RelayAssumption DEF KeysTypeOK, RelayAssumption
<1>3. Bounce <= MinHold
  BY <1>2 DEF LongHold
<1>4. Rest(k)'
  <2>1. bounce'[k] = 0 => pin'[k] = Level(finger'[k]) /\ ~status'[k]
    BY <1>1, <1>2 DEF KeyLife, Rest
  <2>2. bounce'[k] > 0 => held'[k] + bounce'[k] = Bounce
    BY <1>1, <1>2, <1>3 DEF KeyLife, Rest
  <2>3. QED  BY <2>1, <2>2 DEF Rest
<1>5. CASE Untouched(k)
  BY <1>1, <1>4, <1>5 DEF KeyLife, Untouched
<1>6. CASE PressBegun(k)
  <2>1. bounce[k] # 1
    BY <1>1, <1>6 DEF PressBegun, Level
  <2>2. QED  BY <1>1, <1>2, <1>4, <1>6, <2>1 DEF KeyLife, PressBegun
<1>7. CASE Pressed(k)
  BY <1>1, <1>4, <1>7 DEF KeyLife, Pressed
<1>8. CASE ReleaseBegun(k)
  <2>1. bounce[k] # 1
    BY <1>1, <1>8 DEF ReleaseBegun, Level
  <2>2. QED  BY <1>1, <1>2, <1>4, <1>8, <2>1 DEF KeyLife, ReleaseBegun
<1>9. CASE Checked(k)
  BY <1>1, <1>2, <1>4, <1>9 DEF KeyLife, Checked
<1>10. QED  BY <1>5, <1>6, <1>7, <1>8, <1>9 DEF KeyLife

(* The interrupt: the first edge of a press is believed, any rising edge   *)
(* begins a check.                                                         *)
LEMMA KeyIntrLife ==
  ASSUME LongHold, KeysTypeOK, NEW k \in Keys, KeyLife(k), KeyIntrHandler
  PROVE  KeyLife(k)'
<1>1. /\ status[k] \in BOOLEAN /\ status'[k] = FALSE
      /\ edge'[k] = IF status[k] /\ keyLevel[k] = 1 THEN "rising"
                    ELSE IF status[k] THEN "disabled" ELSE edge[k]
      /\ keyLevel'[k] = IF status[k] /\ keyLevel[k] = 1 THEN 0 ELSE keyLevel[k]
      /\ key50ms'[k] = IF status[k] /\ keyLevel[k] # 1 THEN Debounce ELSE key50ms[k]
      /\ UNCHANGED <<finger, held, bounce, pin, owed>>
  BY DEF KeyIntrHandler, KeysTypeOK, contacts
<1>2. /\ held[k] \in Nat /\ bounce[k] \in 0..Bounce
      /\ Bounce \in Nat \ {0} /\ Debounce \in Nat \ {0}
  BY RelayAssumption DEF KeysTypeOK, RelayAssumption
<1>3. Rest(k)'
  BY <1>1 DEF KeyLife, Rest
<1>4. CASE ~status[k]
  <2>1. status'[k] = status[k]
    BY <1>1, <1>4
  <2>2. QED  BY <1>1, <1>4, <2>1, SameKeyLife
<1>5. CASE status[k]
  <2>1. bounce[k] > 0 /\ held[k] + bounce[k] = Bounce
    BY <1>2, <1>5 DEF KeyLife, Rest
  <2>2. CASE PressBegun(k)
    BY <1>1, <1>3, <1>5, <2>2 DEF KeyLife, PressBegun, Pressed
  <2>3. CASE Pressed(k) \/ ReleaseBegun(k)
    BY <1>1, <1>2, <1>3, <1>5, <2>1, <2>3
       DEF LongHold, KeyLife, Pressed, ReleaseBegun, Checked
  <2>4. CASE Untouched(k) \/ Checked(k)
    BY <1>5, <2>1, <2>4 DEF Untouched, Checked
  <2>5. QED  BY <2>2, <2>3, <2>4 DEF KeyLife
<1>6. QED  BY <1>4, <1>5

(* The check ends: the bouncing is over, so what it finds is the finger. *)
LEMMA Key50msLife ==
  ASSUME KeysTypeOK, NEW k \in Keys, KeyLife(k), Key50ms(k)
  PROVE  KeyLife(k)'
<1>1. /\ key50ms[k] = 1 /\ key50ms'[k] = 0
      /\ \/ pin[k] = 1 /\ keyLevel'[k] = 1 /\ edge'[k] = "falling" /\ owed'[k] = owed[k] - 1
         \/ pin[k] = 0 /\ edge'[k] = "rising" /\ UNCHANGED <<keyLevel, owed>>
      /\ UNCHANGED <<finger, held, bounce, pin, status>>
  BY DEF Key50ms, KeysTypeOK, contacts
<1>2. Checked(k) /\ bounce[k] = 0 /\ pin[k] = Level(finger[k])
  BY <1>1 DEF KeysTypeOK, KeyLife, Rest, Untouched, PressBegun, Pressed, ReleaseBegun, Checked
<1>3. finger[k] \in {"up", "down"}
  BY DEF KeysTypeOK
<1>4. QED
  BY <1>1, <1>2, <1>3 DEF KeyLife, Rest, Untouched, Pressed, Checked, Level

(* Every step keeps the life of every key. *)
LEMMA KeyLifeNext ==
  ASSUME LongHold, KeysTypeOK, \A k \in Keys : KeyLife(k), [Next]_vars
  PROVE  \A k \in Keys : KeyLife(k)'
<1> TAKE k \in Keys
<1>0. KeyLife(k)
  OBVIOUS
<1>1. ASSUME UNCHANGED <<contacts, status, driver, owed>>  PROVE KeyLife(k)'
  BY <1>0, <1>1, SameKeyLife DEF contacts, driver
<1>2. CASE TimerTimeEnd \/ (\E form \in Forms : LetMessage(PostDevice(form)))
           \/ (\E c \in Links : Connect(c) \/ Register(c) \/ Close(c) \/ UpdateState(c))
           \/ LinkLost \/ UNCHANGED vars
  BY <1>1, <1>2 DEF TimerTimeEnd, LetMessage, Connect, Register, Close, UpdateState,
                    LinkLost, vars
<1>3. ASSUME NEW x \in Keys, PinMoves(x) \/ FingerMoves(x) \/ Key50ms(x)
      PROVE  KeyLife(k)'
  <2>1. CASE x = k
    BY <1>0, <1>3, <2>1, PinMovesLife, FingerMovesLife, Key50msLife
  <2>2. CASE x # k
    <3>1. /\ finger'[k] = finger[k] /\ held'[k] = held[k] /\ bounce'[k] = bounce[k]
          /\ pin'[k] = pin[k] /\ status'[k] = status[k] /\ edge'[k] = edge[k]
          /\ keyLevel'[k] = keyLevel[k] /\ key50ms'[k] = key50ms[k] /\ owed'[k] = owed[k]
      <4>1. CASE PinMoves(x)
        BY <2>2, <4>1 DEF PinMoves, driver, KeysTypeOK
      <4>2. CASE FingerMoves(x)
        BY <2>2, <4>2 DEF FingerMoves, driver, KeysTypeOK
      <4>3. CASE Key50ms(x)
        BY <2>2, <4>3 DEF Key50ms, contacts, KeysTypeOK
      <4>4. QED  BY <1>3, <4>1, <4>2, <4>3
    <3>2. QED  BY <1>0, <3>1, SameKeyLife
  <2>3. QED  BY <2>1, <2>2
<1>4. CASE KeyIntrHandler
  BY <1>0, <1>4, KeyIntrLife
<1>5. CASE Tick
  BY <1>0, <1>5, TickLife
<1>6. QED  BY <1>2, <1>3, <1>4, <1>5 DEF Next

(* However the contacts bounce, a press calls short_press once and no call *)
(* comes without a press, if contacts settle before the 50 ms are over and *)
(* a finger stays longer than bouncing and check last.                     *)
THEOREM EveryPressCountsOnce ==
  ASSUME LongHold
  PROVE  Spec => []OnePressOneCall
<1> DEFINE Lives == \A k \in Keys : KeyLife(k)
<1>1. Init => Lives
  BY KeyLifeInit
<1>2. IInv /\ Lives /\ [Next]_vars => Lives'
  BY KeyLifeNext, Parts
<1>3. IInv /\ Lives => OnePressOneCall
  <2>1. ASSUME IInv, Lives, NEW k \in Keys
        PROVE  /\ owed[k] \in 0..1
               /\ finger[k] = "up" /\ bounce[k] = 0 /\ ~status[k] /\ key50ms[k] = 0
                     => owed[k] = 0
    BY <2>1, Parts DEF KeysTypeOK, KeyLife, Untouched, PressBegun, Pressed, ReleaseBegun, Checked
  <2>2. QED  BY <2>1 DEF OnePressOneCall
<1> HIDE DEF Lives
<1>4. QED  BY <1>1, <1>2, <1>3, Invariance, PTL DEF Spec
=============================================================================
