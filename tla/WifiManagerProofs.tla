------------------------- MODULE WifiManagerProofs -------------------------
(***************************************************************************)
(* For any access points, signals and numbers of events: the device knows  *)
(* its link (ViewIsTrue), and without one it always has something to come  *)
(* that makes it look for a network (NeverSilent).                         *)
(***************************************************************************)
EXTENDS WifiManager, SequenceTheorems, TLAPS

(* internet, once the events es have been handled. *)
Online(es, on) ==
  \/ \E i \in 1..Len(es) : /\ es[i].type = "got_ip"
                           /\ \A j \in (i + 1)..Len(es) : es[j].type # "disconnected"
  \/ on /\ \A i \in 1..Len(es) : es[i].type # "disconnected"

(* connected is s, once the events es have been handled. *)
Names(es, con, s) ==
  \/ \E i \in 1..Len(es) : /\ es[i].type = "connected" /\ es[i].ssid = s
                           /\ \A j \in (i + 1)..Len(es) : es[j].type # "connected"
  \/ con = s /\ \A i \in 1..Len(es) : es[i].type # "connected"

Disconnects(es) == \E i \in 1..Len(es) : es[i].type = "disconnected"

(* Neither property is inductive: what the events under way will tell has  *)
(* to be counted in, and a link that is idle has to be told of or searched *)
(* for, even if internet does not say so yet.                              *)
IInv ==
  /\ TypeOK
  /\ Online(events, internet) <=> link.st = "ip"
  /\ link.st \in {"joined", "ip"} => Names(events, connected, NetOf[link.ap])
  /\ link.st = "idle" /\ ~refused => rescan \/ scanning = "manager" \/ Disconnects(events)

-----------------------------------------------------------------------------
LEMMA AppendEvent ==
  ASSUME NEW es \in Seq(Event), NEW e \in Event
  PROVE  /\ Append(es, e) \in Seq(Event)
         /\ Len(es) \in Nat /\ Len(Append(es, e)) = Len(es) + 1
         /\ \A i \in 1..Len(es) : Append(es, e)[i] = es[i]
         /\ Append(es, e)[Len(es) + 1] = e
  BY AppendProperties, LenProperties

LEMMA OnlineAppend ==
  ASSUME NEW es \in Seq(Event), NEW e \in Event, NEW on \in BOOLEAN
  PROVE  Online(Append(es, e), on)
           <=> e.type = "got_ip" \/ (e.type = "connected" /\ Online(es, on))
<1> DEFINE fs == Append(es, e)
           n == Len(es)
<1>1. /\ n \in Nat /\ Len(fs) = n + 1 /\ fs[n + 1] = e
      /\ \A i \in 1..n : fs[i] = es[i]
  BY AppendEvent
<1>2. e.type \in {"connected", "disconnected", "got_ip"}  BY DEF Event
<1> HIDE DEF fs, n
<1>3. CASE e.type = "got_ip"
  <2>1. n + 1 \in 1..Len(fs) /\ \A j \in (n + 1 + 1)..Len(fs) : FALSE  BY <1>1
  <2>2. QED  BY <1>1, <1>3, <2>1 DEF Online, fs
<1>4. CASE e.type = "disconnected"
  <2>1. \A i \in 1..Len(fs) : i # n + 1 => n + 1 \in (i + 1)..Len(fs)  BY <1>1
  <2>2. ~Online(fs, on)  BY <1>1, <1>4, <2>1 DEF Online
  <2>3. QED  BY <1>4, <2>2 DEF fs
<1>5. CASE e.type = "connected"
  <2>1. ASSUME Online(es, on)  PROVE Online(fs, on)
    BY <1>1, <1>5, <2>1 DEF Online, n
  <2>2. ASSUME Online(fs, on)  PROVE Online(es, on)
    BY <1>1, <1>5, <2>2 DEF Online, n
  <2>3. QED  BY <1>5, <2>1, <2>2 DEF fs
<1>6. QED  BY <1>2, <1>3, <1>4, <1>5

LEMMA NamesAppend ==
  ASSUME NEW es \in Seq(Event), NEW e \in Event, NEW con, NEW s
  PROVE  Names(Append(es, e), con, s)
           <=> IF e.type = "connected" THEN e.ssid = s ELSE Names(es, con, s)
<1> DEFINE fs == Append(es, e)
           n == Len(es)
<1>1. /\ n \in Nat /\ Len(fs) = n + 1 /\ fs[n + 1] = e
      /\ \A i \in 1..n : fs[i] = es[i]
  BY AppendEvent
<1> HIDE DEF fs, n
<1>2. CASE e.type = "connected"
  <2>1. n + 1 \in 1..Len(fs) /\ \A j \in (n + 1 + 1)..Len(fs) : FALSE  BY <1>1
  <2>2. \A i \in 1..Len(fs) : i # n + 1 => n + 1 \in (i + 1)..Len(fs)  BY <1>1
  <2>3. e.ssid = s => Names(fs, con, s)  BY <1>1, <1>2, <2>1 DEF Names
  <2>4. Names(fs, con, s) => e.ssid = s  BY <1>1, <1>2, <2>1, <2>2 DEF Names
  <2>5. QED  BY <1>2, <2>3, <2>4 DEF fs
<1>3. CASE e.type # "connected"
  <2>1. ASSUME Names(es, con, s)  PROVE Names(fs, con, s)
    BY <1>1, <1>3, <2>1 DEF Names, n
  <2>2. ASSUME Names(fs, con, s)  PROVE Names(es, con, s)
    BY <1>1, <1>3, <2>2 DEF Names, n
  <2>3. QED  BY <1>3, <2>1, <2>2 DEF fs
<1>4. QED  BY <1>2, <1>3

LEMMA DisconnectsAppend ==
  ASSUME NEW es \in Seq(Event), NEW e \in Event
  PROVE  Disconnects(Append(es, e)) <=> e.type = "disconnected" \/ Disconnects(es)
<1>1. /\ Len(es) \in Nat /\ Len(Append(es, e)) = Len(es) + 1 /\ Append(es, e)[Len(es) + 1] = e
      /\ \A i \in 1..Len(es) : Append(es, e)[i] = es[i]
  BY AppendEvent
<1>2. QED  BY <1>1 DEF Disconnects

(* Handling the first event changes nothing of what all of them will tell. *)
LEMMA TailEvent ==
  ASSUME NEW es \in Seq(Event), es # <<>>
  PROVE  /\ Head(es) \in Event /\ Head(es) = es[1] /\ Tail(es) \in Seq(Event)
         /\ Len(es) \in Nat \ {0} /\ Len(Tail(es)) = Len(es) - 1
         /\ \A i \in 1..(Len(es) - 1) : Tail(es)[i] = es[i + 1]
  BY HeadTailProperties, LenProperties, EmptySeq

LEMMA OnlineTail ==
  ASSUME NEW es \in Seq(Event), es # <<>>, NEW on \in BOOLEAN
  PROVE  Online(es, on)
           <=> Online(Tail(es), IF Head(es).type = "connected" THEN on ELSE Head(es).type = "got_ip")
<1> DEFINE fs == Tail(es)
           n == Len(es) - 1
           e == Head(es)
           on1 == IF e.type = "connected" THEN on ELSE e.type = "got_ip"
<1>1. /\ n \in Nat /\ Len(es) = n + 1 /\ Len(fs) = n /\ es[1] = e
      /\ \A i \in 1..n : fs[i] = es[i + 1]
  BY TailEvent
<1>2. e.type \in {"connected", "disconnected", "got_ip"}  BY TailEvent DEF Event
<1>3. \A i \in 1..n : i + 1 \in 1..(n + 1)  BY <1>1
<1>4. \A i \in 1..(n + 1) : i = 1 \/ (i - 1 \in 1..n /\ es[i] = fs[i - 1])  BY <1>1
<1> HIDE DEF fs, n, e
<1>5. ASSUME Online(es, on)  PROVE Online(fs, on1)
  <2>1. CASE on /\ \A i \in 1..(n + 1) : es[i].type # "disconnected"
    <3>1. \A i \in 1..n : fs[i].type # "disconnected"  BY <1>1, <1>3, <2>1
    <3>2. e.type # "disconnected"  BY <1>1, <2>1
    <3>3. on1  BY <1>2, <2>1, <3>2
    <3>4. QED  BY <1>1, <3>1, <3>3 DEF Online
  <2>2. ASSUME NEW i \in 1..(n + 1), es[i].type = "got_ip",
               \A j \in (i + 1)..(n + 1) : es[j].type # "disconnected"
        PROVE  Online(fs, on1)
    <3>1. \A j \in 1..n : j + 1 > i => fs[j].type # "disconnected"  BY <1>1, <2>2
    <3>2. CASE i = 1
      <4>1. on1  BY <1>1, <2>2, <3>2
      <4>2. QED  BY <1>1, <3>1, <3>2, <4>1 DEF Online
    <3>3. CASE i # 1
      <4>1. i - 1 \in 1..n /\ fs[i - 1].type = "got_ip"  BY <1>1, <1>4, <2>2, <3>3
      <4>2. \A j \in (i - 1 + 1)..n : fs[j].type # "disconnected"  BY <1>1, <3>1
      <4>3. QED  BY <1>1, <4>1, <4>2 DEF Online
    <3>4. QED  BY <3>2, <3>3
  <2>3. QED  BY <1>1, <1>5, <2>1, <2>2 DEF Online
<1>6. ASSUME Online(fs, on1)  PROVE Online(es, on)
  <2>1. CASE on1 /\ \A i \in 1..n : fs[i].type # "disconnected"
    <3>1. \A i \in 2..(n + 1) : es[i].type # "disconnected"  BY <1>1, <1>4, <2>1
    <3>2. CASE e.type = "connected"
      <4>1. on /\ \A i \in 1..(n + 1) : es[i].type # "disconnected"
        BY <1>1, <2>1, <3>1, <3>2
      <4>2. QED  BY <1>1, <4>1 DEF Online
    <3>3. CASE e.type = "got_ip"
      <4>1. 1 \in 1..(n + 1) /\ es[1].type = "got_ip" /\ (1 + 1)..(n + 1) = 2..(n + 1)
        BY <1>1, <3>3
      <4>2. QED  BY <1>1, <3>1, <4>1 DEF Online
    <3>4. e.type # "disconnected"  BY <2>1
    <3>5. QED  BY <1>2, <3>2, <3>3, <3>4
  <2>2. ASSUME NEW i \in 1..n, fs[i].type = "got_ip",
               \A j \in (i + 1)..n : fs[j].type # "disconnected"
        PROVE  Online(es, on)
    <3>1. i + 1 \in 1..(n + 1) /\ es[i + 1].type = "got_ip"  BY <1>1, <1>3, <2>2
    <3>2. \A j \in (i + 1 + 1)..(n + 1) : j - 1 \in (i + 1)..n /\ es[j] = fs[j - 1]  BY <1>1
    <3>3. QED  BY <1>1, <2>2, <3>1, <3>2 DEF Online
  <2>3. QED  BY <1>1, <1>6, <2>1, <2>2 DEF Online
<1>7. QED  BY <1>5, <1>6 DEF fs, e

LEMMA NamesTail ==
  ASSUME NEW es \in Seq(Event), es # <<>>, NEW con, NEW s
  PROVE  Names(es, con, s)
           => Names(Tail(es), IF Head(es).type = "connected" THEN Head(es).ssid ELSE con, s)
<1> DEFINE fs == Tail(es)
           n == Len(es) - 1
           e == Head(es)
           con1 == IF e.type = "connected" THEN e.ssid ELSE con
<1>1. /\ n \in Nat /\ Len(es) = n + 1 /\ Len(fs) = n /\ es[1] = e
      /\ \A i \in 1..n : fs[i] = es[i + 1]
  BY TailEvent
<1>2. \A i \in 1..n : i + 1 \in 1..(n + 1)  BY <1>1
<1>3. \A i \in 1..(n + 1) : i = 1 \/ (i - 1 \in 1..n /\ es[i] = fs[i - 1])  BY <1>1
<1> HIDE DEF fs, n, e
<1>4. ASSUME Names(es, con, s)  PROVE Names(fs, con1, s)
  <2>1. CASE con = s /\ \A i \in 1..(n + 1) : es[i].type # "connected"
    <3>1. \A i \in 1..n : fs[i].type # "connected"  BY <1>1, <1>2, <2>1
    <3>2. e.type # "connected"  BY <1>1, <2>1
    <3>3. con1 = s  BY <2>1, <3>2
    <3>4. QED  BY <1>1, <3>1, <3>3 DEF Names
  <2>2. ASSUME NEW i \in 1..(n + 1), es[i].type = "connected", es[i].ssid = s,
               \A j \in (i + 1)..(n + 1) : es[j].type # "connected"
        PROVE  Names(fs, con1, s)
    <3>1. \A j \in 1..n : j + 1 > i => fs[j].type # "connected"  BY <1>1, <2>2
    <3>2. CASE i = 1
      <4>1. con1 = s  BY <1>1, <2>2, <3>2
      <4>2. QED  BY <1>1, <3>1, <3>2, <4>1 DEF Names
    <3>3. CASE i # 1
      <4>1. i - 1 \in 1..n /\ fs[i - 1].type = "connected" /\ fs[i - 1].ssid = s
        BY <1>1, <1>3, <2>2, <3>3
      <4>2. \A j \in (i - 1 + 1)..n : fs[j].type # "connected"  BY <1>1, <3>1
      <4>3. QED  BY <1>1, <4>1, <4>2 DEF Names
    <3>4. QED  BY <3>2, <3>3
  <2>3. QED  BY <1>1, <1>4, <2>1, <2>2 DEF Names
<1>5. QED  BY <1>4 DEF fs, e

LEMMA DisconnectsTail ==
  ASSUME NEW es \in Seq(Event), es # <<>>
  PROVE  Disconnects(es) => Head(es).type = "disconnected" \/ Disconnects(Tail(es))
<1>1. /\ Len(es) \in Nat \ {0} /\ Len(Tail(es)) = Len(es) - 1 /\ Head(es) = es[1]
      /\ \A i \in 1..(Len(es) - 1) : Tail(es)[i] = es[i + 1]
  BY TailEvent
<1>2. ASSUME NEW i \in 1..Len(es), es[i].type = "disconnected", i # 1
      PROVE  Disconnects(Tail(es))
  <2>1. i - 1 \in 1..Len(Tail(es)) /\ Tail(es)[i - 1] = es[i]  BY <1>1, <1>2
  <2>2. QED  BY <1>2, <2>1 DEF Disconnects
<1>3. QED  BY <1>1, <1>2 DEF Disconnects

LEMMA NoEvents ==
  ASSUME NEW es \in Seq(Event), NEW on, NEW con, NEW s
  PROVE  /\ es = <<>> => /\ (Online(es, on) <=> on) /\ (Names(es, con, s) <=> con = s)
         /\ on /\ ~Online(es, on) => Disconnects(es)
<1>1. Len(es) \in Nat /\ (es = <<>> => Len(es) = 0)  BY LenProperties, EmptySeq
<1>2. ASSUME es = <<>>  PROVE Online(es, on) <=> on
  BY <1>1, <1>2 DEF Online
<1>3. ASSUME es = <<>>  PROVE Names(es, con, s) <=> con = s
  BY <1>1, <1>3 DEF Names
<1>4. on /\ ~Online(es, on) => Disconnects(es)
  BY DEF Online, Disconnects
<1>5. QED  BY <1>2, <1>3, <1>4

-----------------------------------------------------------------------------
LEMMA InitIInv == Init => IInv
<1> SUFFICES ASSUME Init  PROVE IInv  OBVIOUS
<1>1. \E ap \in AP : TRUE  BY WifiAssumption DEF WifiAssumption
<1>2. (CHOOSE ap \in AP : TRUE) \in AP  BY <1>1
<1>3. events \in Seq(Event)  BY EmptySeq DEF Init
<1>4. TypeOK
  <2>1. {internet, rescan, drop, pageScan, refused} \subseteq BOOLEAN  BY DEF Init
  <2>2. link \in [st : LinkStates, ap : AP]  BY <1>2 DEF Init, LinkStates
  <2>3. users \in 0..MaxUser  BY WifiAssumption DEF Init, WifiAssumption
  <2>4. QED  BY <1>3, <2>1, <2>2, <2>3 DEF Init, TypeOK
<1>5. ~Online(events, internet)  BY <1>3, NoEvents DEF Init
<1>6. QED  BY <1>4, <1>5 DEF IInv, Init

(* What an event adds, for each step of the SDK that tells one. *)
LEMMA Told ==
  ASSUME IInv, NEW ap \in AP, NEW type \in {"connected", "disconnected", "got_ip"},
         events' = Append(events, Tell(type, ap))
  PROVE  /\ events' \in Seq(Event)
         /\ Online(events', internet)
              <=> type = "got_ip" \/ (type = "connected" /\ link.st = "ip")
         /\ \A s : Names(events', connected, s)
                     <=> IF type = "connected" THEN NetOf[ap] = s ELSE Names(events, connected, s)
         /\ Disconnects(events') <=> type = "disconnected" \/ Disconnects(events)
<1> DEFINE e == Tell(type, ap)
<1>1. e \in Event /\ e.type = type /\ e.ssid = NetOf[ap]
  BY WifiAssumption DEF Tell, Event, WifiAssumption
<1>2. events \in Seq(Event) /\ internet \in BOOLEAN /\ (Online(events, internet) <=> link.st = "ip")
  BY DEF IInv, TypeOK
<1>3. events' = Append(events, e)  OBVIOUS
<1> HIDE DEF e
<1>4. events' \in Seq(Event)  BY <1>1, <1>2, <1>3, AppendEvent
<1>5. Online(events', internet) <=> type = "got_ip" \/ (type = "connected" /\ link.st = "ip")
  BY <1>1, <1>2, <1>3, OnlineAppend
<1>6. ASSUME NEW s
      PROVE  Names(events', connected, s)
               <=> IF type = "connected" THEN NetOf[ap] = s ELSE Names(events, connected, s)
  BY <1>1, <1>2, <1>3, NamesAppend
<1>7. Disconnects(events') <=> type = "disconnected" \/ Disconnects(events)
  BY <1>1, <1>2, <1>3, DisconnectsAppend
<1>8. QED  BY <1>4, <1>5, <1>6, <1>7

(* An end of the link that is told, or an idle link: what Drop and connect do. *)
LEMMA CutKeeps ==
  ASSUME IInv, NEW new \in [st : {"idle", "joining"}, ap : AP], Cut(new)
  PROVE  /\ link' = new /\ events' \in Seq(Event)
         /\ ~Online(events', internet)
         /\ link.st # "idle" => Disconnects(events')
         /\ link.st = "idle" => events' = events
<1>1. link \in [st : LinkStates, ap : AP] /\ events \in Seq(Event)  BY DEF IInv, TypeOK
<1>2. CASE link.st = "idle"
  BY <1>1, <1>2 DEF Cut, IInv
<1>3. CASE link.st # "idle"
  <2>1. events' = Append(events, Tell("disconnected", link.ap)) /\ link.ap \in AP
    BY <1>1, <1>3 DEF Cut
  <2>2. events' \in Seq(Event) /\ ~Online(events', internet) /\ Disconnects(events')
    BY <2>1, Told
  <2>3. QED  BY <1>3, <2>2 DEF Cut
<1>4. QED  BY <1>2, <1>3

(* Steps that leave the link and the events alone. *)
LEMMA ManagerSteps ==
  ASSUME IInv, Rescan \/ ScanFails \/ ScanTooLate \/ ScanFindsNone \/ PageScan \/ PageScanDone
  PROVE  IInv'
<1> USE DEF IInv, TypeOK, sdk, manager
<1>1. CASE Rescan  BY <1>1 DEF Rescan
<1>2. CASE ScanFails  BY <1>2 DEF ScanFails
<1>3. CASE ScanTooLate
  <2>1. link.st = "idle" => Disconnects(events)  BY <1>3, NoEvents DEF ScanTooLate
  <2>2. QED  BY <1>3, <2>1 DEF ScanTooLate
<1>4. CASE ScanFindsNone  BY <1>4 DEF ScanFindsNone, IgnoredStationClear
<1>5. CASE PageScan  BY <1>5 DEF PageScan, Marked
<1>6. CASE PageScanDone  BY <1>6 DEF PageScanDone
<1>7. QED  BY <1>1, <1>2, <1>3, <1>4, <1>5, <1>6

LEMMA PersonSteps ==
  ASSUME IInv, Person
  PROVE  IInv'
<1>1. PICK s \in Ssid : Save(s) \/ StationConnect(s) \/ Delete(s)  BY DEF Person
<1>2. users' \in 0..MaxUser
  BY <1>1, WifiAssumption DEF Save, StationConnect, Delete, User, IInv, TypeOK, WifiAssumption
<1> USE DEF IInv, TypeOK, sdk, manager
<1>3. CASE Save(s)  BY <1>2, <1>3 DEF Save
<1>4. CASE StationConnect(s)  BY <1>2, <1>4 DEF StationConnect, Armed
<1>5. CASE Delete(s)  BY <1>2, <1>5 DEF Delete, Armed
<1>6. QED  BY <1>1, <1>3, <1>4, <1>5

LEMMA ScanChoosesStep ==
  ASSUME IInv, ScanChooses
  PROVE  IInv'
<1>1. PICK seen \in SUBSET AP :
        /\ wanted' = IF Wished(seen) # {} THEN None ELSE wanted
        /\ \E ap \in Choices(seen) : Connect(ap) /\ ignored' = Tried(ap)
  BY DEF ScanChooses
<1>2. PICK ap \in Choices(seen) : Connect(ap) /\ ignored' = Tried(ap)  BY <1>1
<1>3. ap \in AP  BY <1>2 DEF Choices, Wished, Best, Fresh, Listed
<1> DEFINE new == [st |-> "joining", ap |-> ap]
<1>4. new \in [st : {"idle", "joining"}, ap : AP] /\ Cut(new)  BY <1>2, <1>3 DEF Connect
<1>5. link' = new /\ events' \in Seq(Event) /\ ~Online(events', internet)  BY <1>4, CutKeeps
<1>6. TypeOK'
  BY <1>1, <1>2, <1>3, <1>5 DEF IInv, TypeOK, ScanChooses, Tried, LinkStates
<1>7. QED  BY <1>5, <1>6 DEF IInv, ScanChooses

LEMMA DropStep ==
  ASSUME IInv, Drop
  PROVE  IInv'
<1> DEFINE new == [link EXCEPT !.st = "idle"]
<1>1. new \in [st : {"idle", "joining"}, ap : AP] /\ new.st = "idle"  BY DEF IInv, TypeOK
<1>2. Cut(new)  BY DEF Drop
<1> HIDE DEF new
<1>3. /\ link' = new /\ events' \in Seq(Event) /\ ~Online(events', internet)
      /\ link.st # "idle" => Disconnects(events')
      /\ link.st = "idle" => events' = events
  BY <1>1, <1>2, CutKeeps
<1>4. TypeOK'  BY <1>1, <1>3 DEF IInv, TypeOK, Drop, manager, LinkStates
<1>5. QED  BY <1>1, <1>3, <1>4 DEF IInv, Drop, manager

(* The SDK's own steps. *)
LEMMA LinkSteps ==
  ASSUME IInv, Join \/ Lease \/ Lost
  PROVE  IInv'
<1>1. link \in [st : LinkStates, ap : AP] /\ link.ap \in AP  BY DEF IInv, TypeOK
<1>2. ASSUME NEW from, NEW to, NEW type \in {"connected", "disconnected", "got_ip"},
             to \subseteq LinkStates, LinkMoves(from, to, type)
      PROVE  /\ TypeOK' /\ link'.st \in to /\ link'.ap = link.ap
             /\ Online(events', internet)
                  <=> type = "got_ip" \/ (type = "connected" /\ link.st = "ip")
             /\ Names(events', connected, NetOf[link.ap])
                  <=> type = "connected" \/ Names(events, connected, NetOf[link.ap])
             /\ Disconnects(events') <=> type = "disconnected" \/ Disconnects(events)
  <2>1. PICK st \in to : link' = [link EXCEPT !.st = st]  BY <1>2 DEF LinkMoves
  <2>2. events' = Append(events, Tell(type, link.ap))  BY <1>2 DEF LinkMoves
  <2>3. /\ events' \in Seq(Event)
        /\ Online(events', internet)
             <=> type = "got_ip" \/ (type = "connected" /\ link.st = "ip")
        /\ Names(events', connected, NetOf[link.ap])
             <=> type = "connected" \/ Names(events, connected, NetOf[link.ap])
        /\ Disconnects(events') <=> type = "disconnected" \/ Disconnects(events)
    BY <1>1, <2>2, Told
  <2>4. link' \in [st : LinkStates, ap : AP] /\ link'.st = st /\ link'.ap = link.ap
    BY <1>1, <1>2, <2>1
  <2>5. TypeOK'  BY <1>2, <2>3, <2>4 DEF IInv, TypeOK, LinkMoves, manager
  <2>6. QED  BY <2>3, <2>4, <2>5
<1>3. UNCHANGED <<internet, connected, rescan, scanning, refused>>
  BY DEF Join, Lease, Lost, LinkMoves, manager
<1>4. CASE Join
  <2>1. LinkMoves({"joining"}, {"joined"}, "connected") /\ link.st = "joining"
    BY <1>4 DEF Join, LinkMoves
  <2>2. /\ TypeOK' /\ link'.st = "joined" /\ link'.ap = link.ap
        /\ ~Online(events', internet) /\ Names(events', connected, NetOf[link.ap])
    BY <1>2, <2>1 DEF LinkStates
  <2>3. QED  BY <1>3, <2>2 DEF IInv
<1>5. CASE Lease
  <2>1. LinkMoves({"joined"}, {"ip"}, "got_ip") /\ link.st = "joined"
    BY <1>5 DEF Lease, LinkMoves
  <2>2. /\ TypeOK' /\ link'.st = "ip" /\ link'.ap = link.ap
        /\ Online(events', internet) /\ Names(events', connected, NetOf[link.ap])
    BY <1>2, <2>1 DEF LinkStates, IInv
  <2>3. QED  BY <1>3, <2>2 DEF IInv
<1>6. CASE Lost
  <2>1. LinkMoves({"joining", "joined", "ip"}, {"idle", "joining"}, "disconnected")
    BY <1>6 DEF Lost
  <2>2. /\ TypeOK' /\ link'.st \in {"idle", "joining"}
        /\ ~Online(events', internet) /\ Disconnects(events')
    BY <1>2, <2>1 DEF LinkStates
  <2>3. QED  BY <1>3, <2>2 DEF IInv
<1>7. QED  BY <1>4, <1>5, <1>6

LEMMA HandleEventStep ==
  ASSUME IInv, HandleEvent
  PROVE  IInv'
<1> DEFINE e == Head(events)
<1>1. events \in Seq(Event) /\ events # <<>> /\ events' = Tail(events) /\ internet \in BOOLEAN
  BY DEF HandleEvent, IInv, TypeOK
<1>2. e \in Event /\ events' \in Seq(Event)  BY <1>1, TailEvent
<1>3. /\ connected' = IF e.type = "connected" THEN e.ssid ELSE connected
      /\ internet' = IF e.type = "connected" THEN internet ELSE e.type = "got_ip"
      /\ rescan' = (rescan \/ e.type = "disconnected")
      /\ UNCHANGED <<known, wanted, ignored, drop, scanning, pageScan, link, users, refused>>
  BY DEF HandleEvent, InternetAfter, RescanAfter
<1>4. Online(events, internet) <=> Online(events', internet')
  BY <1>1, <1>3, OnlineTail
<1>5. \A s : Names(events, connected, s) => Names(events', connected', s)
  BY <1>1, <1>3, NamesTail
<1>6. Disconnects(events) => e.type = "disconnected" \/ Disconnects(events')
  BY <1>1, DisconnectsTail
<1> HIDE DEF e
<1>7. TypeOK'
  <2>1. connected' \in Ssid \cup {None}  BY <1>2, <1>3 DEF IInv, TypeOK, Event
  <2>2. internet' \in BOOLEAN  BY <1>1, <1>3
  <2>3. rescan' \in BOOLEAN  BY <1>3 DEF IInv, TypeOK
  <2>4. QED  BY <1>2, <1>3, <2>1, <2>2, <2>3 DEF IInv, TypeOK
<1>8. Online(events', internet') <=> link'.st = "ip"  BY <1>3, <1>4 DEF IInv
<1>9. link'.st \in {"joined", "ip"} => Names(events', connected', NetOf[link'.ap])
  BY <1>3, <1>5 DEF IInv
<1>10. link'.st = "idle" /\ ~refused' => rescan' \/ scanning' = "manager" \/ Disconnects(events')
  BY <1>3, <1>6 DEF IInv
<1>11. QED  BY <1>7, <1>8, <1>9, <1>10 DEF IInv

LEMMA NextIInv == IInv /\ [Next]_vars => IInv'
<1> SUFFICES ASSUME IInv, [Next]_vars  PROVE IInv'  OBVIOUS
<1>1. CASE Manager  BY <1>1, ManagerSteps, ScanChoosesStep DEF Manager
<1>2. CASE HandleEvent  BY <1>2, HandleEventStep
<1>3. CASE Drop  BY <1>3, DropStep
<1>4. CASE Join \/ Lease \/ Lost  BY <1>4, LinkSteps
<1>5. CASE PageScan \/ PageScanDone  BY <1>5, ManagerSteps
<1>6. CASE Person  BY <1>6, PersonSteps
<1>7. CASE UNCHANGED vars  BY <1>7 DEF vars, IInv, TypeOK
<1>8. QED  BY <1>1, <1>2, <1>3, <1>4, <1>5, <1>6, <1>7 DEF Next

(* Every reachable state counts the events under way truly. *)
THEOREM WifiInvariant == Spec => []IInv
<1>1. Init => IInv  BY InitIInv
<1>2. IInv /\ [Next]_vars => IInv'  BY NextIInv
<1>3. QED  BY <1>1, <1>2, PTL DEF Spec

(* Whatever scans, events and pages do, the manager keeps to networks and  *)
(* access points there are, and the page's scan flag is up as long as the  *)
(* scan it stands for runs.                                                *)
THEOREM TypeCorrect == Spec => []TypeOK
<1>1. IInv => TypeOK  BY DEF IInv
<1>2. QED  BY <1>1, WifiInvariant, PTL

(* However many access points there are and events are held up, what the   *)
(* manager believes of the link is true once they are delivered.           *)
THEOREM LinkIsKnown == Spec => []ViewIsTrue
<1>1. IInv => ViewIsTrue
  <2> SUFFICES ASSUME IInv, events = <<>>
               PROVE  ViewIsTrue
    BY DEF ViewIsTrue
  <2>1. events \in Seq(Event)  BY DEF IInv, TypeOK
  <2>2. internet <=> link.st = "ip"
    <3>1. Len(events) = 0  BY EmptySeq
    <3>2. Online(events, internet) <=> internet  BY <3>1 DEF Online
    <3>3. QED  BY <3>2 DEF IInv
  <2>3. link.st = "ip" => connected = NetOf[link.ap]  BY <2>1, NoEvents DEF IInv
  <2>4. GetStationSsid = IF link.st = "ip" THEN NetOf[link.ap] ELSE None
    BY <2>2, <2>3 DEF GetStationSsid
  <2>5. ASSUME NEW s \in known
        PROVE  "connected" \in StationInfo(s) <=> link.st = "ip" /\ NetOf[link.ap] = s
    <3>1. "connected" \in StationInfo(s) <=> s = GetStationSsid
      BY DEF StationInfo, PageState
    <3>2. s # None  BY WifiAssumption DEF WifiAssumption, IInv, TypeOK
    <3>3. QED  BY <2>4, <3>1, <3>2
  <2>6. QED  BY <2>2, <2>4, <2>5 DEF ViewIsTrue, IsInternetAccess, Summary
<1>2. QED  BY <1>1, WifiInvariant, PTL

(* A device without internet access never falls silent, unless the SDK has *)
(* refused a scan.                                                         *)
THEOREM ManagerNeverSilent == Spec => []NeverSilent
<1>1. IInv => NeverSilent
  <2> SUFFICES ASSUME IInv, ~internet, ~refused  PROVE Pending
    BY DEF NeverSilent
  <2>1. link.st \in LinkStates /\ events \in Seq(Event)  BY DEF IInv, TypeOK
  <2>2. CASE link.st = "idle"
    <3>1. Disconnects(events) => events # <<>>
      BY <2>1, LenProperties, EmptySeq DEF Disconnects
    <3>2. QED  BY <2>2, <3>1 DEF IInv, Pending
  <2>3. CASE link.st = "ip"
    <3>1. Online(events, internet)  BY <2>3 DEF IInv
    <3>2. events # <<>>  BY <2>1, <3>1, NoEvents
    <3>3. QED  BY <3>2 DEF Pending
  <2>4. CASE link.st \in {"joining", "joined"}  BY <2>4 DEF Pending
  <2>5. QED  BY <2>1, <2>2, <2>3, <2>4 DEF LinkStates
<1>2. QED  BY <1>1, WifiInvariant, PTL
=============================================================================
