---------------------------- MODULE WsLinkProofs ----------------------------
(***************************************************************************)
(* The client of WsLink never falls silent, whatever the bounds are,       *)
(* unless espconn refused its last attempt: NeverStuck.                    *)
(* And it obeys what it is sent, however frames are cut into segments,     *)
(* but for what comes behind another frame of its segment:                 *)
(* ObeysLastCommand.                                                       *)
(***************************************************************************)
EXTENDS WsLink, SequenceTheorems, TLAPS

(* An open link has a timeout and is known to be connected, and a client   *)
(* that believes it is connected has a link.                               *)
LinkKnown ==
    /\ link \in {"none", "connecting", "open", "closing"}
    /\ link = "open" => connected /\ timeout
    /\ connected => link \in {"open", "closing"}

(* NeverStuck alone is not inductive: the retry timer does nothing on a    *)
(* connected client, and counts on the link to time out or to end.         *)
IInv == lookups \in Nat /\ LinkKnown /\ NeverStuck

(* The state in which ws_worker_start leaves the client. *)
LEMMA InitIInv == Init => IInv
  BY DEF Init, WebsocketClientInit, IInv, LinkKnown, NeverStuck

(* The end of a connection, by whichever callback, arms the retry timer. *)
LEMMA LostLinkIInv ==
  ASSUME IInv, LostLink  PROVE IInv'
  BY DEF IInv, LinkKnown, NeverStuck, LostLink, StopTimer, RetryAfter

(* The retry timer either stays armed, or leaves a lookup, a connection    *)
(* being made, a link that was there before, or an attempt refused.        *)
LEMMA RetryTimerIInv ==
  ASSUME IInv, RetryTimer  PROVE IInv'
<1>1. CASE ~internet
  BY <1>1 DEF IInv, LinkKnown, NeverStuck, RetryTimer, client, network
<1>2. CASE internet /\ connected
  BY <1>2 DEF IInv, LinkKnown, NeverStuck, RetryTimer, WebsocketClientConnect,
              client, network
<1>3. CASE internet /\ ~connected
  <2>1. /\ lookups' \in Nat
        /\ UNCHANGED <<connected, timeout>>
        /\ \/ lookups' = lookups + 1 /\ UNCHANGED link
           \/ EspconnConnect("begun") /\ UNCHANGED lookups
           \/ Refused /\ UNCHANGED <<link, lookups>>
    BY <1>3 DEF IInv, RetryTimer, WebsocketClientConnect, network
  <2>2. CASE lookups' = lookups + 1 /\ UNCHANGED link
    BY <1>3, <2>1, <2>2 DEF IInv, LinkKnown, NeverStuck
  <2>3. CASE EspconnConnect("begun") /\ UNCHANGED lookups
    BY <1>3, <2>1, <2>3 DEF IInv, LinkKnown, NeverStuck, EspconnConnect, Refused, network
  <2>4. CASE Refused /\ UNCHANGED <<link, lookups>>
    BY <1>3, <2>1, <2>4 DEF IInv, LinkKnown, NeverStuck, Refused
  <2>5. QED  BY <2>1, <2>2, <2>3, <2>4
<1>4. QED  BY <1>1, <1>2, <1>3

(* A segment keeps the timeout armed, or the link is being closed. *)
LEMMA ReceiveIInv ==
  ASSUME IInv, NEW n \in Nat, Receive(n)  PROVE IInv'
<1>1. CASE HandshakeAnswer(toDevice[1])
  BY <1>1 DEF IInv, LinkKnown, NeverStuck, Receive, HandshakeAnswer, BringUpTimer,
              RetryAfter
<1>2. CASE Obey(toDevice[1])
  BY <1>2 DEF IInv, LinkKnown, NeverStuck, Receive, Obey, BringUpTimer
<1>3. QED  BY <1>1, <1>2 DEF Receive

(* Every step keeps the invariant: one step of the proof per action. *)
LEMMA NextIInv ==
  ASSUME WsLinkAssumption, IInv, [Next]_vars  PROVE IInv'
<1> USE DEF IInv, LinkKnown, NeverStuck
<1>1. CASE RetryTimer
  BY <1>1, RetryTimerIInv
<1>2. CASE DnsFound
  BY <1>2 DEF DnsFound, EspconnConnect, Refused, client, network
<1>3. CASE DnsError
  BY <1>3 DEF DnsError, RetryAfter, client, network
<1>4. CASE ConnectCb
  BY <1>4 DEF ConnectCb, BringUpTimer
<1>5. CASE DisconnectCb \/ ReconCb
  BY <1>5, LostLinkIInv DEF DisconnectCb, ReconCb
<1>6. CASE TimeoutTimer
  BY <1>6 DEF TimeoutTimer, RetryAfter
<1>7. CASE SentCb
  BY <1>7 DEF SentCb, BringUpTimer, network
<1>8. ASSUME NEW n \in 1..MaxSegment, Receive(n)
      PROVE  IInv'
  <2>1. n \in Nat
    BY DEF WsLinkAssumption
  <2>2. QED  BY <1>8, <2>1, ReceiveIInv
<1>9. CASE Environment
  <2>1. UNCHANGED <<retry, lookups, attempt, link, connected, timeout>>
    <3>1. CASE AnswerHandshake \/ ServerPing
      BY <3>1 DEF AnswerHandshake, ServerPing, client
    <3>2. CASE \E c \in Commands : ServerCommand(c)
      BY <3>2 DEF ServerCommand, client
    <3>3. CASE PeerGone
      BY <3>3 DEF PeerGone, client
    <3>4. CASE WifiChange \/ Stabilize
      BY <3>4 DEF WifiChange, Stabilize, client, network
    <3>5. QED  BY <1>9, <3>1, <3>2, <3>3, <3>4 DEF Environment
  <2>2. QED  BY <2>1
<1>10. CASE UNCHANGED vars
  BY <1>10 DEF vars, client, network
<1>11. QED
  BY <1>1, <1>2, <1>3, <1>4, <1>5, <1>6, <1>7, <1>8, <1>9, <1>10
     DEF Next, Callbacks

(* NeverStuck holds in every state: however connections end, lookups fail  *)
(* and timers race the callbacks of the SDK, a timer is armed or a         *)
(* callback is to come, so the device will try again; only an attempt that *)
(* espconn refuses can end this.                                           *)
THEOREM ClientNeverStuck == Spec => []NeverStuck
<1>1. WsLinkAssumption
  BY WsLinkAssumption
<1>2. Init => IInv
  BY InitIInv
<1>3. IInv /\ [Next]_vars => IInv'
  BY <1>1, NextIInv
<1>4. IInv => NeverStuck
  BY DEF IInv
<1>5. QED  BY <1>2, <1>3, <1>4, PTL DEF Spec
-----------------------------------------------------------------------------
(* Taking a segment of the first n frames leaves the other frames. *)
LEMMA SegmentProperties ==
  ASSUME NEW S, NEW fs \in Seq(S), NEW n \in Nat, n <= Len(fs)
  PROVE  LET gs == SubSeq(fs, n + 1, Len(fs))
         IN  /\ gs \in Seq(S)
             /\ Len(gs) = Len(fs) - n
             /\ \A i \in 1..(Len(fs) - n) : gs[i] = fs[i + n]
<1>1. Len(fs) \in Nat /\ \A i \in 1..Len(fs) : fs[i] \in S
  BY LenProperties, ElementOfSeq
<1>2. \A i \in (n + 1)..Len(fs) : fs[i] \in S
  BY <1>1
<1>3. QED  BY <1>1, <1>2, SubSeqProperties

(* A frame is delivered within the bound. *)
LEMMA DeliverType ==
  ASSUME toDevice \in Seq(Frames), NEW frame \in Frames, Deliver(frame)
  PROVE  toDevice' \in Seq(Frames)
  BY AppendProperties DEF Deliver

LEMMA TypeInit == Init => TypeOK
<1>1. ASSUME Init  PROVE TypeOK
  <2>1. toDevice \in Seq(Frames)
    BY <1>1, EmptySeq DEF Init
  <2>2. lookups \in 0..MaxLookups
    BY <1>1, WsLinkAssumption DEF Init, WsLinkAssumption
  <2>3. QED  BY <1>1, <2>1, <2>2 DEF Init, WebsocketClientInit, TypeOK
<1>2. QED  BY <1>1

(* Every step keeps the types: one step of the proof per action. *)
LEMMA TypeNext == TypeOK /\ [Next]_vars => TypeOK'
<1> SUFFICES ASSUME TypeOK, [Next]_vars  PROVE TypeOK'
  OBVIOUS
<1>a. MaxLookups \in Nat /\ MaxSegment \in Nat
  BY WsLinkAssumption DEF WsLinkAssumption
<1>b. <<>> \in Seq(Frames) /\ Commands \subseteq Frames
  BY EmptySeq DEF Frames
<1>c. ASSUME NEW how \in {"begun", "late"}, EspconnConnect(how)
      PROVE  /\ attempt' \in {"begun", "late", "refused"}
             /\ link' \in {"none", "connecting", "open", "closing"}
             /\ UNCHANGED <<peer, toDevice, commanded, cutOff>>
  BY <1>c DEF EspconnConnect, Refused, network, TypeOK
<1> USE DEF TypeOK
<1>1. CASE RetryTimer
  <2>1. CASE ~internet
    BY <1>1, <2>1 DEF RetryTimer, client, network
  <2>2. CASE internet /\ connected
    BY <1>1, <2>2 DEF RetryTimer, WebsocketClientConnect, client, network
  <2>3. CASE internet /\ ~connected
    <3>1. /\ lookups' \in 0..MaxLookups
          /\ handshakeInited' = FALSE
          /\ UNCHANGED <<connected, timeout, up>>
          /\ \/ EspconnConnect("begun")
             \/ UNCHANGED network /\ (attempt' = "begun" \/ Refused)
      BY <1>1, <1>a, <2>3 DEF RetryTimer, WebsocketClientConnect
    <3>2. retry' \in BOOLEAN /\ UNCHANGED <<internet, relay, stable>>
      BY <1>1 DEF RetryTimer
    <3>3. CASE EspconnConnect("begun")
      BY <1>c, <3>1, <3>2, <3>3
    <3>4. CASE UNCHANGED network /\ (attempt' = "begun" \/ Refused)
      <4>1. attempt' \in {"begun", "late", "refused"}
        BY <3>4 DEF Refused
      <4>2. UNCHANGED <<link, peer, toDevice, commanded, cutOff>>
        BY <3>4 DEF network
      <4>3. /\ lookups' \in 0..MaxLookups /\ handshakeInited' = FALSE
            /\ UNCHANGED <<connected, timeout, up>>
        BY <3>1
      <4>4. /\ internet' \in BOOLEAN /\ retry' \in BOOLEAN /\ stable' \in BOOLEAN
            /\ connected' \in BOOLEAN /\ handshakeInited' \in BOOLEAN
            /\ timeout' \in BOOLEAN /\ up' \in BOOLEAN /\ relay' \in BOOLEAN
        BY <3>2, <4>3
      <4>5. /\ link' \in {"none", "connecting", "open", "closing"}
            /\ peer' \in {"gone", "listening", "asked", "websocket", "session"}
            /\ toDevice' \in Seq(Frames)
            /\ commanded' \in Commands \cup {"nothing"} /\ cutOff' \in BOOLEAN
        BY <4>2
      <4>6. QED  BY <4>1, <4>3, <4>4, <4>5
    <3>5. QED  BY <3>1, <3>3, <3>4
  <2>4. QED  BY <2>1, <2>2, <2>3
<1>2. CASE DnsFound
  <2>1. PICK how \in {"begun", "late"} : EspconnConnect(how)
    BY <1>2 DEF DnsFound
  <2>2. lookups' \in 0..MaxLookups
    BY <1>2, <1>a DEF DnsFound
  <2>3. QED  BY <1>2, <1>c, <2>1, <2>2 DEF DnsFound, client
<1>3. CASE DnsError
  BY <1>3, <1>a DEF DnsError, RetryAfter, client, network
<1>4. CASE ConnectCb
  BY <1>4 DEF ConnectCb, BringUpTimer, MakeHandshake
<1>5. CASE DisconnectCb \/ ReconCb
  BY <1>5, <1>b DEF DisconnectCb, ReconCb, LostLink, RetryAfter, StopTimer
<1>6. CASE TimeoutTimer
  <2>1. UNCHANGED <<internet, lookups, attempt, peer, toDevice, commanded,
                    cutOff, handshakeInited, up, relay, stable>>
    BY <1>6 DEF TimeoutTimer
  <2>2. /\ timeout' \in BOOLEAN /\ connected' \in BOOLEAN /\ retry' \in BOOLEAN
        /\ link' \in {"none", "connecting", "open", "closing"}
    BY <1>6 DEF TimeoutTimer, RetryAfter
  <2>3. QED  BY <2>1, <2>2
<1>7. CASE SentCb
  BY <1>7 DEF SentCb, BringUpTimer, network
<1>8. ASSUME NEW n \in 1..MaxSegment, Receive(n)
      PROVE  TypeOK'
  <2>1. toDevice' \in Seq(Frames)
    BY <1>8, <1>a, SegmentProperties DEF Receive, Segment
  <2>2. cutOff' \in BOOLEAN
    BY <1>8 DEF Receive, Segment
  <2>3. CASE HandshakeAnswer(toDevice[1])
    <3>1. UNCHANGED <<internet, lookups, attempt, commanded, stable, relay>>
      BY <1>8, <2>3 DEF Receive, HandshakeAnswer
    <3>2. /\ handshakeInited' \in BOOLEAN /\ timeout' \in BOOLEAN
          /\ connected' \in BOOLEAN /\ up' \in BOOLEAN /\ retry' \in BOOLEAN
          /\ peer' \in {"gone", "listening", "asked", "websocket", "session"}
          /\ link' \in {"none", "connecting", "open", "closing"}
      BY <2>3 DEF HandshakeAnswer, RetryAfter, HiSaid, BringUpTimer
    <3>3. QED  BY <2>1, <2>2, <3>1, <3>2
  <2>4. CASE Obey(toDevice[1])
    BY <1>8, <2>1, <2>2, <2>4 DEF Receive, Obey, BringUpTimer
  <2>5. QED  BY <1>8, <2>3, <2>4 DEF Receive
<1>9. CASE AnswerHandshake
  <2>1. toDevice' \in Seq(Frames)
    BY <1>9, DeliverType DEF AnswerHandshake, Frames
  <2>2. peer' \in {"websocket", "listening"}
    BY <1>9 DEF AnswerHandshake
  <2>3. UNCHANGED <<internet, retry, lookups, attempt, link, commanded, cutOff,
                    client, relay, stable>>
    BY <1>9 DEF AnswerHandshake
  <2>4. QED  BY <2>1, <2>2, <2>3 DEF client
<1>10. CASE ServerPing
  <2>1. toDevice' \in Seq(Frames)
    BY <1>10, DeliverType DEF ServerPing, Frames
  <2>2. QED  BY <1>10, <2>1 DEF ServerPing, client
<1>11. ASSUME NEW c \in Commands, ServerCommand(c)
       PROVE  TypeOK'
  <2>1. toDevice' \in Seq(Frames)
    BY <1>11, <1>b, DeliverType DEF ServerCommand
  <2>2. commanded' \in Commands \cup {"nothing"} /\ cutOff' \in BOOLEAN
    BY <1>11 DEF ServerCommand
  <2>3. UNCHANGED <<internet, retry, lookups, attempt, link, peer, client, relay,
                    stable>>
    BY <1>11 DEF ServerCommand
  <2>4. QED  BY <2>1, <2>2, <2>3 DEF client
<1>12. CASE PeerGone
  BY <1>12, <1>b DEF PeerGone, client
<1>13. CASE WifiChange \/ Stabilize
  <2>1. internet' \in BOOLEAN /\ stable' \in BOOLEAN
    BY <1>13 DEF WifiChange, Stabilize
  <2>2. UNCHANGED <<retry, lookups, attempt, network, client, relay>>
    BY <1>13 DEF WifiChange, Stabilize
  <2>3. /\ retry' \in BOOLEAN /\ relay' \in BOOLEAN /\ lookups' \in 0..MaxLookups
        /\ attempt' \in {"begun", "late", "refused"}
    BY <2>2
  <2>4. /\ link' \in {"none", "connecting", "open", "closing"}
        /\ peer' \in {"gone", "listening", "asked", "websocket", "session"}
        /\ toDevice' \in Seq(Frames)
        /\ commanded' \in Commands \cup {"nothing"} /\ cutOff' \in BOOLEAN
    BY <2>2 DEF network
  <2>5. /\ connected' \in BOOLEAN /\ handshakeInited' \in BOOLEAN
        /\ timeout' \in BOOLEAN /\ up' \in BOOLEAN
    BY <2>2 DEF client
  <2>6. QED  BY <2>1, <2>3, <2>4, <2>5
<1>14. CASE UNCHANGED vars
  BY <1>14 DEF vars, client, network
<1>15. QED
  BY <1>1, <1>2, <1>3, <1>4, <1>5, <1>6, <1>7, <1>8, <1>9, <1>10, <1>11,
     <1>12, <1>13, <1>14 DEF Next, Callbacks, Environment

(* The client's flags, the lookups under way and the frames on their way   *)
(* stay within what the callbacks and the bounds allow.                    *)
THEOREM TypeCorrect == Spec => []TypeOK
<1>1. QED  BY TypeInit, TypeNext, PTL DEF Spec
-----------------------------------------------------------------------------
(* What obeying one frame leaves of the relay's state. *)
Obeyed(frame, on) == IF frame \in Commands THEN frame = "let on" ELSE on

(* The relay is as cmd says once the frames fs have been obeyed. *)
Settles(fs, on, cmd) ==
    \/ \E i \in 1..Len(fs) : /\ fs[i] = cmd
                             /\ \A j \in (i + 1)..Len(fs) : fs[j] \notin Commands
    \/ /\ on = (cmd = "let on")
       /\ \A i \in 1..Len(fs) : fs[i] \notin Commands

(* A link that is not made yet carries nothing; the server commands only   *)
(* in a session; and a session began with the answer to the handshake, so  *)
(* a frame that is to come is taken for what it is.                        *)
CommandsOnTheWay ==
    /\ link = "open" => connected
    /\ connected => link \in {"open", "closing"}
    /\ link \in {"none", "connecting"} => peer = "gone" /\ toDevice = <<>> /\ commanded = "nothing"
    /\ peer \in {"asked", "listening", "websocket"} => commanded = "nothing"
    /\ link = "open" /\ peer = "session" =>
          /\ handshakeInited
          /\ commanded # "nothing" /\ ~cutOff => Settles(toDevice, relay, commanded)

(* Obeying the first frame of a segment and dropping the others changes    *)
(* nothing of what all of them settle, unless the last command is dropped. *)
LEMMA SettlesRest ==
  ASSUME NEW fs \in Seq(Frames), NEW gs \in Seq(Frames),
         NEW k \in Nat \ {0}, k <= Len(fs), Len(gs) = Len(fs) - k,
         \A i \in 1..(Len(fs) - k) : gs[i] = fs[i + k],
         NEW on \in BOOLEAN, NEW cmd \in Commands, Settles(fs, on, cmd),
         \A i \in 2..k : fs[i] \in Commands =>
            \E j \in (i + 1)..Len(fs) : fs[j] \in Commands
  PROVE  Settles(gs, Obeyed(fs[1], on), cmd)
<1> DEFINE n == Len(fs) - k
<1>1. n \in Nat /\ Len(fs) = n + k /\ Len(gs) = n /\ \A i \in 1..n : gs[i] = fs[i + k]
  BY LenProperties
<1>2. \A i \in 1..n : i + k \in 1..(n + k)
  BY <1>1
<1> HIDE DEF n
<1>3. CASE on = (cmd = "let on") /\ \A i \in 1..(n + k) : fs[i] \notin Commands
  <2>1. \A i \in 1..n : gs[i] \notin Commands
    BY <1>1, <1>2, <1>3
  <2>2. 1 \in 1..(n + k)
    BY <1>1
  <2>3. fs[1] \notin Commands
    BY <1>3, <2>2
  <2>4. QED  BY <1>1, <1>3, <2>1, <2>3 DEF Settles, Obeyed
<1>4. ASSUME NEW i \in 1..(n + k), fs[i] = cmd,
             \A j \in (i + 1)..(n + k) : fs[j] \notin Commands
      PROVE  Settles(gs, Obeyed(fs[1], on), cmd)
  <2>1. CASE i = 1
    <3>1. \A j \in 1..n : gs[j] \notin Commands
      <4>1. \A j \in 1..n : j + k \in (i + 1)..(n + k)
        BY <1>1, <2>1
      <4>2. QED  BY <1>1, <1>4, <4>1
    <3>2. Obeyed(fs[1], on) = (cmd = "let on")
      BY <1>4, <2>1 DEF Obeyed
    <3>3. QED  BY <1>1, <3>1, <3>2 DEF Settles
  <2>2. CASE i \in 2..k
    BY <1>1, <1>4, <2>2
  <2>3. CASE i > k
    <3>1. i - k \in 1..n /\ gs[i - k] = cmd
      <4>1. i - k \in 1..n /\ (i - k) + k = i
        BY <1>1, <2>3
      <4>2. gs[i - k] = fs[(i - k) + k]
        BY <1>1, <4>1
      <4>3. QED  BY <1>4, <4>1, <4>2
    <3>2. \A j \in (i - k + 1)..n : j + k \in (i + 1)..(n + k) /\ gs[j] = fs[j + k]
      BY <1>1, <2>3
    <3>3. \A j \in (i - k + 1)..n : gs[j] \notin Commands
      BY <1>4, <3>2
    <3>4. QED  BY <1>1, <3>1, <3>3 DEF Settles
  <2>4. i = 1 \/ i \in 2..k \/ i > k
    BY <1>1
  <2>5. QED  BY <2>1, <2>2, <2>3, <2>4
<1>5. QED  BY <1>1, <1>3, <1>4 DEF Settles

(* The last frame settles the state, if it is a command. *)
LEMMA SettlesAppend ==
  ASSUME NEW fs \in Seq(Frames), NEW f \in Frames, NEW on \in BOOLEAN, NEW cmd
  PROVE  /\ f \in Commands /\ cmd = f => Settles(Append(fs, f), on, cmd)
         /\ f \notin Commands /\ Settles(fs, on, cmd) => Settles(Append(fs, f), on, cmd)
<1> DEFINE gs == Append(fs, f)
           n == Len(fs)
<1>1. /\ n \in Nat /\ Len(gs) = n + 1 /\ gs[n + 1] = f
      /\ \A i \in 1..n : gs[i] = fs[i]
  BY AppendProperties, LenProperties
<1> HIDE DEF gs, n
<1>2. ASSUME f \in Commands, cmd = f  PROVE Settles(gs, on, cmd)
  <2>1. n + 1 \in 1..Len(gs) /\ \A j \in (n + 1 + 1)..Len(gs) : FALSE
    BY <1>1
  <2>2. QED  BY <1>1, <1>2, <2>1 DEF Settles
<1>3. ASSUME f \notin Commands, Settles(fs, on, cmd)  PROVE Settles(gs, on, cmd)
  <2>1. \A i \in 1..Len(gs) : i \in 1..n \/ gs[i] = f
    BY <1>1
  <2>2. ASSUME NEW i \in 1..n, fs[i] = cmd,
               \A j \in (i + 1)..n : fs[j] \notin Commands
        PROVE  Settles(gs, on, cmd)
    <3>1. i \in 1..Len(gs) /\ gs[i] = cmd
      BY <1>1, <2>2
    <3>2. \A j \in (i + 1)..Len(gs) : j \in (i + 1)..n \/ gs[j] = f
      BY <1>1
    <3>3. \A j \in (i + 1)..n : gs[j] = fs[j]
      BY <1>1
    <3>4. \A j \in (i + 1)..Len(gs) : gs[j] \notin Commands
      BY <1>3, <2>2, <3>2, <3>3
    <3>5. QED  BY <3>1, <3>4 DEF Settles
  <2>3. CASE on = (cmd = "let on") /\ \A i \in 1..n : fs[i] \notin Commands
    BY <1>1, <1>3, <2>1, <2>3 DEF Settles
  <2>4. QED  BY <1>3, <2>2, <2>3 DEF Settles, n
<1>4. QED  BY <1>2, <1>3 DEF gs
-----------------------------------------------------------------------------
LEMMA CommandsInit == Init => CommandsOnTheWay
  BY DEF Init, WebsocketClientInit, CommandsOnTheWay

(* The first frame is obeyed, or taken for the answer to the handshake     *)
(* when there is no session.                                               *)
LEMMA CommandsReceive ==
  ASSUME TypeOK, CommandsOnTheWay, NEW n \in Nat \ {0}, Receive(n)
  PROVE  CommandsOnTheWay'
<1>1. /\ toDevice \in Seq(Frames) /\ toDevice' \in Seq(Frames)
      /\ n <= Len(toDevice) /\ Len(toDevice') = Len(toDevice) - n
      /\ \A i \in 1..(Len(toDevice) - n) : toDevice'[i] = toDevice[i + n]
  BY SegmentProperties DEF Receive, Segment, TypeOK
<1>2. link = "open" /\ connected /\ commanded' = commanded
  BY DEF Receive, CommandsOnTheWay
<1>3. CASE HandshakeAnswer(toDevice[1])
  <2>1. peer # "session"
    BY <1>2, <1>3 DEF HandshakeAnswer, CommandsOnTheWay
  <2>2. peer' = "session" => peer = "websocket" /\ handshakeInited' /\ commanded' = "nothing"
    BY <1>2, <1>3, <2>1 DEF HandshakeAnswer, HiSaid, CommandsOnTheWay
  <2>3. peer' # "session" => peer' = peer
    BY <1>3 DEF HandshakeAnswer, HiSaid
  <2>4. link' \in {"open", "closing"} /\ connected'
    BY <1>2, <1>3 DEF HandshakeAnswer, CommandsOnTheWay
  <2>5. QED  BY <1>2, <2>2, <2>3, <2>4 DEF CommandsOnTheWay
<1>4. CASE Obey(toDevice[1])
  <2>1. ASSUME commanded # "nothing", peer = "session", ~cutOff'
        PROVE  Settles(toDevice', relay', commanded)
    <3>1. ~cutOff /\ \A i \in 2..n : ~LastCommandIs(i)
      BY <2>1 DEF Receive, Segment
    <3>2. commanded \in Commands /\ relay \in BOOLEAN /\ Settles(toDevice, relay, commanded)
      BY <1>2, <2>1, <3>1 DEF TypeOK, CommandsOnTheWay
    <3>3. relay' = Obeyed(toDevice[1], relay)
      BY <1>4 DEF Obey, Obeyed
    <3>4. \A i \in 2..n : toDevice[i] \in Commands =>
             \E j \in (i + 1)..Len(toDevice) : toDevice[j] \in Commands
      BY <3>1 DEF LastCommandIs
    <3>5. Settles(toDevice', Obeyed(toDevice[1], relay), commanded)
      BY <1>1, <3>2, <3>4, SettlesRest
    <3>6. QED  BY <3>3, <3>5
  <2>2. UNCHANGED <<link, peer, handshakeInited, connected>>
    BY <1>4 DEF Obey
  <2>3. QED  BY <1>2, <2>1, <2>2 DEF CommandsOnTheWay
<1>5. QED  BY <1>3, <1>4 DEF Receive

(* What the server sends on a session is settled by its last command. *)
LEMMA CommandsSent ==
  ASSUME TypeOK, CommandsOnTheWay, NEW f \in Frames, Deliver(f),
         \/ peer \in {"asked", "websocket", "session"} /\ f \notin Commands
            /\ UNCHANGED <<commanded, cutOff>>
            /\ (peer' \in {"listening", "websocket"} \/ peer' = peer)
            /\ (peer = "session" <=> peer' = "session")
         \/ peer = "session" /\ peer' = peer /\ f \in Commands /\ commanded' = f /\ ~cutOff',
         UNCHANGED <<link, client, relay>>
  PROVE  CommandsOnTheWay'
<1>1. toDevice' = Append(toDevice, f) /\ toDevice \in Seq(Frames) /\ relay \in BOOLEAN
  BY DEF Deliver, TypeOK
<1>2. link \notin {"none", "connecting"}
  BY DEF CommandsOnTheWay
<1>3. ASSUME link = "open", peer' = "session", commanded' # "nothing", ~cutOff'
      PROVE  Settles(toDevice', relay, commanded')
  <2>1. CASE f \in Commands /\ commanded' = f
    BY <1>1, <2>1, SettlesAppend
  <2>2. CASE f \notin Commands /\ UNCHANGED <<commanded, cutOff>>
    <3>1. peer = "session"
      BY <1>3, <2>2
    <3>2. Settles(toDevice, relay, commanded)
      BY <1>3, <2>2, <3>1 DEF CommandsOnTheWay
    <3>3. QED  BY <1>1, <2>2, <3>2, SettlesAppend
  <2>3. QED  BY <2>1, <2>2
<1>4. peer' \in {"asked", "listening", "websocket"} => commanded' = "nothing"
  BY DEF CommandsOnTheWay
<1>5. peer' = "session" => peer = "session"
  OBVIOUS
<1>6. QED  BY <1>2, <1>3, <1>4, <1>5 DEF CommandsOnTheWay, client

(* Every step keeps CommandsOnTheWay: one step of the proof per action. *)
LEMMA CommandsNext ==
  ASSUME TypeOK, CommandsOnTheWay, [Next]_vars
  PROVE  CommandsOnTheWay'
<1>0. ASSUME NEW how, EspconnConnect(how), ~connected, UNCHANGED connected, relay' = relay
      PROVE  CommandsOnTheWay'
  BY <1>0 DEF EspconnConnect, network, CommandsOnTheWay
<1>1. CASE RetryTimer
  <2>1. CASE ~internet \/ connected
    BY <1>1, <2>1 DEF RetryTimer, WebsocketClientConnect, client, network, CommandsOnTheWay
  <2>2. CASE internet /\ ~connected
    <3>1. UNCHANGED <<connected, relay>> /\ (EspconnConnect("begun") \/ UNCHANGED network)
      BY <1>1, <2>2 DEF RetryTimer, WebsocketClientConnect
    <3>2. QED  BY <1>0, <2>2, <3>1 DEF network, CommandsOnTheWay
  <2>3. QED  BY <2>1, <2>2
<1>2. CASE DnsFound
  <2>1. /\ EspconnConnect(IF handshakeInited THEN "late" ELSE "begun")
        /\ UNCHANGED <<connected, handshakeInited, relay>>
    BY <1>2 DEF DnsFound, client
  <2>2. connected => UNCHANGED network
    BY <2>1 DEF EspconnConnect, CommandsOnTheWay
  <2>3. QED  BY <1>0, <2>1, <2>2 DEF network, CommandsOnTheWay
<1>3. CASE DnsError \/ WifiChange \/ Stabilize
  <2>1. UNCHANGED <<network, client, relay>>
    BY <1>3 DEF DnsError, WifiChange, Stabilize
  <2>2. QED  BY <2>1 DEF client, network, CommandsOnTheWay
<1>4. CASE ConnectCb
  BY <1>4 DEF ConnectCb, MakeHandshake, CommandsOnTheWay
<1>5. CASE DisconnectCb \/ ReconCb
  BY <1>5 DEF DisconnectCb, ReconCb, LostLink, CommandsOnTheWay
<1>6. CASE TimeoutTimer
  BY <1>6 DEF TimeoutTimer, CommandsOnTheWay
<1>7. CASE SentCb
  BY <1>7 DEF SentCb, network, CommandsOnTheWay
<1>8. ASSUME NEW n \in 1..MaxSegment, Receive(n)
      PROVE  CommandsOnTheWay'
  <2>1. n \in Nat \ {0}
    BY WsLinkAssumption DEF WsLinkAssumption
  <2>2. QED  BY <1>8, <2>1, CommandsReceive
<1>9. CASE AnswerHandshake
  BY <1>9, CommandsSent DEF AnswerHandshake, Frames, Commands
<1>10. CASE ServerPing
  BY <1>10, CommandsSent DEF ServerPing, Frames, Commands
<1>11. ASSUME NEW c \in Commands, ServerCommand(c)
       PROVE  CommandsOnTheWay'
  BY <1>11, CommandsSent DEF ServerCommand, Frames
<1>12. CASE PeerGone
  BY <1>12 DEF PeerGone, client, CommandsOnTheWay
<1>13. CASE UNCHANGED vars
  BY <1>13 DEF vars, client, network, CommandsOnTheWay
<1>14. QED
  BY <1>1, <1>2, <1>3, <1>4, <1>5, <1>6, <1>7, <1>8, <1>9, <1>10, <1>11,
     <1>12, <1>13 DEF Next, Callbacks, Environment

(* However frames are cut into segments, on an open session with nothing   *)
(* on its way the relay is as the server last asked, unless that very      *)
(* command came behind another frame of its segment: whatever links,       *)
(* lookups and timers did before.                                          *)
THEOREM CommandsAreObeyed == Spec => []ObeysLastCommand
<1>1. TypeOK /\ CommandsOnTheWay => ObeysLastCommand
  <2>1. ASSUME TypeOK, CommandsOnTheWay, link = "open", toDevice = <<>>,
               peer = "session", commanded # "nothing", ~cutOff
        PROVE  relay = (commanded = "let on")
    <3>1. Settles(toDevice, relay, commanded)
      BY <2>1 DEF CommandsOnTheWay
    <3>2. \A i \in 1..Len(toDevice) : FALSE
      BY <2>1, EmptySeq
    <3>3. QED  BY <3>1, <3>2, Zenon DEF Settles
  <2>2. QED  BY <2>1 DEF ObeysLastCommand, Idle
<1>2. Init => TypeOK /\ CommandsOnTheWay
  BY TypeInit, CommandsInit
<1>3. TypeOK /\ CommandsOnTheWay /\ [Next]_vars => (TypeOK /\ CommandsOnTheWay)'
  BY TypeNext, CommandsNext
<1>4. QED  BY <1>1, <1>2, <1>3, PTL DEF Spec
=============================================================================
