------------------------------- MODULE WsLink -------------------------------
(***************************************************************************)
(* The device's connection to the web application: the client of           *)
(* websocket_client.c, driven by ws_worker.c, over the SDK's espconn and   *)
(* its software timers.  The SDK runs one callback at a time, so every     *)
(* callback is one action.                                                 *)
(*                                                                         *)
(* The connection itself (link, peer, toDevice) is external.  espconn      *)
(* refuses to connect a structure that still has a connection, and reports *)
(* the end of every connection by the disconnect or the reconnect          *)
(* callback, as the code relies on; it hands over nothing more once the    *)
(* device closes.  What the device sends arrives at once while the peer is *)
(* there.                                                                  *)
(***************************************************************************)
EXTENDS Naturals, Sequences

CONSTANTS
    MaxLookups,      \* bound: DNS requests under way at a time
    MaxFrames,       \* bound: frames on the way to the device
    MaxSegment       \* how many frames one TCP segment may carry

ASSUME WsLinkAssumption ==
    /\ MaxLookups \in Nat \ {0} /\ MaxFrames \in Nat \ {0}
    /\ MaxSegment \in Nat \ {0}

VARIABLES
    internet,        \* wifi_manager_is_internet_access()
    retry,           \* ws_worker's _mainTimer is armed
    lookups,         \* DNS requests whose callback is to come
    attempt,         \* history: how the last attempt to connect began
    link,            \* the espconn connection
    peer,            \* what the server's end of it is
    connected,       \* client->_connected
    handshakeInited, \* client->_handshakeInited
    timeout,         \* client->_timeoutTimer is armed
    up,              \* WebSocketClientConnected was reported on this link
    toDevice,        \* frames from the server
    commanded,       \* the last state the server asked for on this link
    cutOff,          \* history: that command came behind another frame of
                     \* its segment
    relay,           \* the relay, as the messages set it
    stable           \* from here on the network and the server are fine

client == <<connected, handshakeInited, timeout, up>>
network == <<link, peer, toDevice, commanded, cutOff>>
vars == <<internet, retry, lookups, attempt, network, client, relay, stable>>

Commands == {"let on", "let off"}
Frames == {"switching protocols", "other key", "error page", "ping"} \cup Commands

TypeOK ==
    /\ internet \in BOOLEAN /\ retry \in BOOLEAN /\ stable \in BOOLEAN
    /\ lookups \in 0..MaxLookups
    /\ attempt \in {"begun", "late", "refused"}
    /\ link \in {"none", "connecting", "open", "closing"}
    /\ peer \in {"gone", "listening", "asked", "websocket", "session"}
    /\ connected \in BOOLEAN /\ handshakeInited \in BOOLEAN
    /\ timeout \in BOOLEAN /\ up \in BOOLEAN
    /\ toDevice \in Seq(Frames)
    /\ commanded \in Commands \cup {"nothing"} /\ cutOff \in BOOLEAN
    /\ relay \in BOOLEAN

(* stop_timer, bring_up_timer *)
StopTimer == timeout' = FALSE
BringUpTimer == timeout' = TRUE

(* status_change_callback calls start_timer whenever a connection could    *)
(* not be made or is no more, and says hi on one that is made.             *)
RetryAfter(status) ==
    IF status \in {"dns error", "disconnected", "timeout", "handshake error"} THEN TRUE
    ELSE retry
HiSaid(status) ==
    IF status = "connected" /\ peer = "websocket" THEN "session" ELSE peer

(* Of an attempt that is refused while there is no connection, no callback *)
(* will ever tell.                                                         *)
Refused == attempt' = IF link = "none" THEN "refused" ELSE attempt

(***************************************************************************)
(* connect_to_host.  The result of espconn_connect is not looked at: when  *)
(* it is not ESPCONN_OK, nothing happens.  It is an error while there is a *)
(* connection, and may be one at any time.                                 *)
(***************************************************************************)
EspconnConnect(how) ==
    \/ /\ link = "none"
       /\ link' = "connecting" /\ attempt' = how
       /\ UNCHANGED <<peer, toDevice, commanded, cutOff>>
    \/ Refused /\ UNCHANGED network

(* Mutant: the state of the last connection's handshake is kept. *)
WebsocketClientConnectAgain ==
    /\ UNCHANGED client
    /\ \/ connected /\ UNCHANGED <<lookups, attempt, network>>
       \/ ~connected /\ lookups = 0 /\ EspconnConnect("begun") /\ UNCHANGED lookups

(***************************************************************************)
(* websocket_client_connect.  espconn_gethostbyname knows the address, or  *)
(* begins a lookup, or fails and no callback comes.  The address is not    *)
(* known while a lookup is under way; a name that is looked up when the    *)
(* bound is reached waits for the callback of the lookup before it.        *)
(***************************************************************************)
WebsocketClientConnect ==
    \/ /\ connected
       /\ UNCHANGED <<lookups, attempt, network, client>>
    \/ /\ ~connected
       /\ handshakeInited' = FALSE
       /\ UNCHANGED <<connected, timeout, up>>
       /\ \/ lookups = 0 /\ EspconnConnect("begun") /\ UNCHANGED lookups
          \/ /\ lookups < MaxLookups
             /\ lookups' = lookups + 1 /\ attempt' = "begun"
             /\ UNCHANGED network
          \/ Refused /\ UNCHANGED <<lookups, network>>

(* timer_cb of ws_worker.c: the timer fires once, so it is not armed       *)
(* unless start_timer arms it again.                                       *)
RetryTimer ==
    /\ retry
    /\ retry' = ~internet
    /\ IF internet THEN WebsocketClientConnect
                   ELSE UNCHANGED <<lookups, attempt, network, client>>
    /\ UNCHANGED <<internet, relay, stable>>

(* dns_result_cb, which knows nothing of what happened meanwhile: if a     *)
(* connection was made since and answered, the handshake is not reset.     *)
DnsFound ==
    /\ lookups > 0
    /\ lookups' = lookups - 1
    /\ EspconnConnect(IF handshakeInited THEN "late" ELSE "begun")
    /\ UNCHANGED <<internet, retry, client, relay, stable>>

DnsError ==
    /\ lookups > 0 /\ ~stable
    /\ lookups' = lookups - 1
    /\ retry' = RetryAfter("dns error")
    /\ UNCHANGED <<internet, attempt, network, client, relay, stable>>

(* make_handshake sends a request with a random key. *)
MakeHandshake ==
    \/ peer' = "asked"
    \/ ~stable /\ peer' = "gone"

ConnectCb ==
    /\ link = "connecting"
    /\ link' = "open"
    /\ connected' = TRUE
    /\ BringUpTimer
    /\ MakeHandshake
    /\ UNCHANGED <<internet, retry, lookups, attempt, toDevice, commanded,
                   cutOff, handshakeInited, up, relay, stable>>

(* Mutant: nobody arms the timer. *)
ForgottenLink ==
    /\ link' = "none" /\ peer' = "gone"
    /\ toDevice' = <<>> /\ commanded' = "nothing" /\ cutOff' = FALSE
    /\ connected' = FALSE /\ timeout' = FALSE /\ up' = FALSE
    /\ UNCHANGED <<internet, retry, lookups, attempt, handshakeInited, relay,
                   stable>>

(* What disconnect_cb and recon_cb both do; the connection is no more. *)
LostLink ==
    /\ link' = "none" /\ peer' = "gone"
    /\ toDevice' = <<>> /\ commanded' = "nothing" /\ cutOff' = FALSE
    /\ connected' = FALSE /\ StopTimer /\ up' = FALSE
    /\ retry' = RetryAfter("disconnected")
    /\ UNCHANGED <<internet, lookups, attempt, handshakeInited, relay, stable>>

(* The connection the device is closing has ended, or the server closed.   *)
DisconnectCb ==
    /\ \/ link = "closing"
       \/ link = "open" /\ peer = "gone"
    /\ LostLink

(* The connection could not be made, or was reset. *)
ReconCb ==
    /\ link \in {"connecting", "open"}
    /\ ~stable \/ (link = "open" /\ peer = "gone")
    /\ LostLink

(* timer_timeout_cb *)
TimeoutTimer ==
    /\ timeout
    /\ ~(stable /\ link = "open" /\ peer # "gone")
    /\ timeout' = FALSE
    /\ IF connected
       THEN /\ link' = "closing"
            /\ connected' = FALSE
            /\ retry' = RetryAfter("timeout")
       ELSE UNCHANGED <<link, connected, retry>>
    /\ UNCHANGED <<internet, lookups, attempt, peer, toDevice, commanded,
                   cutOff, handshakeInited, up, relay, stable>>

(* The last command on its way is the i-th frame. *)
LastCommandIs(i) ==
    /\ toDevice[i] \in Commands
    /\ \A j \in (i + 1)..Len(toDevice) : toDevice[j] \notin Commands

(* The SDK hands a segment of n frames over to receive_data_cb. *)
Segment(n) ==
    /\ toDevice' = SubSeq(toDevice, n + 1, Len(toDevice))
    /\ cutOff' = (cutOff \/ \E i \in 2..n : LastCommandIs(i))

(* analyze_handshake_result: the answer has the header with a key, and the *)
(* key is the hash of the one that was sent.                               *)
HasAcceptHeader(frame) == frame \in {"switching protocols", "other key"}
AnalyzeHandshakeResult(frame) == HasAcceptHeader(frame) /\ frame # "other key"

(* The answer to the handshake, or what is taken for it. *)
HandshakeAnswer(frame) ==
    /\ ~handshakeInited
    /\ handshakeInited' = TRUE
    /\ IF AnalyzeHandshakeResult(frame)
       THEN /\ BringUpTimer
            /\ connected' = TRUE
            /\ up' = TRUE
            /\ peer' = HiSaid("connected")
            /\ UNCHANGED <<link, retry>>
       ELSE /\ retry' = RetryAfter("handshake error")
            /\ link' = "closing"
            /\ UNCHANGED <<timeout, connected, up, peer>>
    /\ UNCHANGED relay

(* Mutant: a message without "enable" set is passed over. *)
ObeyOnlyOn(frame) ==
    /\ handshakeInited
    /\ timeout' = TRUE
    /\ relay' = IF frame = "let on" THEN TRUE ELSE relay
    /\ UNCHANGED <<handshakeInited, connected, up, peer, link, retry>>

(* data_receive_callback obeys a text frame with a "let" message. *)
Obey(frame) ==
    /\ handshakeInited
    /\ BringUpTimer
    /\ relay' = IF frame \in Commands THEN frame = "let on" ELSE relay
    /\ UNCHANGED <<handshakeInited, connected, up, peer, link, retry>>

(***************************************************************************)
(* receive_data_cb parses the first frame of a segment; what follows in    *)
(* the segment is lost.                                                    *)
(***************************************************************************)
Receive(n) ==
    /\ link = "open"
    /\ n \in 1..MaxSegment /\ n <= Len(toDevice)
    /\ Segment(n)
    /\ HandshakeAnswer(toDevice[1]) \/ Obey(toDevice[1])
    /\ UNCHANGED <<internet, lookups, attempt, commanded, stable>>

(* sent_cb: something the device sent was acknowledged. *)
SentCb ==
    /\ link \in {"open", "closing"} /\ peer # "gone"
    /\ BringUpTimer
    /\ UNCHANGED <<internet, retry, lookups, attempt, network, connected,
                   handshakeInited, up, relay, stable>>

(***************************************************************************)
(* The server and the network.                                             *)
(***************************************************************************)
Deliver(frame) ==
    /\ Len(toDevice) < MaxFrames
    /\ toDevice' = Append(toDevice, frame)

AnswerHandshake ==
    /\ peer = "asked"
    /\ \/ peer' = "websocket" /\ Deliver("switching protocols")
       \/ /\ ~stable /\ peer' = "listening"
          /\ Deliver("error page") \/ Deliver("other key")
    /\ UNCHANGED <<internet, retry, lookups, attempt, link, commanded, cutOff,
                   client, relay, stable>>

ServerPing ==
    /\ peer \in {"websocket", "session"}
    /\ Deliver("ping")
    /\ UNCHANGED <<internet, retry, lookups, attempt, link, peer, commanded,
                   cutOff, client, relay, stable>>

ServerCommand(c) ==
    /\ peer = "session"
    /\ Deliver(c)
    /\ commanded' = c /\ cutOff' = FALSE
    /\ UNCHANGED <<internet, retry, lookups, attempt, link, peer, client, relay,
                   stable>>

(* The server's end goes away, the device is not told or not yet; what was *)
(* on its way is lost.                                                     *)
PeerGone ==
    /\ ~stable
    /\ peer # "gone"
    /\ peer' = "gone"
    /\ toDevice' = <<>>
    /\ UNCHANGED <<internet, retry, lookups, attempt, link, commanded, cutOff,
                   client, relay, stable>>

WifiChange ==
    /\ ~stable
    /\ internet' = ~internet
    /\ UNCHANGED <<retry, lookups, attempt, network, client, relay, stable>>

Stabilize ==
    /\ ~stable
    /\ stable' = TRUE
    /\ internet' = TRUE
    /\ UNCHANGED <<retry, lookups, attempt, network, client, relay>>

(* websocket_client_init: not connected, no timer. *)
WebsocketClientInit ==
    /\ connected = FALSE /\ handshakeInited = FALSE
    /\ timeout = FALSE /\ up = FALSE

(* ws_worker_start initialises the client and arms the timer. *)
Init ==
    /\ internet = FALSE /\ stable = FALSE
    /\ retry = TRUE
    /\ lookups = 0 /\ attempt = "begun"
    /\ link = "none" /\ peer = "gone"
    /\ WebsocketClientInit
    /\ toDevice = <<>> /\ commanded = "nothing" /\ cutOff = FALSE
    /\ relay = FALSE

Callbacks ==
    \/ RetryTimer \/ DnsFound \/ DnsError \/ ConnectCb
    \/ DisconnectCb \/ ReconCb \/ TimeoutTimer \/ SentCb
    \/ \E n \in 1..MaxSegment : Receive(n)

Environment ==
    \/ AnswerHandshake \/ ServerPing \/ \E c \in Commands : ServerCommand(c)
    \/ PeerGone \/ WifiChange \/ Stabilize

Next == Callbacks \/ Environment

(***************************************************************************)
(* Timers fire, lookups and connection attempts end, espconn reports the   *)
(* end of a connection, delivered segments are handed over, and a server   *)
(* that was asked answers.                                                 *)
(***************************************************************************)
Fairness ==
    /\ WF_vars(RetryTimer) /\ WF_vars(DnsFound)
    /\ WF_vars(ConnectCb) /\ WF_vars(DisconnectCb)
    /\ WF_vars(TimeoutTimer)
    /\ WF_vars(\E n \in 1..MaxSegment : Receive(n))
    /\ WF_vars(AnswerHandshake)

Spec == Init /\ [][Next]_vars /\ Fairness
-----------------------------------------------------------------------------
(***************************************************************************)
(* The client never falls silent: a timer is armed or a callback is to     *)
(* come, unless espconn refused the last attempt (connect_to_host and      *)
(* websocket_client_connect do not look at its result).  A connection that *)
(* has timed out without a timer to retry, or an open one without a        *)
(* timeout, would leave the device unreachable until somebody restarts it. *)
(***************************************************************************)
NeverStuck ==
    \/ retry
    \/ lookups > 0
    \/ link \in {"connecting", "closing"}
    \/ link = "open" /\ timeout /\ connected
    \/ attempt = "refused"

(***************************************************************************)
(* On an open session, when nothing is on its way, the relay is as the     *)
(* server last asked, unless that command came behind another frame of its *)
(* segment: whatever else was delivered together, no command is dropped,   *)
(* taken for the answer to a handshake, or undone by an earlier one.       *)
(***************************************************************************)
Idle == link = "open" /\ toDevice = <<>> /\ peer = "session" /\ commanded # "nothing"

ObeysLastCommand == Idle /\ ~cutOff => relay = (commanded = "let on")

(***************************************************************************)
(* However the connection ended and whatever was under way, once network   *)
(* and server stay fine the device gets a session and keeps it, unless its *)
(* last attempt is one that was refused, or one that a late lookup began   *)
(* with the handshake of the connection before.                            *)
(***************************************************************************)
Recovers == [](stable => \/ <>[](up /\ peer = "session")
                         \/ <>[](attempt # "begun"))
=============================================================================
