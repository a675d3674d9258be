------------------------------- MODULE Relay -------------------------------
(***************************************************************************)
(* The relay of the device and its two keys: port_worker.c with its timer, *)
(* the "let" messages of ws_worker.c, the debouncing of driver/key.c with  *)
(* the functions io.c gives to the keys, and the state the device reports  *)
(* to the web application.                                                 *)
(*                                                                         *)
(* Time passes in ticks only where the order of events depends on it: how  *)
(* long contacts bounce, the 50 ms timer, how long a key is held.  The     *)
(* timer of a timed switch-on may fire at any time while it is armed.      *)
(* Neither key has a long_press function, so the timer of 5 s has no       *)
(* effect and is left out.                                                 *)
(*                                                                         *)
(* The device and the application each know of a connection what they have *)
(* been told: one may have lost it long before the other closes it.  A     *)
(* command takes no time, a report does.                                   *)
(***************************************************************************)
EXTENDS Integers, Sequences

CONSTANTS
    Debounce,     \* the ticks of the 50 ms timer
    Bounce,       \* how long contacts bounce
    MinHold,      \* how long a finger stays down, or up, at least
    Touched,      \* bound: the keys that somebody presses
    MaxFrames,    \* bound: frames of a connection on the way to the server
    Links,        \* the device's connections, used again once both ends
                  \* have done with them
    NoLink

(* io_init registers two keys. *)
Keys == {"REL", "CONFIG"}

ASSUME RelayAssumption ==
    /\ Debounce \in Nat \ {0} /\ Bounce \in Nat \ {0}
    /\ MinHold \in Nat /\ MaxFrames \in Nat \ {0}
    /\ Touched \subseteq Keys /\ NoLink \notin Links

VARIABLES
    relay,        \* the level of REL1
    timer,        \* port_worker's _timer is armed
    lastCommand,  \* what set the relay last (history)
    config,       \* io_key_config_enabled
    pages,        \* the configuration pages: the access point and httpd
    link,         \* the connection for which the device is _connected
    app,          \* what each connection is to the application
    toServer,     \* "state" messages on their way
    entry,        \* _clients[id].socket
    view,         \* _clients[id].subDevices["REL1"].enable
    reporter,     \* whose message set the view (history)
    finger, held, \* where the finger is, and for how many ticks it was there
    bounce,       \* ticks for which the contacts may still bounce
    pin,          \* the level of the key's input
    status,       \* the key's bit in GPIO_STATUS: an interrupt is due
    edge,         \* the edge that raises an interrupt
    keyLevel,     \* key_level
    key50ms,      \* ticks until key_50ms fires, 0 when not armed
    owed          \* presses less calls of short_press (history)

port == <<relay, timer, lastCommand>>
table == <<entry, view, reporter>>
network == <<link, app, toServer, table>>
contacts == <<finger, held, bounce, pin>>
driver == <<edge, keyLevel, key50ms>>
vars == <<port, config, pages, network, contacts, status, driver, owed>>

TypeOK ==
    /\ relay \in BOOLEAN /\ timer \in BOOLEAN /\ config \in BOOLEAN
    /\ lastCommand \in {"on", "off", "timed", "expired"}
    /\ pages \in {"never started", "served", "hidden"}
    /\ link \in Links \cup {NoLink}
    /\ app \in [Links -> {"closed", "open", "registered"}]
    /\ toServer \in [Links -> Seq(BOOLEAN)]
    /\ \A c \in Links : Len(toServer[c]) <= MaxFrames
    /\ entry \in Links \cup {NoLink} /\ reporter \in Links \cup {NoLink}
    /\ view \in {"unknown", "on", "off"}
    /\ finger \in [Keys -> {"up", "down"}]
    /\ held \in [Keys -> 0..MinHold]
    /\ bounce \in [Keys -> 0..Bounce]
    /\ pin \in [Keys -> 0..1]
    /\ status \in [Keys -> BOOLEAN]
    /\ edge \in [Keys -> {"falling", "rising", "disabled"}]
    /\ keyLevel \in [Keys -> 0..1]
    /\ key50ms \in [Keys -> 0..Debounce]
    /\ owed \in [Keys -> Int]

-----------------------------------------------------------------------------
(***************************************************************************)
(* What the device reports.  espconn is taken to accept every message; its *)
(* result is not looked at.  What is sent on a connection that the         *)
(* application has closed is lost.  Bound: nothing changes while MaxFrames *)
(* messages are on their way.                                              *)
(***************************************************************************)
WebsocketClientSend(message) ==
    \/ app[link] = "closed" /\ UNCHANGED toServer
    \/ /\ app[link] # "closed" /\ Len(toServer[link]) < MaxFrames
       /\ toServer' = [toServer EXCEPT ![link] = Append(@, message)]

WsWorkerSendState(enabled) ==
    \/ link = NoLink /\ UNCHANGED toServer
    \/ link # NoLink /\ WebsocketClientSend(enabled)

(***************************************************************************)
(* port_worker.c.  Every change is reported (on_change of user_main.c).    *)
(***************************************************************************)
OnChange(enabled) == WsWorkerSendState(enabled) /\ UNCHANGED <<link, app, table>>

(* Mutant: the timer keeps running. *)
PortWorkerSetOverTimer(enable, command) ==
    /\ relay' = enable
    /\ lastCommand' = command
    /\ OnChange(enable)
    /\ UNCHANGED timer

(* port_worker_enable and port_worker_disable *)
PortWorkerSet(enable, command) ==
    /\ relay' = enable
    /\ timer' = FALSE
    /\ lastCommand' = command
    /\ OnChange(enable)

PortWorkerGet == relay
PortWorkerToggle == PortWorkerSet(~PortWorkerGet, IF PortWorkerGet THEN "off" ELSE "on")

PortWorkerEnableToTime ==
    /\ relay' = TRUE
    /\ timer' = TRUE
    /\ lastCommand' = "timed"
    /\ OnChange(TRUE)

(* Mutant: the application is not told. *)
TimerTimeEndQuietly ==
    /\ timer
    /\ timer' = FALSE /\ relay' = FALSE /\ lastCommand' = "expired"
    /\ UNCHANGED <<config, pages, network, contacts, status, driver, owed>>

TimerTimeEnd ==
    /\ timer
    /\ PortWorkerSet(FALSE, "expired")
    /\ UNCHANGED <<config, pages, contacts, status, driver, owed>>

(***************************************************************************)
(* The commands.  devices.enable and devices.disable make a message; the   *)
(* time is left out if it is 0, which here also stands for null and NaN.   *)
(***************************************************************************)
EnableMessage(time) ==
    IF time = 0 THEN [type |-> "let", device |-> "REL1", enable |-> 1]
    ELSE [type |-> "let", device |-> "REL1", enable |-> 1, time |-> time]
DisableMessage == [type |-> "let", device |-> "REL1", enable |-> 0]

(* What a person fills in on the page of the device: a plain command, or a *)
(* time for which the relay is to be on.  The scheduler's are plain.       *)
Forms == {[type |-> 1, enable |-> e, time |-> 0] : e \in 0..1}
            \cup {[type |-> 2, enable |-> 1, time |-> t] : t \in 0..1}
PostDevice(form) ==
    IF form.type = 1 /\ form.enable # 1 THEN DisableMessage
    ELSE EnableMessage(form.time)

(* ws_message_set: what a message does not name is zero. *)
WsMessageSet(json) ==
    [type    |-> IF "type" \in DOMAIN json THEN json.type ELSE "",
     device  |-> IF "device" \in DOMAIN json THEN json.device ELSE "",
     enabled |-> IF "enable" \in DOMAIN json THEN json.enable # 0 ELSE FALSE,
     timeSet |-> "time" \in DOMAIN json]

(* data_receive_callback *)
LetMessage(json) ==
    LET message == WsMessageSet(json)
    IN  /\ link # NoLink /\ entry = link
        /\ message.type = "let" /\ message.device = "REL1"
        /\ \/ message.enabled /\ message.timeSet /\ PortWorkerEnableToTime
           \/ message.enabled /\ ~message.timeSet /\ PortWorkerSet(TRUE, "on")
           \/ ~message.enabled /\ PortWorkerSet(FALSE, "off")
        /\ UNCHANGED <<config, pages, contacts, status, driver, owed>>

(***************************************************************************)
(* The connections.  The device is connected to one at a time.  Either end *)
(* may lose it first: the device by a callback of espconn or its timeout,  *)
(* the application by a close event or, at the latest, two ping rounds.    *)
(***************************************************************************)
Connect(c) ==
    /\ link = NoLink /\ app[c] = "closed"
    /\ link' = c
    /\ app' = [app EXCEPT ![c] = "open"]
    /\ UNCHANGED <<port, config, pages, toServer, table, contacts, status,
                   driver, owed>>

LinkLost ==
    /\ link # NoLink
    /\ link' = NoLink
    /\ UNCHANGED <<port, config, pages, app, toServer, table, contacts, status,
                   driver, owed>>

(* devices.add, once the device is found: a new entry that knows nothing. *)
Register(c) ==
    /\ app[c] = "open"
    /\ app' = [app EXCEPT ![c] = "registered"]
    /\ entry' = c /\ view' = "unknown" /\ reporter' = NoLink
    /\ UNCHANGED <<port, config, pages, link, toServer, contacts, status,
                   driver, owed>>

(* devices.remove: the entry of the device, whichever connection it is of. *)
Remove == entry' = NoLink /\ view' = "unknown" /\ reporter' = NoLink

Close(c) ==
    /\ app[c] # "closed"
    /\ app' = [app EXCEPT ![c] = "closed"]
    /\ toServer' = [toServer EXCEPT ![c] = <<>>]
    /\ \/ app[c] = "registered" /\ Remove
       \/ app[c] = "open" /\ UNCHANGED table
    /\ UNCHANGED <<port, config, pages, link, contacts, status, driver, owed>>

(* The on message handler and devices.updateState: a state is passed over  *)
(* before the lookup of the device has ended, and when there is no entry.  *)
UpdateState(c) ==
    /\ toServer[c] # <<>>
    /\ toServer' = [toServer EXCEPT ![c] = Tail(@)]
    /\ IF app[c] = "registered" /\ entry # NoLink
       THEN /\ view' = IF Head(toServer[c]) THEN "on" ELSE "off"
            /\ reporter' = c
       ELSE UNCHANGED <<view, reporter>>
    /\ UNCHANGED <<port, config, pages, link, app, entry, contacts, status,
                   driver, owed>>
-----------------------------------------------------------------------------
(***************************************************************************)
(* The contacts.                                                           *)
(***************************************************************************)
Level(position) == IF position = "down" THEN 0 ELSE 1

(* The input moves, and raises an interrupt when the edge is awaited. *)
PinMoves(k) ==
    /\ bounce[k] > 0
    /\ pin' = [pin EXCEPT ![k] = 1 - @]
    /\ status' = [status EXCEPT ![k] =
                    \/ @
                    \/ edge[k] = "falling" /\ pin[k] = 1
                    \/ edge[k] = "rising" /\ pin[k] = 0]
    /\ UNCHANGED <<port, config, pages, network, finger, held, bounce, driver,
                   owed>>

FingerMoves(k) ==
    /\ k \in Touched
    /\ held[k] = MinHold /\ bounce[k] = 0
    /\ finger' = [finger EXCEPT ![k] = IF @ = "up" THEN "down" ELSE "up"]
    /\ held' = [held EXCEPT ![k] = 0]
    /\ bounce' = [bounce EXCEPT ![k] = Bounce]
    /\ owed' = [owed EXCEPT ![k] = IF finger[k] = "up" THEN @ + 1 ELSE @]
    /\ UNCHANGED <<port, config, pages, network, pin, status, driver>>

(* Interrupts and due timers are served within a tick, and contacts have   *)
(* come to rest where the finger wants them when they stop to bounce.      *)
Tick ==
    /\ \A k \in Keys :
          /\ ~status[k] /\ key50ms[k] # 1
          /\ bounce[k] = 1 => pin[k] = Level(finger[k])
    /\ held' = [k \in Keys |-> IF held[k] < MinHold THEN held[k] + 1
                               ELSE MinHold]
    /\ bounce' = [k \in Keys |-> IF bounce[k] > 0 THEN bounce[k] - 1 ELSE 0]
    /\ key50ms' = [k \in Keys |-> IF key50ms[k] > 0 THEN key50ms[k] - 1 ELSE 0]
    /\ UNCHANGED <<port, config, pages, network, finger, pin, status, edge,
                   keyLevel, owed>>

(***************************************************************************)
(* driver/key.c                                                            *)
(***************************************************************************)
(* Mutants: the timer of 50 ms set one tick too long; a release taken at   *)
(* its first edge for the end of the bouncing.                             *)
KeyIntrHandlerLate ==
    LET Due     == {k \in Keys : status[k]}
        Pressed == {k \in Due : keyLevel[k] = 1}
    IN  /\ Due # {}
        /\ status' = [k \in Keys |-> FALSE]
        /\ edge' = [k \in Keys |-> IF k \in Pressed THEN "rising"
                                   ELSE IF k \in Due THEN "disabled" ELSE edge[k]]
        /\ keyLevel' = [k \in Keys |-> IF k \in Pressed THEN 0 ELSE keyLevel[k]]
        /\ key50ms' = [k \in Keys |-> IF k \in Due \ Pressed THEN Debounce + 1
                                      ELSE key50ms[k]]
        /\ UNCHANGED <<port, config, pages, network, contacts, owed>>

KeyIntrHandlerHasty ==
    LET Due     == {k \in Keys : status[k]}
        Pressed == {k \in Due : keyLevel[k] = 1}
    IN  /\ Due # {}
        /\ status' = [k \in Keys |-> FALSE]
        /\ edge' = [k \in Keys |-> IF k \in Pressed THEN "rising"
                                   ELSE IF k \in Due THEN "disabled" ELSE edge[k]]
        /\ keyLevel' = [k \in Keys |-> IF k \in Pressed THEN 0 ELSE keyLevel[k]]
        /\ key50ms' = [k \in Keys |-> IF k \in Due \ Pressed THEN 1
                                      ELSE key50ms[k]]
        /\ UNCHANGED <<port, config, pages, network, contacts, owed>>

(* The first edge of a press is believed; a rising edge is checked later,  *)
(* with the interrupt disabled until then.                                 *)
KeyIntrHandler ==
    LET Due     == {k \in Keys : status[k]}
        Pressed == {k \in Due : keyLevel[k] = 1}
    IN  /\ Due # {}
        /\ status' = [k \in Keys |-> FALSE]
        /\ edge' = [k \in Keys |-> IF k \in Pressed THEN "rising"
                                   ELSE IF k \in Due THEN "disabled" ELSE edge[k]]
        /\ keyLevel' = [k \in Keys |-> IF k \in Pressed THEN 0 ELSE keyLevel[k]]
        /\ key50ms' = [k \in Keys |-> IF k \in Due \ Pressed THEN Debounce
                                      ELSE key50ms[k]]
        /\ UNCHANGED <<port, config, pages, network, contacts, owed>>

(* io_key_rel_short_press *)
RelShortPress ==
    /\ PortWorkerToggle
    /\ UNCHANGED <<config, pages>>

(* webserver_start and webserver_stop: the access point comes and goes, the*)
(* server is never ended.                                                  *)
WebserverStart == pages' = "served"
WebserverStop == pages' = "hidden"

(* io_key_config_long_press, which io_init registers as short_press        *)
ConfigShortPress ==
    /\ config' = ~config
    /\ IF config' THEN WebserverStart ELSE WebserverStop
    /\ UNCHANGED <<port, network>>

(* key_50ms_cb: the key is up, or it is down and the edge was a bounce.    *)
Key50ms(k) ==
    /\ key50ms[k] = 1
    /\ key50ms' = [key50ms EXCEPT ![k] = 0]
    /\ \/ /\ pin[k] = 1
          /\ keyLevel' = [keyLevel EXCEPT ![k] = 1]
          /\ edge' = [edge EXCEPT ![k] = "falling"]
          /\ owed' = [owed EXCEPT ![k] = @ - 1]
          /\ \/ k = "REL" /\ RelShortPress
             \/ k = "CONFIG" /\ ConfigShortPress
       \/ /\ pin[k] = 0
          /\ edge' = [edge EXCEPT ![k] = "rising"]
          /\ UNCHANGED <<port, config, pages, network, keyLevel, owed>>
    /\ UNCHANGED <<contacts, status>>
-----------------------------------------------------------------------------
KeyInit ==
    /\ edge = [k \in Keys |-> "falling"]
    /\ keyLevel = [k \in Keys |-> 1]
    /\ key50ms = [k \in Keys |-> 0]

(* user_init and init_done *)
Init ==
    /\ KeyInit
    /\ relay = FALSE /\ timer = FALSE /\ lastCommand = "off"
    /\ config = FALSE /\ pages = "never started"
    /\ link = NoLink /\ app = [c \in Links |-> "closed"]
    /\ toServer = [c \in Links |-> <<>>]
    /\ entry = NoLink /\ view = "unknown" /\ reporter = NoLink
    /\ finger = [k \in Keys |-> "up"] /\ held = [k \in Keys |-> MinHold]
    /\ bounce = [k \in Keys |-> 0] /\ pin = [k \in Keys |-> 1]
    /\ status = [k \in Keys |-> FALSE]
    /\ owed = [k \in Keys |-> 0]

Next ==
    \/ TimerTimeEnd \/ \E form \in Forms : LetMessage(PostDevice(form))
    \/ \E c \in Links : Connect(c) \/ Register(c) \/ Close(c) \/ UpdateState(c)
    \/ LinkLost
    \/ \E k \in Keys : PinMoves(k) \/ FingerMoves(k) \/ Key50ms(k)
    \/ KeyIntrHandler \/ Tick

Spec == Init /\ [][Next]_vars
-----------------------------------------------------------------------------
(***************************************************************************)
(* One press, one call: however the contacts bounce, a press is never      *)
(* counted twice and no call comes without one, and when the key has come  *)
(* to rest its press has been answered.  It takes a key that is held       *)
(* longer than it bounces and is checked (MinHold).                        *)
(***************************************************************************)
OnePressOneCall ==
    \A k \in Keys :
        /\ owed[k] \in 0..1
        /\ finger[k] = "up" /\ bounce[k] = 0 /\ ~status[k] /\ key50ms[k] = 0
              => owed[k] = 0

(***************************************************************************)
(* The timer that will switch the relay off is that of the last command:   *)
(* a plain command or a press of the key ends an earlier timed switch-on,  *)
(* and a timed switch-on is never left without its timer.                  *)
(***************************************************************************)
TimerIsOfLastCommand ==
    /\ timer <=> lastCommand = "timed"
    /\ relay <=> lastCommand \in {"on", "timed"}

(***************************************************************************)
(* What the application takes for the relay's state came over a connection *)
(* it has not closed; and while that is the device's connection, and no    *)
(* message is on its way, it is true, whoever changed the relay: the       *)
(* application, the key or the timer.  It may be false after the device    *)
(* has lost the connection, until the application closes it, and when the  *)
(* late message of an older connection has overwritten it.                 *)
(***************************************************************************)
ViewIsTrue ==
    view # "unknown" =>
       /\ app[reporter] = "registered"
       /\ reporter = link /\ toServer[link] = <<>> => (view = "on" <=> relay)
=============================================================================
