---------------------------- MODULE WifiManager ----------------------------
(***************************************************************************)
(* wifi_manager.c: the device looks for a known network whenever it has    *)
(* none.  A scan picks the access point to join, the SDK tells by events   *)
(* how the attempt ends, a lost or failed link arms the timer of the next  *)
(* scan.  The radio is shared with cgi_wifi_manager.c, whose page starts   *)
(* scans of its own, and a person may wish for a network or delete one.    *)
(*                                                                         *)
(* Timers run for any time.  The SDK (scan, link, events) is external: it  *)
(* refuses a scan while another runs, which nobody looks at.               *)
(***************************************************************************)
EXTENDS Naturals, Sequences

CONSTANTS
  Ssid,       \* names of networks
  AP,         \* access points, by bssid
  NetOf,      \* [AP -> Ssid]: the network an access point belongs to
  Rssi,       \* [AP -> Int]: the signal, better if greater
  Steady,     \* the access points every scan that succeeds sees
  None,       \* no network
  MaxUser,    \* bound: how often the person uses the configuration pages
  MaxEvents   \* bound: no attempt fails while this many events are held

ASSUME WifiAssumption ==
  /\ NetOf \in [AP -> Ssid] /\ AP # {}
  /\ Steady \subseteq AP
  /\ None \notin Ssid
  /\ MaxUser \in Nat

VARIABLES
  known,      \* the ssids of wifi_list.c
  wanted,     \* _toConnectSSID
  connected,  \* _connectedSSID
  internet,   \* _internetConnection
  ignored,    \* _ignoredStations
  rescan,     \* _mainTimer is armed
  drop,       \* _disconnectTimer is armed
  scanning,   \* whose scan the SDK performs: "none", "manager" or "page"
  pageScan,   \* cgiWifiAps.scanInProgress
  link,       \* of the SDK: its state and the access point of its config
  events,     \* of the SDK: System_Event_t still to be delivered
  users,      \* how often the person has acted
  refused     \* history: a scan of the manager was refused

sdk == <<link, events>>
manager == <<connected, internet, ignored, rescan>>
vars == <<known, wanted, connected, internet, ignored, rescan, drop,
          scanning, pageScan, link, events, users, refused>>

LinkStates == {"idle", "joining", "joined", "ip"}
Event == [type : {"connected", "disconnected", "got_ip"}, ssid : Ssid]
Tell(type, ap) == [type |-> type, ssid |-> NetOf[ap]]

TypeOK ==
  /\ known \subseteq Ssid
  /\ wanted \in Ssid \cup {None}
  /\ connected \in Ssid \cup {None}
  /\ {internet, rescan, drop, pageScan, refused} \subseteq BOOLEAN
  /\ ignored \subseteq AP
  /\ scanning \in {"none", "manager", "page"}
  /\ pageScan = FALSE => scanning # "page"
  /\ link \in [st : LinkStates, ap : AP]
  /\ events \in Seq(Event)
  /\ users \in 0..MaxUser

(* init_done: wifi_list_load, wifi_manager_init, wifi_manager_start, which *)
(* begins the first scan.                                                  *)
Init ==
  /\ known \in SUBSET Ssid
  /\ wanted = None /\ connected = None /\ internet = FALSE /\ ignored = {}
  /\ rescan = FALSE /\ drop = FALSE
  /\ scanning = "manager" /\ pageScan = FALSE
  /\ link = [st |-> "idle", ap |-> CHOOSE ap \in AP : TRUE] /\ events = <<>>
  /\ users = 0 /\ refused = FALSE

-----------------------------------------------------------------------------
(* wifi_station_disconnect: an attempt or a link ends, and is told.        *)
Cut(new) ==
  /\ link' = new
  /\ events' = IF link.st = "idle" THEN events
               ELSE Append(events, Tell("disconnected", link.ap))

(* connect: with the bssid chosen, after leaving what there was.           *)
Connect(ap) == Cut([st |-> "joining", ap |-> ap])

Listed(seen) == {ap \in seen : NetOf[ap] \in known}
IgnoredStationExist(ap) == ap \in ignored
Fresh(seen) == {ap \in Listed(seen) : ~IgnoredStationExist(ap)}
Wished(seen) == {ap \in Listed(seen) : NetOf[ap] = wanted}
Best(aps) == {ap \in aps : \A other \in aps : Rssi[ap] >= Rssi[other]}

(* The access points the loop of wifi_scan_cb may end with: any of the     *)
(* network wished for, whichever comes first in the chain, or else the     *)
(* best of those not yet tried.                                            *)
Choices(seen) == IF Wished(seen) # {} THEN Wished(seen) ELSE Best(Fresh(seen))

(* ignored_station_add.                                                    *)
NotTried(ap) == ignored                                            \* a mutant
Tried(ap) == ignored \cup {ap}
IgnoredStationClear == ignored' = {}

(* rescan_wifi_after_cb.  The result of wifi_station_scan is not looked at.*)
(* Half a second at least is long enough for events to be delivered.       *)
Rescan ==
  /\ rescan /\ events = <<>>
  /\ rescan' = FALSE
  /\ IF scanning = "none"
       THEN scanning' = "manager" /\ UNCHANGED refused
       ELSE refused' = TRUE /\ UNCHANGED scanning
  /\ UNCHANGED <<known, wanted, connected, internet, ignored, drop, pageScan, sdk, users>>

(* wifi_scan_cb with an error: again in a second.                          *)
ScanFails ==
  /\ scanning = "manager"
  /\ scanning' = "none"
  /\ rescan' = TRUE
  /\ UNCHANGED <<known, wanted, connected, internet, ignored, drop, pageScan, sdk, users, refused>>

(* wifi_scan_cb when the device has got its address meanwhile.             *)
ScanTooLate ==
  /\ scanning = "manager" /\ internet
  /\ scanning' = "none"
  /\ UNCHANGED <<known, wanted, manager, drop, pageScan, sdk, users, refused>>

(* wifi_scan_cb with nothing to try: every access point gets a new chance. *)
ScanFindsNone ==
  /\ scanning = "manager" /\ ~internet
  /\ \E seen \in SUBSET AP : Steady \subseteq seen /\ Choices(seen) = {}
  /\ scanning' = "none"
  /\ IgnoredStationClear
  /\ rescan' = TRUE
  /\ UNCHANGED <<known, wanted, connected, internet, drop, pageScan, sdk, users, refused>>

(* wifi_scan_cb with an access point to try, which then is ignored.        *)
ScanChooses ==
  /\ scanning = "manager" /\ ~internet
  /\ scanning' = "none"
  /\ \E seen \in SUBSET AP :
       /\ Steady \subseteq seen
       /\ wanted' = IF Wished(seen) # {} THEN None ELSE wanted
       /\ \E ap \in Choices(seen) : Connect(ap) /\ ignored' = Tried(ap)
  /\ UNCHANGED <<known, connected, internet, rescan, drop, pageScan, users, refused>>

(* wifi_event_cb.                                                          *)
InternetStays(e) == internet \/ e.type = "got_ip"                  \* a mutant
InternetAfter(e) == IF e.type = "connected" THEN internet ELSE e.type = "got_ip"
RescanNever(e) == rescan                                           \* a mutant
RescanAfter(e) == rescan \/ e.type = "disconnected"

HandleEvent ==
  /\ events # <<>>
  /\ events' = Tail(events)
  /\ LET e == Head(events)
     IN /\ connected' = IF e.type = "connected" THEN e.ssid ELSE connected
        /\ internet' = InternetAfter(e)
        /\ rescan' = RescanAfter(e)
  /\ UNCHANGED <<known, wanted, ignored, drop, scanning, pageScan, link, users, refused>>

(* disconnect_wifi_after_cb: whatever the link is by now.                  *)
Drop ==
  /\ drop
  /\ drop' = FALSE
  /\ Cut([link EXCEPT !.st = "idle"])
  /\ UNCHANGED <<known, wanted, manager, scanning, pageScan, users, refused>>

-----------------------------------------------------------------------------
(* The SDK: an attempt succeeds, an address is leased, an attempt fails or *)
(* a link is lost, after which the SDK may try the same one by itself.     *)
LinkMoves(from, to, type) ==
  /\ link.st \in from
  /\ \E st \in to : link' = [link EXCEPT !.st = st]
  /\ events' = Append(events, Tell(type, link.ap))
  /\ UNCHANGED <<known, wanted, manager, drop, scanning, pageScan, users, refused>>

Join == LinkMoves({"joining"}, {"joined"}, "connected")
Lease == LinkMoves({"joined"}, {"ip"}, "got_ip")
Lost == Len(events) < MaxEvents /\ LinkMoves({"joining", "joined", "ip"}, {"idle", "joining"}, "disconnected")

(* wifiStartScan, when a list of the page has been sent.                   *)
Unmarked == FALSE                                                  \* a mutant
Marked == TRUE
PageScan ==
  /\ ~pageScan
  /\ pageScan' = Marked
  /\ scanning' = IF scanning = "none" THEN "page" ELSE scanning
  /\ UNCHANGED <<known, wanted, manager, drop, sdk, users, refused>>

(* wifiScanDoneCb; without memory for the result the flag stays.           *)
PageScanDone ==
  /\ scanning = "page"
  /\ scanning' = "none"
  /\ pageScan' \in BOOLEAN
  /\ UNCHANGED <<known, wanted, manager, drop, sdk, users, refused>>

User == users < MaxUser /\ users' = users + 1

(* www_wifi_let_save, of a new network or a known one.                     *)
Save(s) ==
  /\ User
  /\ known' = known \cup {s}
  /\ UNCHANGED <<wanted, manager, drop, scanning, pageScan, sdk, refused>>

(* disconnect_wifi_after.                                                  *)
Unarmed == drop                                                    \* a mutant
Armed == TRUE

(* wifi_manager_station_connect: the wish, and the timer that makes room.  *)
StationConnect(s) ==
  /\ User
  /\ s \in known
  /\ wanted' = s
  /\ drop' = Armed
  /\ UNCHANGED <<known, manager, scanning, pageScan, sdk, refused>>

(* www_wifi_let_delete, with wifi_manager_station_disconnect, which leaves *)
(* the network only if it has given an address.                            *)
Delete(s) ==
  /\ User
  /\ known' = known \ {s}
  /\ drop' = IF internet /\ connected = s THEN Armed ELSE drop
  /\ UNCHANGED <<wanted, manager, scanning, pageScan, sdk, refused>>

(* wifi_manager_get_station_ssid and wifi_manager_is_internet_access, for  *)
(* the pages and for ws_worker.c.                                          *)
GetStationSsid == IF internet THEN connected ELSE None
IsInternetAccess == internet

(* The state of a network in the pages of access points and of networks,   *)
(* what www_wifi_summary answers, and www_wifi_station_info.               *)
PageState(s) ==
  (IF s \in known THEN {} ELSE {"new"}) \cup (IF s = GetStationSsid THEN {"connected"} ELSE {})
Summary == GetStationSsid
StationInfo(s) == IF s \in known THEN {"exists"} \cup PageState(s) ELSE {}

Manager == Rescan \/ ScanFails \/ ScanTooLate \/ ScanFindsNone \/ ScanChooses
Person == \E s \in Ssid : Save(s) \/ StationConnect(s) \/ Delete(s)

Next ==
  \/ Manager \/ HandleEvent \/ Drop
  \/ Join \/ Lease \/ Lost
  \/ PageScan \/ PageScanDone \/ Person

(* Timers expire, scans and attempts end, and scans do not always fail; a  *)
(* joined link gets its address or is lost.  Events are delivered faster   *)
(* than new ones are caused.  Strong fairness of a steady access point: of *)
(* the attempts to use it, not all are cut short or refused.               *)
Fairness ==
  /\ SF_vars(Rescan) /\ WF_vars(Drop)
  /\ SF_vars(ScanTooLate \/ ScanFindsNone \/ ScanChooses)
  /\ WF_vars(PageScanDone)
  /\ WF_vars(HandleEvent) /\ []<>(events = <<>>)
  /\ WF_vars(Join \/ Lease \/ Lost)
  /\ SF_vars(Join /\ link.ap \in Steady) /\ SF_vars(Lease /\ link.ap \in Steady)

Spec == Init /\ [][Next]_vars /\ Fairness

-----------------------------------------------------------------------------
(* A device without internet access has something to come that makes it    *)
(* look for a network again: a timer, a scan, an event or an attempt.  Only*)
(* a refused scan, whose result rescan_wifi drops, ends this chain.        *)
Pending ==
  \/ rescan \/ scanning = "manager" \/ events # <<>>
  \/ link.st \in {"joining", "joined"}
NeverSilent == ~internet /\ ~refused => Pending

(* What the pages show and ws_worker.c is told of the link is true once the*)
(* events of the SDK have been delivered.                                  *)
ViewIsTrue ==
  events = <<>> =>
    /\ IsInternetAccess <=> link.st = "ip"
    /\ Summary = IF link.st = "ip" THEN NetOf[link.ap] ELSE None
    /\ \A s \in known :
         "connected" \in StationInfo(s) <=> link.st = "ip" /\ NetOf[link.ap] = s

(* A device that knows a steady network is connected again and again, even *)
(* if stronger ones it knows refuse it: the list of ignored stations gets  *)
(* it past them.                                                           *)
SteadyKnown == \E ap \in Steady : NetOf[ap] \in known
Recovers == [](~refused) /\ <>[]SteadyKnown => []<>internet

(* A network chosen in the page is tried, whatever the link was doing when *)
(* it was chosen, unless another is chosen or it is deleted; and a wish is *)
(* forgotten only when it is tried.                                        *)
WishIsTried ==
  /\ [](~refused) => \A ap \in Steady :
       wanted = NetOf[ap] ~> wanted # NetOf[ap] \/ NetOf[ap] \notin known
  /\ [][wanted' = None => wanted = None \/ (link'.st = "joining" /\ NetOf[link'.ap] = wanted)]_vars
=============================================================================
