------------------------------- MODULE Pages -------------------------------
(***************************************************************************)
(* cgi_wifi_manager.c: the requests of the configuration pages that work   *)
(* with the list of networks and with the scan of the pages.  An answer is *)
(* sent in pieces, a call of the CGI function each (Httpd models when they *)
(* come), and the calls of several clients alternate: between two pieces   *)
(* another request may start a scan, replace its result, or free the node  *)
(* that the next piece begins with.                                        *)
(*                                                                         *)
(* The SDK runs one callback at a time, so nothing happens during a save   *)
(* but a power failure.  The requests that answer in one piece (summary,   *)
(* station-info, let-connect) are in WifiManager.                          *)
(***************************************************************************)
EXTENDS WifiList

CONSTANTS
  Client,   \* clients of the web server, each with one connection
  NoItem,   \* NULL
  Empty,    \* a password field left empty in the page
  MaxAps    \* bound: how many access points a scan may find

ASSUME PagesAssumption ==
  /\ MaxAps \in Nat \ {0}
  /\ NoItem \notin Ssid \cup 1..MaxAps /\ Empty \notin Secret

VARIABLES
  everScanned, scanInProgress,  \* of cgiWifiAps
  noAps,                        \* length of its result
  scanning,                     \* the SDK performs the scan of the pages
  answer                        \* [Client -> its answer under way, or its last one]

pageVars == <<everScanned, scanInProgress, noAps, scanning, answer>>
vars == <<listVars, pageVars>>

(* An answer has items, access points or networks.  next is cgiData: the   *)
(* item the next piece begins with.  The rest is history: how many heads   *)
(* were sent, the items that have stayed in the list since the first, those*)
(* of them not yet sent, whether one was sent twice, whether another       *)
(* request took away what the answer was being made from, and for an       *)
(* answer that is over whether it was whole, if it was not disturbed.      *)
Item == Ssid \cup 1..MaxAps
Answer ==
  [page : {"scan", "list"}, over : BOOLEAN, next : Item \cup {NoItem}, heads : 0..2,
   stayed : SUBSET Item, missing : SUBSET Item, twice : BOOLEAN,
   disturbed : BOOLEAN, whole : BOOLEAN]

Asked(page) ==
  [page |-> page, over |-> FALSE, next |-> NoItem, heads |-> 0,
   stayed |-> {}, missing |-> {}, twice |-> FALSE,
   disturbed |-> FALSE, whole |-> FALSE]
Whole(a) == a.heads = 1 /\ a.missing = {} /\ ~a.twice
Nothing == [Asked("scan") EXCEPT !.over = TRUE, !.whole = TRUE]
Ended(a) == [Nothing EXCEPT !.whole = Whole(a) \/ a.disturbed]
NoAnswers == [c \in Client |-> Nothing]

TypeOK ==
  /\ ListTypeOK
  /\ {everScanned, scanInProgress, scanning} \subseteq BOOLEAN
  /\ scanning => scanInProgress
  /\ noAps \in 0..MaxAps
  /\ answer \in [Client -> Answer]

Init ==
  /\ ListInit
  /\ everScanned = FALSE /\ scanInProgress = FALSE /\ noAps = 0 /\ scanning = FALSE
  /\ answer = NoAnswers

-----------------------------------------------------------------------------
(* The head of an answer, with the opening of its list.                    *)
Opened(a, items, first) ==
  [a EXCEPT !.heads = @ + 1, !.stayed = items, !.missing = items, !.next = first]

(* An item, if the list has one there; then the next piece, or the end.    *)
Send(a, items, next) ==
  LET b == [a EXCEPT !.missing = @ \ items, !.twice = @ \/ items \cap (a.stayed \ a.missing) # {}]
  IN IF next = NoItem THEN Ended(b) ELSE [b EXCEPT !.next = next]

(* www_wifi_scan.                                                          *)
ScanHead(a) ==
  IF ~everScanned \/ scanInProgress
    THEN Ended([a EXCEPT !.heads = @ + 1])
    ELSE Opened(a, 1..noAps, 1)

ApAfterTooEarly(pos) == IF pos + 1 >= noAps THEN NoItem ELSE pos + 1   \* a mutant
ApAfterEqual(pos) == IF pos = noAps THEN NoItem ELSE pos + 1           \* a mutant
ApAfter(pos) == IF pos >= noAps THEN NoItem ELSE pos + 1

ScanPiece(a) ==
  IF ~scanInProgress /\ a.next # NoItem
    THEN Send(a, {a.next} \cap 1..noAps, ApAfter(a.next))
    ELSE ScanHead(a)

(* www_wifi_list.                                                          *)
NodeAfter(s) ==
  LET next == {i \in DOMAIN nodes : i > 1 /\ nodes[i - 1].ssid = s}
  IN IF next = {} THEN NoItem ELSE nodes[CHOOSE i \in next : TRUE].ssid

(* wifi_list_get_root *)
Root == IF nodes = <<>> THEN NoItem ELSE nodes[1].ssid

ListHead(a) ==
  IF Root = NoItem
    THEN Ended([a EXCEPT !.heads = @ + 1])
    ELSE Opened(a, {n.ssid : n \in RangeOf(nodes)}, Root)

(* The memory of a freed node reads as anything: here is the end, or more. *)
(* (Or the device is reset, as by a power failure.)                        *)
FreedNode(a) == {a, Ended(a)}

ListPieces(a) ==
  IF a.next = NoItem THEN {ListHead(a)}
  ELSE IF a.disturbed THEN FreedNode(a)
  ELSE {Send(a, {a.next}, NodeAfter(a.next))}

Pieces(a) == IF a.page = "scan" THEN {ScanPiece(a)} ELSE ListPieces(a)

(* wifiStartScan after the last piece of either page, and after the first  *)
(* request of all.  The SDK may refuse, when the manager's scan runs:      *)
(* then no callback ever ends it.                                          *)
StartsScan(a, b) ==
  /\ b.over /\ ~scanInProgress
  /\ a.next # NoItem \/ (a.page = "scan" /\ ~everScanned)

(* An answer of access points is disturbed by a scan, one of networks by   *)
(* the end of the node it goes on with.                                    *)
Disturb(page, items, gone) ==
  [c \in Client |->
    LET a == answer[c]
    IN IF a.over \/ a.page # page THEN a
       ELSE IF a.disturbed \/ gone \/ a.next \in items
         THEN [Asked(page) EXCEPT !.next = a.next, !.disturbed = TRUE]
       ELSE [a EXCEPT !.stayed = @ \ items, !.missing = @ \ items]]

(* A call of the CGI function for c, whose answer a becomes b; the client  *)
(* keeps the answer as shown.                                              *)
Call(c, a, b, shown) ==
  /\ at = 0
  /\ everScanned' = (everScanned \/ a.page = "scan")
  /\ IF StartsScan(a, b)
       THEN /\ scanInProgress' = TRUE /\ scanning' \in BOOLEAN
            /\ answer' = [Disturb("scan", {}, TRUE) EXCEPT ![c] = shown]
       ELSE /\ UNCHANGED <<scanInProgress, scanning>>
            /\ answer' = [answer EXCEPT ![c] = shown]
  /\ UNCHANGED <<listVars, noAps>>

Ask(c, page) ==
  /\ answer[c].over
  /\ \E b \in Pieces(Asked(page)) : Call(c, Asked(page), b, b)

More(c) ==
  /\ ~answer[c].over
  /\ \E b \in Pieces(answer[c]) : Call(c, answer[c], b, b)

(* The connection ends: httpdDisconCb has the next piece made, for nobody. *)
Leave(c) ==
  /\ ~answer[c].over
  /\ \E b \in Pieces(answer[c]) : Call(c, answer[c], b, Nothing)

(* wifiScanDoneCb: an error, a result, or no memory for the result, when   *)
(* scanInProgress is left as it is.                                        *)
ScanDone ==
  /\ at = 0 /\ scanning /\ scanning' = FALSE
  /\ \/ scanInProgress' = FALSE /\ noAps' \in {noAps} \cup 0..MaxAps
     \/ UNCHANGED <<scanInProgress, noAps>>
  /\ UNCHANGED <<listVars, everScanned, answer>>

-----------------------------------------------------------------------------
(* What a request to save names, and ws_message_set: what it does not name *)
(* is empty.                                                               *)
Requests ==
  [ssid : Ssid] \cup [ssid : Ssid, password : (Secret \ {NoSecret}) \cup {Empty}]
StationInfoSet(json) ==
  [ssid        |-> IF "ssid" \in DOMAIN json THEN json.ssid ELSE Nameless,
   password    |-> IF "password" \in DOMAIN json THEN json.password ELSE Empty,
   passwordSet |-> "password" \in DOMAIN json]

(* wifi_list_get_password, NoSecret for NULL.                              *)
GetPassword(s) ==
  IF SsidExist(s) THEN nodes[CHOOSE i \in Found(nodes, s) : TRUE].secret ELSE NoSecret

(* An empty field stands for the old password, but the pointer to it is    *)
(* used after its node has been freed, and perhaps become the new one.     *)
Given(info) ==
  IF ~info.passwordSet THEN {NoSecret}
  ELSE IF info.password # Empty THEN {info.password}
  ELSE IF GetPassword(info.ssid) = NoSecret THEN {NoSecret}
  ELSE {NoSecret, GetPassword(info.ssid), Torn}

(* www_wifi_let_save.                                                      *)
LetSave(json) ==
  LET info == StationInfoSet(json)
  IN /\ \E secret \in Given(info) : Add([ssid |-> info.ssid, secret |-> secret])
     /\ answer' = Disturb("list", {info.ssid}, FALSE)
     /\ UNCHANGED <<everScanned, scanInProgress, noAps, scanning>>

(* www_wifi_let_delete.                                                    *)
LetDelete(s) ==
  /\ Delete(s)
  /\ answer' = Disturb("list", {s}, FALSE)
  /\ UNCHANGED <<everScanned, scanInProgress, noAps, scanning>>

Saving == (WriteRecord \/ WriteBlank) /\ UNCHANGED pageVars

Restart ==
  /\ PowerLoss
  /\ everScanned' = FALSE /\ scanInProgress' = FALSE /\ noAps' = 0 /\ scanning' = FALSE
  /\ answer' = NoAnswers

Next ==
  \/ \E c \in Client : (\E page \in {"scan", "list"} : Ask(c, page)) \/ More(c) \/ Leave(c)
  \/ ScanDone
  \/ (\E s \in Ssid : LetDelete(s)) \/ (\E json \in Requests : LetSave(json))
  \/ Saving \/ Restart

Spec == Init /\ [][Next]_vars

-----------------------------------------------------------------------------
(* An answer that takes several pieces has one head and every item once:   *)
(* the page of access points unless another request started a scan while   *)
(* it was sent; the page of networks, whatever is saved and deleted in the *)
(* meantime, for the networks nobody touched, unless the very node it had  *)
(* stopped at was freed.                                                   *)
AnswersAreWhole ==
  \A c \in Client : answer[c].over => answer[c].whole
=============================================================================
