------------------------------ MODULE WifiList ------------------------------
(***************************************************************************)
(* wifi_list.c: the known networks as a linked list in memory, and in one  *)
(* sector of the flash.  Every change by the configuration pages saves the *)
(* whole list: the sector is erased and written record by record, and the  *)
(* power may fail between and within the writes.                           *)
(*                                                                         *)
(* A record is written in ascending order, so an interrupted write leaves  *)
(* the name (cut short it is nobody's, which is left out) and a damaged    *)
(* secret.  Login and password are one secret here: they are stored,       *)
(* replaced and saved together.                                            *)
(***************************************************************************)
EXTENDS Naturals, Sequences, FiniteSets

CONSTANTS
  Ssid,      \* names of networks
  Nameless,  \* the empty name, which a hidden network shows in a scan
  Secret,    \* passwords and NoSecret
  NoSecret,  \* the empty password, of an open network
  Torn,      \* what an interrupted write leaves of a secret
  Erased,    \* a record of 0xff bytes
  Blank,     \* a record of zero bytes
  Entries    \* _flashEntryCount

ASSUME ListAssumption ==
  /\ NoSecret \in Secret /\ Torn \notin Secret
  /\ Entries \in Nat \ {0}
  /\ {Erased, Blank} \cap [ssid : Ssid, secret : Secret \cup {Torn}] = {}

VARIABLES
  nodes,  \* the nodes from _listRoot on
  flash,  \* the records of the sector
  at      \* the record wifi_list_save writes next, 0 when it is not running

listVars == <<nodes, flash, at>>

Node == [ssid : Ssid, secret : Secret \cup {Torn}]
Slots == 1..(Entries + 1)

ListTypeOK ==
  /\ nodes \in Seq(Node)
  /\ flash \in [Slots -> Node \cup {Erased, Blank}]
  /\ at \in 0..(Entries + 1)

-----------------------------------------------------------------------------
(* search_node: where the first node of that name is.                      *)
Found(list, s) == {i \in DOMAIN list : list[i].ssid = s}
SsidExist(s) == Found(nodes, s) # {}

(* wifi_list_delete.                                                       *)
Unlinked(list, i) ==
  [j \in 1..(Len(list) - 1) |-> IF j < i THEN list[j] ELSE list[j + 1]]
Deleted(list, s) ==
  IF Found(list, s) = {} THEN list ELSE Unlinked(list, CHOOSE i \in Found(list, s) : TRUE)

(* wifi_list_add: an old node of that name is removed, the new one comes   *)
(* last.                                                                   *)
AddedBehind(list, n) == Append(list, n)                            \* a mutant
Added(list, n) == Append(Deleted(list, n.ssid), n)

(* wifi_list_load reads up to the first blank record, or to the last but   *)
(* one.  All names differ, so wifi_list_add only appends.                  *)
IsBlank(r) == r \in {Erased, Blank} \/ r.ssid = Nameless
Loaded(sector) ==
  {i \in 1..Entries : \A j \in 1..i : ~IsBlank(sector[j])}
LoadedList(sector) == [i \in Loaded(sector) |-> sector[i]]

ListInit ==
  /\ nodes = <<>>
  /\ flash = [i \in Slots |-> Erased]
  /\ at = 0

(* wifi_list_save as far as the erasure of the sector.  Power that fails   *)
(* before it makes the change of the list in memory undone.                *)
Save(list) ==
  /\ at = 0 /\ at' = 1
  /\ nodes' = list
  /\ flash' = [i \in Slots |-> Erased]

Add(n) == Save(Added(nodes, n))
Delete(s) == Save(Deleted(nodes, s))

(* The loop of wifi_list_save.                                             *)
WriteRecord ==
  /\ at \in 1..Entries /\ at <= Len(nodes)
  /\ flash' = [flash EXCEPT ![at] = nodes[at]]
  /\ at' = at + 1
  /\ UNCHANGED nodes

(* What follows the loop: the blank record at the end.                     *)
WriteBlank ==
  /\ at > 0 /\ (at > Entries \/ at > Len(nodes))
  /\ flash' = [flash EXCEPT ![at] = Blank]
  /\ at' = 0
  /\ UNCHANGED nodes

(* The power fails, within a write or not, and the device starts again.    *)
Interrupted ==
  {flash} \cup
  (IF at \in 1..Entries /\ at <= Len(nodes)
     THEN {[flash EXCEPT ![at] = [ssid |-> nodes[at].ssid, secret |-> Torn]]} ELSE {})
PowerLoss ==
  /\ flash' \in Interrupted
  /\ nodes' = LoadedList(flash')
  /\ at' = 0

ListNext ==
  \/ \E n \in Node : Add(n)
  \/ \E s \in Ssid : Delete(s)
  \/ WriteRecord \/ WriteBlank \/ PowerLoss

ListSpec == ListInit /\ [][ListNext]_listVars

-----------------------------------------------------------------------------
RangeOf(list) == {list[i] : i \in DOMAIN list}

Store == INSTANCE NetworkStore WITH
  known <- RangeOf(nodes), kept <- RangeOf(LoadedList(flash)), keeping <- at # 0

(* The list and the sector keep the promise of NetworkStore: what a restart*)
(* brings back is what was saved last, and at most what was being saved is *)
(* lost; no network or secret of an earlier save returns.                  *)
KeepsNetworks == Store!Spec
=============================================================================
