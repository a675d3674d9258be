--------------------------- MODULE WifiListProofs ---------------------------
(***************************************************************************)
(* The list of networks and its sector keep the promise of NetworkStore,   *)
(* however many networks there are and wherever the power fails; and the   *)
(* answers that the configuration pages send in pieces are whole, whatever *)
(* other requests and scans come between the pieces.                       *)
(***************************************************************************)
EXTENDS Pages, SequenceTheorems, FiniteSetTheorems, TLAPS

Distinct(list) == \A i, j \in DOMAIN list : list[i].ssid = list[j].ssid => i = j

(* The first records of the sector are those that can be read; while it is *)
(* being written, it holds the first nodes and nothing else.               *)
SectorInv ==
  /\ \E n \in 0..Entries : Loaded(flash) = 1..n
  /\ at # 0 => /\ at <= Len(nodes) + 1
               /\ \A i \in Slots : flash[i] = IF i < at THEN nodes[i] ELSE Erased

IInv ==
  /\ ListTypeOK /\ SectorInv
  /\ Distinct(nodes) /\ Distinct(LoadedList(flash))

-----------------------------------------------------------------------------
(* A function on 1..n is a sequence. *)
LEMMA FunctionIsSeq ==
  ASSUME NEW S, NEW n \in Nat, NEW f \in [1..n -> S]
  PROVE  f \in Seq(S) /\ Len(f) = n
<1> DEFINE t == SubSeq(f, 1, n)
<1>1. t \in Seq(S) /\ Len(t) = n /\ \A i \in 1..n : t[i] = f[i]
  BY SubSeqProperties
<1>2. t \in [1..n -> S]  BY <1>1, LenProperties
<1>3. t = f  BY <1>1, <1>2
<1>4. QED  BY <1>1, <1>3

(* wifi_list_delete removes what there is of a network, and nothing else. *)
LEMMA DeletedProperties ==
  ASSUME NEW list \in Seq(Node), Distinct(list), NEW s \in Ssid
  PROVE  /\ Deleted(list, s) \in Seq(Node)
         /\ Distinct(Deleted(list, s))
         /\ RangeOf(Deleted(list, s)) = {n \in RangeOf(list) : n.ssid # s}
<1>1. list \in [1..Len(list) -> Node] /\ Len(list) \in Nat /\ DOMAIN list = 1..Len(list)
  BY LenProperties
<1>2. CASE Found(list, s) = {}
  BY <1>1, <1>2 DEF Deleted, Found, RangeOf
<1>3. CASE Found(list, s) # {}
  <2> DEFINE k == CHOOSE i \in Found(list, s) : TRUE
             rest == Unlinked(list, k)
             m == Len(list) - 1
  <2>1. Deleted(list, s) = rest  BY <1>3 DEF Deleted
  <2>2. k \in 1..Len(list) /\ list[k].ssid = s  BY <1>1, <1>3 DEF Found
  <2>3. \A j \in 1..Len(list) : list[j].ssid = s => j = k  BY <1>1, <2>2 DEF Distinct
  <2> HIDE DEF k
  <2>4. m \in Nat /\ rest = [j \in 1..m |-> IF j < k THEN list[j] ELSE list[j + 1]]
    BY <1>1, <2>2 DEF Unlinked
  <2>5. rest \in [1..m -> Node]  BY <1>1, <2>2, <2>4
  <2> HIDE DEF rest
  <2>6. rest \in Seq(Node) /\ DOMAIN rest = 1..m  BY <2>4, <2>5, FunctionIsSeq
  <2>7. Distinct(rest)
    <3> SUFFICES ASSUME NEW i \in 1..m, NEW j \in 1..m, rest[i].ssid = rest[j].ssid
                 PROVE  i = j
      BY <2>6 DEF Distinct
    <3> DEFINE up(x) == IF x < k THEN x ELSE x + 1
    <3>1. up(i) \in 1..Len(list) /\ up(j) \in 1..Len(list)  BY <1>1, <2>2
    <3>2. rest[i] = list[up(i)] /\ rest[j] = list[up(j)]  BY <2>4
    <3>3. up(i) = up(j)  BY <1>1, <3>1, <3>2 DEF Distinct
    <3>4. QED  BY <2>2, <2>4, <3>3
  <2>8. ASSUME NEW n \in RangeOf(rest)  PROVE n \in RangeOf(list) /\ n.ssid # s
    <3>1. PICK j \in 1..m : n = rest[j]  BY <2>6 DEF RangeOf
    <3> DEFINE i == IF j < k THEN j ELSE j + 1
    <3>2. i \in 1..Len(list) /\ i # k /\ n = list[i]  BY <1>1, <2>2, <2>4, <3>1
    <3>3. QED  BY <1>1, <2>3, <3>2 DEF RangeOf
  <2>9. ASSUME NEW n \in RangeOf(list), n.ssid # s  PROVE n \in RangeOf(rest)
    <3>1. PICK i \in 1..Len(list) : n = list[i]  BY <1>1 DEF RangeOf
    <3>2. i # k  BY <2>2, <2>9, <3>1
    <3> DEFINE j == IF i < k THEN i ELSE i - 1
    <3>3. j \in 1..m /\ rest[j] = n  BY <1>1, <2>2, <2>4, <3>1, <3>2
    <3>4. QED  BY <2>6, <3>3 DEF RangeOf
  <2>10. RangeOf(rest) = {n \in RangeOf(list) : n.ssid # s}  BY <2>8, <2>9
  <2>11. QED  BY <2>1, <2>6, <2>7, <2>10
<1>4. QED  BY <1>2, <1>3

(* wifi_list_add replaces what there is of a network. *)
LEMMA AddedProperties ==
  ASSUME NEW list \in Seq(Node), Distinct(list), NEW n \in Node
  PROVE  /\ Added(list, n) \in Seq(Node)
         /\ Distinct(Added(list, n))
         /\ RangeOf(Added(list, n)) = {m \in RangeOf(list) : m.ssid # n.ssid} \cup {n}
<1> DEFINE rest == Deleted(list, n.ssid)
<1>1. n.ssid \in Ssid  BY DEF Node
<1>2. /\ rest \in Seq(Node) /\ Distinct(rest)
      /\ RangeOf(rest) = {m \in RangeOf(list) : m.ssid # n.ssid}
  BY <1>1, DeletedProperties
<1>3. Added(list, n) = Append(rest, n)  BY DEF Added
<1> HIDE DEF rest
<1>4. /\ Append(rest, n) \in Seq(Node)
      /\ Len(Append(rest, n)) = Len(rest) + 1
      /\ \A i \in 1..Len(rest) : Append(rest, n)[i] = rest[i]
      /\ Append(rest, n)[Len(rest) + 1] = n
  BY <1>2, AppendProperties
<1>5. /\ Len(rest) \in Nat /\ DOMAIN rest = 1..Len(rest)
      /\ DOMAIN Append(rest, n) = 1..(Len(rest) + 1)
  BY <1>2, <1>4, LenProperties
<1>6. \A i \in 1..Len(rest) : rest[i].ssid # n.ssid
  BY <1>2, <1>5 DEF RangeOf
<1>7. Distinct(Append(rest, n))
  <2> SUFFICES ASSUME NEW i \in 1..(Len(rest) + 1), NEW j \in 1..(Len(rest) + 1),
                      Append(rest, n)[i].ssid = Append(rest, n)[j].ssid
               PROVE  i = j
    BY <1>5 DEF Distinct
  <2>1. CASE i \in 1..Len(rest) /\ j \in 1..Len(rest)
    BY <1>2, <1>4, <1>5, <2>1 DEF Distinct
  <2>2. CASE i = Len(rest) + 1 \/ j = Len(rest) + 1
    BY <1>4, <1>5, <1>6, <2>2
  <2>3. QED  BY <1>5, <2>1, <2>2
<1>8. RangeOf(Append(rest, n)) = RangeOf(rest) \cup {n}
  <2>1. \A m \in RangeOf(Append(rest, n)) : m \in RangeOf(rest) \cup {n}
    BY <1>4, <1>5 DEF RangeOf
  <2>2. \A m \in RangeOf(rest) \cup {n} : m \in RangeOf(Append(rest, n))
    BY <1>4, <1>5 DEF RangeOf
  <2>3. QED  BY <2>1, <2>2
<1>9. QED  BY <1>2, <1>3, <1>4, <1>7, <1>8

-----------------------------------------------------------------------------
(* What can be read of a sector is a sequence. *)
LEMMA LoadedProperties ==
  ASSUME NEW sector \in [Slots -> Node \cup {Erased, Blank}],
         NEW n \in 0..Entries, Loaded(sector) = 1..n
  PROVE  /\ LoadedList(sector) \in Seq(Node)
         /\ Len(LoadedList(sector)) = n
         /\ \A i \in 1..n : LoadedList(sector)[i] = sector[i]
         /\ RangeOf(LoadedList(sector)) = {sector[i] : i \in 1..n}
<1>1. LoadedList(sector) = [i \in 1..n |-> sector[i]]  BY DEF LoadedList
<1>2. \A i \in 1..n : sector[i] \in Node
  <2> SUFFICES ASSUME NEW i \in 1..n  PROVE sector[i] \in Node
    OBVIOUS
  <2>1. i \in Loaded(sector)  OBVIOUS
  <2>2. i \in 1..Entries /\ ~IsBlank(sector[i])  BY <2>1 DEF Loaded
  <2>3. i \in Slots  BY <2>2, ListAssumption DEF ListAssumption, Slots
  <2>4. QED  BY <2>2, <2>3 DEF IsBlank
<1>3. LoadedList(sector) \in [1..n -> Node] /\ n \in Nat  BY <1>1, <1>2
<1>4. QED  BY <1>1, <1>3, FunctionIsSeq DEF RangeOf

Written(sector, k, r) == [sector EXCEPT ![k] = r]

(* A record written behind the others is read, or ends what can be read. *)
LEMMA WrittenProperties ==
  ASSUME NEW sector \in [Slots -> Node \cup {Erased, Blank}],
         NEW n \in 0..Entries, Loaded(sector) = 1..n,
         NEW k \in Slots, \A i \in Slots : i >= k => sector[i] = Erased,
         NEW r \in Node \cup {Erased, Blank}
  PROVE  /\ Written(sector, k, r) \in [Slots -> Node \cup {Erased, Blank}]
         /\ \A i \in 1..n : Written(sector, k, r)[i] = sector[i]
         /\ \/ Loaded(Written(sector, k, r)) = 1..n
            \/ /\ n = k - 1 /\ k \in 1..Entries /\ r \in Node
               /\ Loaded(Written(sector, k, r)) = 1..k
<1> DEFINE next == Written(sector, k, r)
<1>1. Entries \in Nat \ {0} /\ Slots = 1..(Entries + 1)
  BY ListAssumption DEF ListAssumption, Slots
<1>2. next \in [Slots -> Node \cup {Erased, Blank}] /\ next[k] = r
      /\ \A i \in Slots : i # k => next[i] = sector[i]
  BY DEF Written
<1> HIDE DEF next
<1>3. IsBlank(Erased) /\ IsBlank(Blank)  BY DEF IsBlank
<1>4. \A i \in 1..n : ~IsBlank(sector[i])  BY <1>1 DEF Loaded
<1>5. n < k  BY <1>1, <1>3, <1>4
<1>6. n + 1 \in 1..Entries => IsBlank(sector[n + 1])
  <2> SUFFICES ASSUME n + 1 \in 1..Entries, ~IsBlank(sector[n + 1])  PROVE FALSE
    OBVIOUS
  <2>1. \A j \in 1..(n + 1) : ~IsBlank(sector[j])  BY <1>4
  <2>2. n + 1 \in Loaded(sector)  BY <2>1 DEF Loaded
  <2>3. QED  BY <2>2
<1>7. \A i \in 1..n : i \in 1..Entries /\ ~IsBlank(next[i]) /\ next[i] = sector[i]
  BY <1>1, <1>2, <1>4, <1>5
<1>8. CASE IsBlank(next[n + 1]) \/ n = Entries
  <2>1. \A i \in Loaded(next) : i \in 1..n
    <3> SUFFICES ASSUME NEW i \in 1..Entries, \A j \in 1..i : ~IsBlank(next[j]), i > n
                 PROVE  FALSE
      BY DEF Loaded
    <3>1. n + 1 \in 1..i  BY <1>1
    <3>2. QED  BY <1>1, <1>8, <3>1
  <2>2. \A i \in 1..n : i \in Loaded(next)  BY <1>7 DEF Loaded
  <2>3. Loaded(next) = 1..n  BY <2>1, <2>2
  <2>4. QED  BY <1>2, <1>7, <2>3 DEF next
<1>9. CASE ~IsBlank(next[n + 1]) /\ n # Entries
  <2>1. n + 1 \in 1..Entries  BY <1>1, <1>9
  <2>2. k = n + 1 /\ r \in Node  BY <1>1, <1>2, <1>3, <1>6, <1>9, <2>1
  <2>3. \A j \in 1..k : ~IsBlank(next[j])  BY <1>7, <1>9, <2>2
  <2>4. k \in Loaded(next) /\ \A i \in 1..k : i \in Loaded(next)
    BY <2>1, <2>2, <2>3 DEF Loaded
  <2>5. ASSUME NEW i \in Loaded(next)  PROVE i \in 1..k
    <3>1. i \in 1..Entries /\ \A j \in 1..i : ~IsBlank(next[j])  BY DEF Loaded
    <3>2. k + 1 \in Slots /\ k + 1 > k  BY <1>1, <2>1, <2>2
    <3>3. next[k + 1] = Erased  BY <1>1, <1>2, <3>2
    <3>4. ~(k + 1 \in 1..i)  BY <1>3, <3>1, <3>3
    <3>5. QED  BY <1>1, <2>1, <2>2, <3>1, <3>4
  <2>6. Loaded(next) = 1..k  BY <2>4, <2>5
  <2>7. n = k - 1  BY <1>1, <2>2
  <2>8. QED  BY <1>2, <1>7, <2>1, <2>2, <2>6, <2>7 DEF next
<1>10. QED  BY <1>8, <1>9 DEF next

-----------------------------------------------------------------------------
LEMMA InitStep == ListInit => IInv /\ Store!Init
<1> SUFFICES ASSUME ListInit  PROVE IInv /\ Store!Init
  OBVIOUS
<1>1. Entries \in Nat \ {0} /\ Slots = 1..(Entries + 1)
  BY ListAssumption DEF ListAssumption, Slots
<1>2. /\ nodes = <<>> /\ at = 0 /\ flash = [i \in Slots |-> Erased]  BY DEF ListInit
<1>3. Loaded(flash) = {}
  <2>1. \A i \in 1..Entries : 1 \in 1..i /\ flash[1] = Erased  BY <1>1, <1>2
  <2>2. QED  BY <1>1, <2>1 DEF Loaded, IsBlank
<1>4. LoadedList(flash) = <<>>  BY <1>3 DEF LoadedList
<1>5. <<>> \in Seq(Node) /\ DOMAIN <<>> = {}  BY EmptySeq, LenProperties
<1>6. SectorInv
  <2>1. 0 \in 0..Entries /\ Loaded(flash) = 1..0  BY <1>1, <1>3
  <2>2. QED  BY <1>2, <2>1 DEF SectorInv
<1>7. ListTypeOK  BY <1>1, <1>2, <1>5 DEF ListTypeOK
<1>8. IInv  BY <1>2, <1>4, <1>5, <1>6, <1>7 DEF IInv, Distinct
<1>9. Store!Init  BY <1>2, <1>4, <1>5 DEF Store!Init, RangeOf
<1>10. QED  BY <1>8, <1>9

(* The erasure of the sector: nothing of an earlier save can be read. *)
LEMMA SaveStep ==
  ASSUME IInv, NEW list \in Seq(Node), Distinct(list), Save(list)
  PROVE  IInv' /\ RangeOf(LoadedList(flash')) = {}
<1>1. Entries \in Nat \ {0} /\ Slots = 1..(Entries + 1)
  BY ListAssumption DEF ListAssumption, Slots
<1>2. /\ nodes' = list /\ at' = 1 /\ flash' = [i \in Slots |-> Erased]  BY DEF Save
<1>3. Loaded(flash') = {}
  <2>1. \A i \in 1..Entries : 1 \in 1..i /\ flash'[1] = Erased  BY <1>1, <1>2
  <2>2. QED  BY <1>1, <2>1 DEF Loaded, IsBlank
<1>4. LoadedList(flash') = <<>>  BY <1>3 DEF LoadedList
<1>5. <<>> \in Seq(Node) /\ DOMAIN <<>> = {} /\ Len(list) \in Nat
  BY EmptySeq, LenProperties
<1>6. SectorInv'
  <2>1. 0 \in 0..Entries /\ Loaded(flash') = 1..0  BY <1>1, <1>3
  <2>2. at' <= Len(nodes') + 1 /\ \A i \in Slots : ~(i < at')  BY <1>1, <1>2, <1>5
  <2>3. QED  BY <1>2, <2>1, <2>2 DEF SectorInv, Slots
<1>7. ListTypeOK'  BY <1>1, <1>2 DEF ListTypeOK, Slots
<1>8. Distinct(nodes')  BY <1>2
<1>9. Distinct(LoadedList(flash'))  BY <1>4, <1>5 DEF Distinct
<1>10. RangeOf(LoadedList(flash')) = {}  BY <1>4, <1>5 DEF RangeOf
<1>11. QED  BY <1>6, <1>7, <1>8, <1>9, <1>10 DEF IInv, Distinct, Loaded, LoadedList

LEMMA AddStep ==
  ASSUME IInv, NEW n \in Node, Add(n)  PROVE IInv' /\ Store!Put(n)
<1>1. nodes \in Seq(Node) /\ Distinct(nodes)  BY DEF IInv, ListTypeOK
<1>2. /\ Added(nodes, n) \in Seq(Node) /\ Distinct(Added(nodes, n))
      /\ RangeOf(Added(nodes, n)) = {m \in RangeOf(nodes) : m.ssid # n.ssid} \cup {n}
  BY <1>1, AddedProperties
<1>3. Save(Added(nodes, n))  BY DEF Add
<1>4. IInv' /\ RangeOf(LoadedList(flash')) = {}  BY <1>2, <1>3, SaveStep
<1>5. at = 0 /\ at' = 1 /\ nodes' = Added(nodes, n)  BY <1>3 DEF Save
<1>6. RangeOf(nodes') = Store!Without(RangeOf(nodes), n.ssid) \cup {n}
  BY <1>2, <1>5 DEF Store!Without
<1>7. (RangeOf(LoadedList(flash)))' = {}  BY <1>4 DEF RangeOf, LoadedList, Loaded
<1>8. QED  BY <1>4, <1>5, <1>6, <1>7 DEF Store!Put, RangeOf

LEMMA DeleteStep ==
  ASSUME IInv, NEW s \in Ssid, Delete(s)  PROVE IInv' /\ Store!Forget(s)
<1>1. nodes \in Seq(Node) /\ Distinct(nodes)  BY DEF IInv, ListTypeOK
<1>2. /\ Deleted(nodes, s) \in Seq(Node) /\ Distinct(Deleted(nodes, s))
      /\ RangeOf(Deleted(nodes, s)) = {m \in RangeOf(nodes) : m.ssid # s}
  BY <1>1, DeletedProperties
<1>3. Save(Deleted(nodes, s))  BY DEF Delete
<1>4. IInv' /\ RangeOf(LoadedList(flash')) = {}  BY <1>2, <1>3, SaveStep
<1>5. at = 0 /\ at' = 1 /\ nodes' = Deleted(nodes, s)  BY <1>3 DEF Save
<1>6. RangeOf(nodes') = Store!Without(RangeOf(nodes), s)
  BY <1>2, <1>5 DEF Store!Without
<1>7. (RangeOf(LoadedList(flash)))' = {}  BY <1>4 DEF RangeOf, LoadedList, Loaded
<1>8. QED  BY <1>4, <1>5, <1>6, <1>7 DEF Store!Forget, RangeOf

(* A record written at its place, whole or damaged: what can be read are   *)
(* the same records, and perhaps the new one.                              *)
LEMMA RecordStep ==
  ASSUME IInv, at \in 1..Entries, at <= Len(nodes),
         NEW secret \in Secret \cup {Torn}
  PROVE  LET r == [ssid |-> nodes[at].ssid, secret |-> secret]
             next == Written(flash, at, r)
         IN  /\ next \in [Slots -> Node \cup {Erased, Blank}]
             /\ \E n \in 0..Entries : Loaded(next) = 1..n
             /\ LoadedList(next) \in Seq(Node) /\ Distinct(LoadedList(next))
             /\ RangeOf(LoadedList(next)) = RangeOf(LoadedList(flash))
                \/ RangeOf(LoadedList(next)) = RangeOf(LoadedList(flash)) \cup {r}
<1> DEFINE r == [ssid |-> nodes[at].ssid, secret |-> secret]
           next == Written(flash, at, r)
<1>1. Entries \in Nat \ {0} /\ Slots = 1..(Entries + 1)
  BY ListAssumption DEF ListAssumption, Slots
<1>2. /\ nodes \in [1..Len(nodes) -> Node] /\ Len(nodes) \in Nat /\ DOMAIN nodes = 1..Len(nodes)
      /\ flash \in [Slots -> Node \cup {Erased, Blank}]
  BY LenProperties DEF IInv, ListTypeOK
<1>3. nodes[at] \in Node /\ r \in Node  BY <1>2 DEF Node
<1>4. PICK n \in 0..Entries : Loaded(flash) = 1..n  BY DEF IInv, SectorInv
<1>5. at \in Slots /\ \A i \in Slots : flash[i] = IF i < at THEN nodes[i] ELSE Erased
  BY <1>1 DEF IInv, SectorInv
<1>6. \A i \in Slots : i >= at => flash[i] = Erased  BY <1>1, <1>5
<1> HIDE DEF r
<1>7. /\ next \in [Slots -> Node \cup {Erased, Blank}]
      /\ \A i \in 1..n : next[i] = flash[i]
      /\ Loaded(next) = 1..n \/ (n = at - 1 /\ Loaded(next) = 1..at)
  <2>1. r \in Node \cup {Erased, Blank} /\ at \in Slots  BY <1>3, <1>5
  <2>2. /\ next \in [Slots -> Node \cup {Erased, Blank}]
        /\ \A i \in 1..n : next[i] = flash[i]
        /\ \/ Loaded(next) = 1..n
           \/ n = at - 1 /\ at \in 1..Entries /\ r \in Node /\ Loaded(next) = 1..at
    BY <1>2, <1>4, <1>6, <2>1, WrittenProperties
  <2>3. QED  BY <2>2
<1>8. next[at] = r  BY <1>2, <1>5 DEF Written
<1>9. r.ssid = nodes[at].ssid  BY DEF r
<1> HIDE DEF next
<1>10. /\ RangeOf(LoadedList(flash)) = {flash[i] : i \in 1..n}
  BY <1>2, <1>4, LoadedProperties
<1>11. CASE Loaded(next) = 1..n
  <2>1. /\ LoadedList(next) = LoadedList(flash)  BY <1>4, <1>7, <1>11 DEF LoadedList
  <2>2. LoadedList(flash) \in Seq(Node)  BY <1>2, <1>4, LoadedProperties
  <2>3. QED  BY <1>7, <1>11, <2>1, <2>2 DEF IInv, next, r
<1>12. CASE n = at - 1 /\ Loaded(next) = 1..at
  <2>1. at \in 0..Entries  BY <1>1
  <2>2. /\ LoadedList(next) \in Seq(Node) /\ Len(LoadedList(next)) = at
        /\ \A i \in 1..at : LoadedList(next)[i] = next[i]
        /\ RangeOf(LoadedList(next)) = {next[i] : i \in 1..at}
    BY <1>7, <1>12, <2>1, LoadedProperties
  <2>3. DOMAIN LoadedList(next) = 1..at  BY <2>2, LenProperties
  <2>4. \A i \in 1..at : next[i].ssid = nodes[i].ssid
    BY <1>1, <1>5, <1>7, <1>8, <1>9, <1>12
  <2>5. \A i \in 1..at : i \in DOMAIN nodes  BY <1>1, <1>2
  <2>6. Distinct(LoadedList(next))
    BY <2>2, <2>3, <2>4, <2>5 DEF Distinct, IInv
  <2>7. {next[i] : i \in 1..at} = {flash[i] : i \in 1..n} \cup {r}
    BY <1>1, <1>7, <1>8, <1>12
  <2>8. QED  BY <1>7, <1>10, <1>12, <2>1, <2>2, <2>6, <2>7 DEF next, r
<1>13. QED  BY <1>7, <1>11, <1>12

(* A record, written whole: more of what is known is kept. *)
LEMMA WriteRecordStep == ASSUME IInv, WriteRecord  PROVE IInv' /\ Store!Keep
<1>1. Entries \in Nat \ {0} /\ Slots = 1..(Entries + 1)
  BY ListAssumption DEF ListAssumption, Slots
<1>2. /\ at \in 1..Entries /\ at <= Len(nodes) /\ at' = at + 1 /\ nodes' = nodes
      /\ flash' = [flash EXCEPT ![at] = nodes[at]]
  BY DEF WriteRecord
<1>3. /\ nodes \in [1..Len(nodes) -> Node] /\ Len(nodes) \in Nat /\ DOMAIN nodes = 1..Len(nodes)
      /\ flash \in [Slots -> Node \cup {Erased, Blank}] /\ nodes \in Seq(Node)
  BY LenProperties DEF IInv, ListTypeOK
<1>4. nodes[at] \in Node  BY <1>2, <1>3
<1>5. PICK secret \in Secret \cup {Torn} : nodes[at] = [ssid |-> nodes[at].ssid, secret |-> secret]
  BY <1>4 DEF Node
<1>6. flash' = Written(flash, at, [ssid |-> nodes[at].ssid, secret |-> secret])
  BY <1>2, <1>5 DEF Written
<1>7. /\ flash' \in [Slots -> Node \cup {Erased, Blank}]
      /\ \E n \in 0..Entries : Loaded(flash') = 1..n
      /\ LoadedList(flash') \in Seq(Node) /\ Distinct(LoadedList(flash'))
  BY <1>2, <1>6, RecordStep
<1>8. at \in Slots /\ \A i \in Slots : flash[i] = IF i < at THEN nodes[i] ELSE Erased
  BY <1>1, <1>2 DEF IInv, SectorInv
<1>9. \A i \in Slots : flash'[i] = IF i < at + 1 THEN nodes[i] ELSE Erased
  BY <1>1, <1>2, <1>3, <1>8
<1>10. SectorInv'
  <2>1. at' # 0 /\ at' <= Len(nodes') + 1  BY <1>2, <1>3
  <2>2. \A i \in Slots : flash'[i] = IF i < at' THEN nodes'[i] ELSE Erased  BY <1>2, <1>9
  <2>3. (\E n \in 0..Entries : Loaded(flash) = 1..n)'  BY <1>7 DEF Loaded
  <2>4. QED  BY <2>1, <2>2, <2>3 DEF SectorInv, Slots
<1>11. ListTypeOK'  BY <1>1, <1>2, <1>3, <1>7 DEF ListTypeOK, Slots
<1>12. IInv'
  BY <1>2, <1>7, <1>10, <1>11 DEF IInv, Distinct, LoadedList, Loaded
<1>13. RangeOf(LoadedList(flash')) \subseteq RangeOf(nodes)
  <2>1. PICK n \in 0..Entries : Loaded(flash') = 1..n  BY <1>7
  <2>2. RangeOf(LoadedList(flash')) = {flash'[i] : i \in 1..n}
    BY <1>7, <2>1, LoadedProperties
  <2>3. \A i \in 1..n : i < at + 1
    <3>1. \A i \in Loaded(flash') : \A j \in 1..i : ~IsBlank(flash'[j])  BY DEF Loaded
    <3>2. at + 1 \in Slots /\ IsBlank(flash'[at + 1])  BY <1>1, <1>2, <1>9 DEF IsBlank
    <3>3. \A i \in 1..n : ~(at + 1 \in 1..i)  BY <2>1, <3>1, <3>2
    <3>4. QED  BY <1>1, <1>2, <3>3
  <2>4. \A i \in 1..n : i \in DOMAIN nodes /\ flash'[i] = nodes[i]
    BY <1>1, <1>2, <1>3, <1>9, <2>3
  <2>5. QED  BY <2>2, <2>4 DEF RangeOf
<1>14. (RangeOf(LoadedList(flash)))' \subseteq RangeOf(nodes)
  BY <1>13 DEF RangeOf, LoadedList, Loaded
<1>15. at # 0 /\ at' # 0  BY <1>2
<1>16. QED  BY <1>2, <1>12, <1>14, <1>15 DEF Store!Keep

LEMMA DistinctCardinality ==
  ASSUME NEW list \in Seq(Node), Distinct(list)
  PROVE  Cardinality(RangeOf(list)) = Len(list)
<1>1. list \in [1..Len(list) -> Node] /\ Len(list) \in Nat /\ DOMAIN list = 1..Len(list)
  BY LenProperties
<1>2. list \in [1..Len(list) -> RangeOf(list)]  BY <1>1 DEF RangeOf
<1>3. \A i, j \in 1..Len(list) : list[i] = list[j] => i = j  BY <1>1 DEF Distinct
<1>4. \A n \in RangeOf(list) : \E i \in 1..Len(list) : list[i] = n  BY <1>1 DEF RangeOf
<1>5. list \in Bijection(1..Len(list), RangeOf(list))
  BY <1>2, <1>3, <1>4 DEF Bijection, Injection, Surjection, IsInjective
<1>6. ExistsBijection(1..Len(list), RangeOf(list))  BY <1>5 DEF ExistsBijection
<1>7. QED  BY <1>1, <1>6, FS_CountingElements

(* The blank record: all is kept that the sector has room for. *)
LEMMA WriteBlankStep == ASSUME IInv, WriteBlank  PROVE IInv' /\ Store!Kept
<1>1. Entries \in Nat \ {0} /\ Slots = 1..(Entries + 1) /\ Blank \notin Node /\ Erased \notin Node
  BY ListAssumption DEF ListAssumption, Slots, Node
<1>2. /\ at > 0 /\ (at > Entries \/ at > Len(nodes)) /\ at' = 0 /\ nodes' = nodes
      /\ flash' = Written(flash, at, Blank)
  BY DEF WriteBlank, Written
<1>3. /\ nodes \in [1..Len(nodes) -> Node] /\ Len(nodes) \in Nat /\ DOMAIN nodes = 1..Len(nodes)
      /\ flash \in [Slots -> Node \cup {Erased, Blank}] /\ nodes \in Seq(Node)
      /\ Distinct(nodes) /\ at \in 0..(Entries + 1)
  BY LenProperties DEF IInv, ListTypeOK
<1>4. /\ at \in Slots /\ at <= Len(nodes) + 1
      /\ \A i \in Slots : flash[i] = IF i < at THEN nodes[i] ELSE Erased
  BY <1>1, <1>2, <1>3 DEF IInv, SectorInv
<1>5. PICK n \in 0..Entries : Loaded(flash) = 1..n  BY DEF IInv, SectorInv
<1>6. \A i \in Slots : i >= at => flash[i] = Erased  BY <1>1, <1>4
<1>7. /\ flash' \in [Slots -> Node \cup {Erased, Blank}]
      /\ \A i \in 1..n : flash'[i] = flash[i]
      /\ Loaded(flash') = 1..n
  <2>1. Blank \in Node \cup {Erased, Blank}  OBVIOUS
  <2>2. QED  BY <1>1, <1>2, <1>3, <1>4, <1>5, <1>6, <2>1, WrittenProperties
<1>8. LoadedList(flash') = LoadedList(flash)  BY <1>5, <1>7 DEF LoadedList
<1>9. SectorInv'
  <2>1. (\E m \in 0..Entries : Loaded(flash) = 1..m)'  BY <1>7 DEF Loaded
  <2>2. QED  BY <1>2, <2>1 DEF SectorInv
<1>10. ListTypeOK'  BY <1>1, <1>2, <1>3, <1>7 DEF ListTypeOK, Slots
<1>11. IInv'
  <2>1. Distinct(nodes)'  BY <1>2, <1>3 DEF Distinct
  <2>2. Distinct(LoadedList(flash))  BY DEF IInv
  <2>3. Distinct(LoadedList(flash))'  BY <1>8, <2>2 DEF Distinct, LoadedList, Loaded
  <2>4. QED  BY <1>9, <1>10, <2>1, <2>3 DEF IInv
<1>12. n < at
  <2>1. \A i \in Loaded(flash) : ~IsBlank(flash[i])
    <3>1. \A i \in Loaded(flash) : i \in 1..i /\ \A j \in 1..i : ~IsBlank(flash[j])
      BY <1>1 DEF Loaded
    <3>2. QED  BY <3>1
  <2>2. ~(at \in Loaded(flash))  BY <1>1, <1>4, <2>1 DEF IsBlank
  <2>3. QED  BY <1>1, <1>4, <1>5, <2>2
<1>13. RangeOf(LoadedList(flash)) = {flash[i] : i \in 1..n}
  BY <1>3, <1>5, LoadedProperties
<1>14. \A i \in 1..n : i \in DOMAIN nodes /\ flash[i] = nodes[i]
  BY <1>1, <1>3, <1>4, <1>12
<1>15. RangeOf(LoadedList(flash)) \subseteq RangeOf(nodes)  BY <1>13, <1>14 DEF RangeOf
<1>16. ASSUME Cardinality(RangeOf(nodes)) <= Entries,
              Store!Without(RangeOf(nodes), Nameless) = RangeOf(nodes)
       PROVE  RangeOf(LoadedList(flash)) = RangeOf(nodes)
  <2>1. Len(nodes) <= Entries  BY <1>3, <1>16, DistinctCardinality
  <2>2. at = Len(nodes) + 1  BY <1>1, <1>2, <1>3, <1>4, <2>1
  <2>3. \A i \in 1..Len(nodes) : ~IsBlank(flash[i])
    <3> SUFFICES ASSUME NEW i \in 1..Len(nodes)  PROVE ~IsBlank(flash[i])
      OBVIOUS
    <3>1. flash[i] = nodes[i] /\ nodes[i] \in Node  BY <1>1, <1>3, <1>4, <2>1, <2>2
    <3>2. nodes[i] \in RangeOf(nodes)  BY <1>3 DEF RangeOf
    <3>3. nodes[i].ssid # Nameless  BY <1>16, <3>2 DEF Store!Without
    <3>4. QED  BY <1>1, <3>1, <3>3 DEF IsBlank
  <2>4. \A i \in 1..Len(nodes) : i \in Loaded(flash)  BY <1>1, <1>3, <2>1, <2>3 DEF Loaded
  <2>5. n = Len(nodes)
    <3>1. Len(nodes) # 0 => Len(nodes) \in 1..n  BY <1>3, <1>5, <2>4
    <3>2. n <= Len(nodes)  BY <1>1, <1>3, <1>12, <2>2
    <3>3. Len(nodes) <= n  BY <1>1, <1>3, <3>1
    <3>4. n \in Int /\ Len(nodes) \in Int  BY <1>1, <1>3
    <3>5. QED  BY <3>2, <3>3, <3>4
  <2>6. QED  BY <1>3, <1>13, <1>14, <2>5 DEF RangeOf
<1>17. (RangeOf(LoadedList(flash)))' = RangeOf(LoadedList(flash))
  BY <1>8 DEF RangeOf, LoadedList, Loaded
<1>18. RangeOf(nodes)' = RangeOf(nodes) /\ at # 0 /\ at' = 0  BY <1>2, <1>3 DEF RangeOf
<1>19. Store!Kept
  <2> DEFINE kept2 == RangeOf(LoadedList(flash))
             known2 == RangeOf(nodes)
  <2>1. kept2' = kept2 /\ known2' = known2 /\ kept2 \subseteq known2  BY <1>15, <1>17, <1>18
  <2>2. Cardinality(known2) <= Entries /\ Store!Without(known2, Nameless) = known2
        => kept2 = known2
    BY <1>16
  <2>3. (at # 0) /\ (at # 0)' = FALSE  BY <1>18
  <2> HIDE DEF kept2, known2
  <2>4. /\ kept2' \subseteq known2
        /\ Cardinality(known2) <= Entries /\ Store!Without(known2, Nameless) = known2
           => kept2' = known2
    BY <2>1, <2>2
  <2>5. QED  BY <2>1, <2>3, <2>4 DEF Store!Kept, kept2, known2, Store!Cardinality, Cardinality
<1>20. QED  BY <1>11, <1>19

(* A power failure: what is known is what was kept, or was being written. *)
LEMMA PowerLossStep == ASSUME IInv, PowerLoss  PROVE IInv' /\ Store!Restart
<1>1. nodes' = LoadedList(flash') /\ at' = 0 /\ flash' \in Interrupted  BY DEF PowerLoss
<1>2. Entries \in Nat \ {0} /\ flash \in [Slots -> Node \cup {Erased, Blank}] /\ 0 \in 0..(Entries + 1)
  BY ListAssumption DEF IInv, ListTypeOK, ListAssumption
<1>3. CASE flash' = flash
  <2>1. PICK n \in 0..Entries : Loaded(flash) = 1..n  BY DEF IInv, SectorInv
  <2>2. LoadedList(flash) \in Seq(Node)  BY <1>2, <2>1, LoadedProperties
  <2>3. Distinct(LoadedList(flash))  BY DEF IInv
  <2>4. LoadedList(flash') = LoadedList(flash) /\ nodes' = LoadedList(flash)  BY <1>1, <1>3
  <2>5. ListTypeOK'  BY <1>1, <1>2, <1>3, <2>2, <2>4 DEF ListTypeOK, Slots
  <2>6. SectorInv'  BY <1>1, <1>3, <2>1 DEF SectorInv, Loaded
  <2>7. IInv'
    BY <2>3, <2>4, <2>5, <2>6 DEF IInv, Distinct, LoadedList, Loaded
  <2>8. RangeOf(nodes)' = RangeOf(LoadedList(flash))
        /\ (RangeOf(LoadedList(flash)))' = RangeOf(LoadedList(flash))
    BY <2>4 DEF RangeOf, LoadedList, Loaded
  <2>9. QED  BY <1>1, <2>7, <2>8 DEF Store!Restart
<1>4. CASE /\ at \in 1..Entries /\ at <= Len(nodes)
           /\ flash' = [flash EXCEPT ![at] = [ssid |-> nodes[at].ssid, secret |-> Torn]]
  <2> DEFINE r == [ssid |-> nodes[at].ssid, secret |-> Torn]
  <2>1. flash' = Written(flash, at, r)  BY <1>4 DEF Written
  <2>2. /\ flash' \in [Slots -> Node \cup {Erased, Blank}]
        /\ \E n \in 0..Entries : Loaded(flash') = 1..n
        /\ LoadedList(flash') \in Seq(Node) /\ Distinct(LoadedList(flash'))
        /\ \/ RangeOf(LoadedList(flash')) = RangeOf(LoadedList(flash))
           \/ RangeOf(LoadedList(flash')) = RangeOf(LoadedList(flash)) \cup {r}
    <3>1. Torn \in Secret \cup {Torn}  OBVIOUS
    <3>2. QED  BY <1>4, <2>1, <3>1, RecordStep
  <2>3. ListTypeOK'  BY <1>1, <1>2, <2>2 DEF ListTypeOK, Slots
  <2>4. SectorInv'
    <3>1. (\E n \in 0..Entries : Loaded(flash) = 1..n)'  BY <2>2 DEF Loaded
    <3>2. QED  BY <1>1, <3>1 DEF SectorInv
  <2>5. IInv'
    BY <1>1, <2>2, <2>3, <2>4 DEF IInv, Distinct, LoadedList, Loaded
  <2>6. RangeOf(nodes)' = RangeOf(LoadedList(flash'))
        /\ (RangeOf(LoadedList(flash)))' = RangeOf(LoadedList(flash'))
    BY <1>1 DEF RangeOf, LoadedList, Loaded
  <2>7. nodes[at] \in RangeOf(nodes) /\ r = Store!Damaged(nodes[at].ssid) /\ at # 0
    <3>1. DOMAIN nodes = 1..Len(nodes)  BY LenProperties DEF IInv, ListTypeOK
    <3>2. QED  BY <1>2, <1>4, <3>1 DEF RangeOf, Store!Damaged
  <2>8. QED  BY <1>1, <2>2, <2>5, <2>6, <2>7 DEF Store!Restart
<1>5. QED  BY <1>1, <1>3, <1>4 DEF Interrupted

-----------------------------------------------------------------------------
(* Every step of the list is a step of the store, or changes nothing.      *)
LEMMA ListStep ==
  ASSUME IInv, [ListNext]_listVars  PROVE IInv' /\ [Store!Next]_(Store!storeVars)
<1>1. CASE \E n \in Node : Add(n)
  <2>1. PICK n \in Node : Add(n)  BY <1>1
  <2>2. n \in Store!Network  BY DEF Node, Store!Network
  <2>3. QED  BY <2>1, <2>2, AddStep DEF Store!Next
<1>2. CASE \E s \in Ssid : Delete(s)
  BY <1>2, DeleteStep DEF Store!Next
<1>3. CASE WriteRecord  BY <1>3, WriteRecordStep DEF Store!Next
<1>4. CASE WriteBlank  BY <1>4, WriteBlankStep DEF Store!Next
<1>5. CASE PowerLoss  BY <1>5, PowerLossStep DEF Store!Next
<1>6. CASE UNCHANGED listVars
  <2>1. nodes' = nodes /\ flash' = flash /\ at' = at  BY <1>6 DEF listVars
  <2>2. IInv'
    BY <2>1 DEF IInv, ListTypeOK, SectorInv, Distinct, LoadedList, Loaded, Slots
  <2>3. UNCHANGED Store!storeVars
    BY <2>1 DEF Store!storeVars, RangeOf, LoadedList, Loaded
  <2>4. QED  BY <2>2, <2>3
<1>7. QED  BY <1>1, <1>2, <1>3, <1>4, <1>5, <1>6 DEF ListNext

(* What www_wifi_let_save adds is a node of the name it was asked for. *)
LEMMA SavedNode ==
  ASSUME IInv, NEW json \in Requests, LetSave(json)
  PROVE  /\ StationInfoSet(json).ssid \in Ssid
         /\ \E n \in Node : n.ssid = StationInfoSet(json).ssid /\ Add(n)
<1> DEFINE info == StationInfoSet(json)
<1>1. info.ssid \in Ssid
  <2>1. "ssid" \in DOMAIN json /\ json.ssid \in Ssid  BY DEF Requests
  <2>2. QED  BY <2>1 DEF StationInfoSet
<1>2. info.passwordSet /\ info.password # Empty => info.password \in Secret
  <2>1. "password" \in DOMAIN json => json.password \in Secret \cup {Empty}
    BY DEF Requests
  <2>2. QED  BY <2>1 DEF StationInfoSet
<1>3. GetPassword(info.ssid) \in Secret \cup {Torn}
  <2>1. SsidExist(info.ssid) =>
          (CHOOSE i \in Found(nodes, info.ssid) : TRUE) \in DOMAIN nodes
    BY DEF SsidExist, Found
  <2>2. \A i \in DOMAIN nodes : nodes[i] \in Node
    <3>1. nodes \in Seq(Node)  BY DEF IInv, ListTypeOK
    <3>2. DOMAIN nodes = 1..Len(nodes)  BY <3>1, LenProperties
    <3>3. QED  BY <3>1, <3>2
  <2>3. \A n \in Node : n.secret \in Secret \cup {Torn}  BY DEF Node
  <2>4. QED  BY <2>1, <2>2, <2>3, ListAssumption DEF GetPassword, ListAssumption
<1>4. PICK secret \in Given(info) : Add([ssid |-> info.ssid, secret |-> secret])
  BY DEF LetSave
<1>5. secret \in Secret \cup {Torn}
  BY <1>2, <1>3, <1>4, ListAssumption DEF Given, ListAssumption
<1>6. [ssid |-> info.ssid, secret |-> secret] \in Node  BY <1>1, <1>5 DEF Node
<1>7. QED  BY <1>1, <1>4, <1>6

(* A request of the pages is a step of the list, or leaves it alone.       *)
LEMMA PagesStep == ASSUME IInv, [Next]_vars  PROVE [ListNext]_listVars
<1>1. CASE \E c \in Client : (\E page \in {"scan", "list"} : Ask(c, page)) \/ More(c) \/ Leave(c)
  BY <1>1 DEF Ask, More, Leave, Call
<1>2. CASE ScanDone  BY <1>2 DEF ScanDone
<1>3. ASSUME NEW s \in Ssid, LetDelete(s)  PROVE ListNext
  BY <1>3 DEF LetDelete, ListNext
<1>4. ASSUME NEW json \in Requests, LetSave(json)  PROVE ListNext
  BY <1>4, SavedNode DEF ListNext
<1>5. CASE Saving  BY <1>5 DEF Saving, ListNext
<1>6. CASE Restart  BY <1>6 DEF Restart, ListNext
<1>7. CASE UNCHANGED vars  BY <1>7 DEF vars, listVars
<1>8. QED  BY <1>1, <1>2, <1>3, <1>4, <1>5, <1>6, <1>7 DEF Next

(* The list of wifi_list.c has its types, and no network is in it twice.   *)
THEOREM ListInvariant == Spec => []IInv
<1>1. Init => IInv  BY InitStep DEF Init
<1>2. IInv /\ [Next]_vars => IInv'  BY PagesStep, ListStep
<1>3. QED  BY <1>1, <1>2, PTL DEF Spec

(* The configuration pages keep the networks as NetworkStore promises: no  *)
(* restart brings a forgotten network or an old secret back, or loses what *)
(* was not just being saved.                                               *)
THEOREM NetworksKept == Spec => KeepsNetworks
<1>1. Init => Store!Init  BY InitStep DEF Init
<1>2. IInv /\ [Next]_vars => [Store!Next]_(Store!storeVars)  BY PagesStep, ListStep
<1>3. QED  BY <1>1, <1>2, ListInvariant, PTL DEF Spec, KeepsNetworks, Store!Spec

-----------------------------------------------------------------------------
(***************************************************************************)
(* The answers of the pages.  One of access points that no scan disturbed  *)
(* still has to send those from next on; one of networks those that have   *)
(* stayed in the list and stand behind the node it goes on with.           *)
(***************************************************************************)
ScanUnderWay(a, aps, busy) ==
  /\ ~busy
  /\ a.stayed = 1..aps
  /\ a.missing = {i \in 1..aps : i >= a.next}

GoesOnAt(a, list, k) ==
  /\ list[k].ssid = a.next
  /\ \A i \in 1..Len(list) :
       list[i].ssid \in a.missing <=> list[i].ssid \in a.stayed /\ i >= k

ListUnderWay(a, list) ==
  /\ a.missing \subseteq a.stayed
  /\ \A s \in a.stayed : \E i \in 1..Len(list) : list[i].ssid = s
  /\ \E k \in 1..Len(list) : GoesOnAt(a, list, k)

UnderWay(a, list, aps, busy) ==
  /\ a.next \in IF a.page = "scan" THEN 1..MaxAps ELSE Ssid
  /\ a.disturbed \/
       /\ a.heads = 1 /\ ~a.twice
       /\ IF a.page = "scan" THEN ScanUnderWay(a, aps, busy) ELSE ListUnderWay(a, list)

Fits(a, list, aps, busy) ==
  /\ a \in Answer
  /\ IF a.over THEN a.whole ELSE UnderWay(a, list, aps, busy)

PageTypes ==
  /\ {everScanned, scanInProgress, scanning} \subseteq BOOLEAN
  /\ scanning => scanInProgress
  /\ noAps \in 0..MaxAps
  /\ answer \in [Client -> Answer]

AnswersInv ==
  /\ PageTypes
  /\ \A c \in Client : Fits(answer[c], nodes, noAps, scanInProgress)

-----------------------------------------------------------------------------
LEMMA AnswerParts ==
  ASSUME NEW a \in Answer
  PROVE  /\ a.page \in {"scan", "list"} /\ a.next \in Item \cup {NoItem}
         /\ a.heads \in 0..2
         /\ a.over \in BOOLEAN /\ a.twice \in BOOLEAN
         /\ a.disturbed \in BOOLEAN /\ a.whole \in BOOLEAN
         /\ a.stayed \in SUBSET Item /\ a.missing \in SUBSET Item
  BY DEF Answer

LEMMA AskedProperties ==
  ASSUME NEW page \in {"scan", "list"}, NEW a, a = Asked(page)
  PROVE  /\ a \in Answer
         /\ a.page = page /\ a.next = NoItem /\ a.heads = 0
         /\ ~a.over /\ ~a.twice /\ ~a.disturbed /\ ~a.whole
         /\ a.stayed = {} /\ a.missing = {}
  BY DEF Asked, Answer

LEMMA NothingProperties == Nothing \in Answer /\ Nothing.over /\ Nothing.whole
<1> DEFINE a == Asked("scan")
           b == [a EXCEPT !.over = TRUE]
<1>1. a \in Answer
  BY AskedProperties
<1> HIDE DEF a
<1>2. b \in Answer /\ b.over
  BY <1>1 DEF Answer
<1>3. Nothing = [b EXCEPT !.whole = TRUE]
  BY DEF Nothing, a
<1> HIDE DEF b
<1>4. QED  BY <1>2, <1>3 DEF Answer

(* The end of an answer, whole or disturbed. *)
LEMMA EndedProperties ==
  ASSUME NEW a, Whole(a) \/ a.disturbed = TRUE,
         NEW list, NEW aps, NEW busy
  PROVE  Ended(a).over /\ Fits(Ended(a), list, aps, busy)
<1>1. Nothing \in Answer /\ Nothing.over
  BY NothingProperties
<1>2. Ended(a) = [Nothing EXCEPT !.whole = TRUE]
  BY DEF Ended
<1>3. Ended(a) \in Answer /\ Ended(a).over /\ Ended(a).whole
  BY <1>1, <1>2 DEF Answer
<1>4. QED  BY <1>3 DEF Fits

LEMMA NothingFits ==
  ASSUME NEW list, NEW aps, NEW busy
  PROVE  Fits(Nothing, list, aps, busy)
  BY NothingProperties DEF Fits

LEMMA OverFits ==
  ASSUME NEW a, a.over, NEW list, NEW aps, NEW busy, Fits(a, list, aps, busy),
         NEW list2, NEW aps2, NEW busy2
  PROVE  Fits(a, list2, aps2, busy2)
  BY DEF Fits

(* A piece of an answer that goes on. *)
LEMMA SendProperties ==
  ASSUME NEW a \in Answer, ~a.over,
         NEW items, NEW next \in Item, next # NoItem,
         NEW b, b = Send(a, items, next)
  PROVE  /\ b \in Answer /\ ~b.over
         /\ b.page = a.page /\ b.next = next /\ b.heads = a.heads
         /\ b.stayed = a.stayed /\ b.missing = a.missing \ items
         /\ b.disturbed = a.disturbed
         /\ ~a.twice /\ items \cap (a.stayed \ a.missing) = {} => ~b.twice
<1> DEFINE m == a.missing \ items
           t == a.twice \/ items \cap (a.stayed \ a.missing) # {}
           x == [a EXCEPT !.missing = m]
           y == [x EXCEPT !.twice = t]
<1>1. m \in SUBSET Item /\ t \in BOOLEAN
  BY AnswerParts
<1>2. b = [y EXCEPT !.next = next]
  BY DEF Send
<1>3. ~a.twice /\ items \cap (a.stayed \ a.missing) = {} => t = FALSE
  OBVIOUS
<1> HIDE DEF m, t
<1>4. /\ x \in Answer /\ x.page = a.page /\ x.heads = a.heads
      /\ x.stayed = a.stayed /\ x.missing = m /\ x.over = a.over
      /\ x.disturbed = a.disturbed
  BY <1>1 DEF Answer
<1> HIDE DEF x
<1>5. /\ y \in Answer /\ y.page = x.page /\ y.heads = x.heads
      /\ y.stayed = x.stayed /\ y.missing = m /\ y.over = x.over
      /\ y.disturbed = x.disturbed /\ y.twice = t
  BY <1>1, <1>4 DEF Answer
<1> HIDE DEF y
<1>6. /\ b \in Answer /\ b.page = y.page /\ b.heads = y.heads
      /\ b.stayed = y.stayed /\ b.missing = m /\ b.over = y.over
      /\ b.disturbed = y.disturbed /\ b.twice = t /\ b.next = next
  BY <1>2, <1>5 DEF Answer
<1>7. QED  BY <1>3, <1>4, <1>5, <1>6 DEF m

(* The last piece of an answer. *)
LEMMA LastPieceFits ==
  ASSUME NEW a \in Answer, NEW items, NEW b, b = Send(a, items, NoItem),
         \/ a.disturbed
         \/ /\ a.heads = 1 /\ ~a.twice /\ a.missing \subseteq items
            /\ items \cap (a.stayed \ a.missing) = {},
         NEW list, NEW aps, NEW busy
  PROVE  b.over /\ Fits(b, list, aps, busy)
<1> DEFINE m == a.missing \ items
           t == a.twice \/ items \cap (a.stayed \ a.missing) # {}
           x == [a EXCEPT !.missing = m]
           y == [x EXCEPT !.twice = t]
<1>1. m \in SUBSET Item /\ t \in BOOLEAN /\ a.disturbed \in BOOLEAN
  BY AnswerParts
<1>2. b = Ended(y)
  BY DEF Send
<1>3. a.disturbed \/ (m = {} /\ t = FALSE /\ a.heads = 1)
  OBVIOUS
<1> HIDE DEF m, t
<1>4. /\ x \in Answer /\ x.heads = a.heads /\ x.missing = m
      /\ x.disturbed = a.disturbed
  BY <1>1 DEF Answer
<1> HIDE DEF x
<1>5. y.heads = x.heads /\ y.missing = m /\ y.disturbed = x.disturbed /\ y.twice = t
  BY <1>1, <1>4 DEF Answer
<1> HIDE DEF y
<1>6. Whole(y) \/ y.disturbed = TRUE
  BY <1>1, <1>3, <1>4, <1>5 DEF Whole
<1>7. QED  BY <1>2, <1>6, EndedProperties

(***************************************************************************)
(* The pieces of an answer of access points.                               *)
(***************************************************************************)
LEMMA ScanConstants ==
  /\ MaxAps \in Nat /\ MaxAps >= 1
  /\ \A i \in 1..MaxAps : i \in Item /\ i \in Int /\ i # NoItem
  /\ \A s \in Ssid : s \in Item /\ s # NoItem
<1>1. MaxAps \in Nat \ {0} /\ NoItem \notin Ssid \cup 1..MaxAps
  BY PagesAssumption
<1>2. QED  BY <1>1 DEF Item

LEMMA OpenedProperties ==
  ASSUME NEW a \in Answer, a.heads = 0, ~a.over,
         NEW items \in SUBSET Item, NEW first \in Item,
         NEW b, b = Opened(a, items, first)
  PROVE  /\ b \in Answer /\ b.page = a.page /\ ~b.over /\ b.heads = 1
         /\ b.stayed = items /\ b.missing = items /\ b.next = first
         /\ b.twice = a.twice /\ b.disturbed = a.disturbed
<1> DEFINE w == [a EXCEPT !.heads = 1]
           x == [w EXCEPT !.stayed = items]
           y == [x EXCEPT !.missing = items]
<1>1. b = [y EXCEPT !.next = first]
  BY AnswerParts DEF Opened
<1>2. w \in Answer /\ w.page = a.page /\ ~w.over /\ w.heads = 1
      /\ w.twice = a.twice /\ w.disturbed = a.disturbed
  BY AnswerParts DEF Answer
<1> HIDE DEF w
<1>3. x \in Answer /\ x.page = w.page /\ ~x.over /\ x.heads = 1
      /\ x.twice = w.twice /\ x.disturbed = w.disturbed /\ x.stayed = items
  BY <1>2 DEF Answer
<1> HIDE DEF x
<1>4. y \in Answer /\ y.page = x.page /\ ~y.over /\ y.heads = 1
      /\ y.twice = x.twice /\ y.disturbed = x.disturbed /\ y.stayed = items
      /\ y.missing = items
  BY <1>3 DEF Answer
<1> HIDE DEF y
<1>5. QED  BY <1>1, <1>2, <1>3, <1>4 DEF Answer

(* A head that is all there is. *)
LEMMA OnlyHeadFits ==
  ASSUME NEW a \in Answer, NEW b, b = Ended([a EXCEPT !.heads = @ + 1]),
         a.disturbed \/ (a.heads = 0 /\ a.missing = {} /\ ~a.twice),
         NEW list, NEW aps, NEW busy
  PROVE  b.over /\ Fits(b, list, aps, busy)
<1> DEFINE x == [a EXCEPT !.heads = @ + 1]
<1>1. a.disturbed \in BOOLEAN /\ a.heads \in 0..2
  BY AnswerParts
<1>2. x.heads = a.heads + 1 /\ x.missing = a.missing /\ x.twice = a.twice
      /\ x.disturbed = a.disturbed
  BY DEF Answer
<1>3. b = Ended(x)
  OBVIOUS
<1> HIDE DEF x
<1>4. Whole(x) \/ x.disturbed = TRUE
  BY <1>1, <1>2 DEF Whole
<1>5. QED  BY <1>3, <1>4, EndedProperties

(* An answer that is asked for, or goes on. *)
Begins(a, page) == a = Asked(page)
GoesOn(a) == ~a.over /\ Fits(a, nodes, noAps, scanInProgress)

LEMMA ScanPieceFits ==
  ASSUME PageTypes, NEW a, a.page = "scan", Begins(a, "scan") \/ GoesOn(a),
         NEW b, b = ScanPiece(a)
  PROVE  Fits(b, nodes, noAps, scanInProgress)
<1>1. noAps \in Nat /\ noAps <= MaxAps /\ MaxAps \in Nat /\ 1 \in 1..MaxAps
  BY ScanConstants DEF PageTypes
<1>2. a.page = "scan"
  OBVIOUS
<1>3. CASE Begins(a, "scan")
  <2>1. a \in Answer /\ a.next = NoItem /\ a.heads = 0 /\ a.missing = {}
        /\ ~a.over /\ ~a.twice /\ ~a.disturbed
    BY <1>3, AskedProperties DEF Begins
  <2>2. b = ScanHead(a)
    BY <2>1 DEF ScanPiece
  <2>3. CASE ~everScanned \/ scanInProgress
    <3>1. b = Ended([a EXCEPT !.heads = @ + 1])
      BY <2>2, <2>3 DEF ScanHead
    <3>2. QED  BY <2>1, <3>1, OnlyHeadFits
  <2>4. CASE ~(~everScanned \/ scanInProgress)
    <3>1. b = Opened(a, 1..noAps, 1)
      BY <2>2, <2>4 DEF ScanHead
    <3>2. 1..noAps \in SUBSET Item /\ 1 \in Item
      BY <1>1, ScanConstants
    <3>3. /\ b \in Answer /\ b.page = a.page /\ ~b.over /\ b.heads = 1
          /\ b.stayed = 1..noAps /\ b.missing = 1..noAps /\ b.next = 1
          /\ ~b.twice
      <4> DEFINE all == 1..noAps
      <4>1. all \in SUBSET Item /\ 1 \in Item /\ b = Opened(a, all, 1)
        BY <3>1, <3>2
      <4> HIDE DEF all
      <4>2. /\ b \in Answer /\ b.page = a.page /\ ~b.over /\ b.heads = 1
            /\ b.stayed = all /\ b.missing = all /\ b.next = 1
            /\ b.twice = a.twice
        BY <2>1, <4>1, OpenedProperties
      <4>3. QED  BY <2>1, <4>2 DEF all
    <3>4. b.missing = {i \in 1..noAps : i >= b.next}
      BY <1>1, <3>3
    <3>5. ScanUnderWay(b, noAps, scanInProgress)
      BY <2>4, <3>3, <3>4 DEF ScanUnderWay
    <3>6. QED  BY <1>1, <1>2, <3>3, <3>5 DEF Fits, UnderWay
  <2>5. QED  BY <2>3, <2>4
<1>4. CASE GoesOn(a)
  <2>1. a \in Answer /\ ~a.over /\ a.next \in 1..MaxAps
    BY <1>2, <1>4 DEF GoesOn, Fits, UnderWay
  <2>2. a.next \in Int /\ a.next >= 1 /\ a.next # NoItem /\ a.disturbed \in BOOLEAN
    BY <2>1, ScanConstants, AnswerParts
  <2>3. ~a.disturbed =>
          a.heads = 1 /\ ~a.twice /\ ScanUnderWay(a, noAps, scanInProgress)
    BY <1>2, <1>4, <2>1 DEF GoesOn, Fits, UnderWay
  <2>4. CASE scanInProgress
    <3>1. a.disturbed
      BY <2>2, <2>3, <2>4 DEF ScanUnderWay
    <3>2. b = Ended([a EXCEPT !.heads = @ + 1])
      BY <2>4 DEF ScanPiece, ScanHead
    <3>3. QED  BY <2>1, <3>1, <3>2, OnlyHeadFits
  <2>5. CASE ~scanInProgress
    <3> DEFINE items == {a.next} \cap 1..noAps
    <3>1. b = Send(a, items, ApAfter(a.next))
      BY <2>2, <2>5 DEF ScanPiece
    <3>2. ASSUME ~a.disturbed
          PROVE  /\ a.stayed = 1..noAps
                 /\ a.missing = {i \in 1..noAps : i >= a.next}
                 /\ items \cap (a.stayed \ a.missing) = {}
      <4>1. a.stayed = 1..noAps /\ a.missing = {i \in 1..noAps : i >= a.next}
        BY <2>3, <3>2 DEF ScanUnderWay
      <4>2. QED  BY <1>1, <2>2, <4>1
    <3>3. CASE a.next >= noAps
      <4>1. b = Send(a, items, NoItem)
        BY <3>1, <3>3 DEF ApAfter
      <4>2. ~a.disturbed => a.missing \subseteq items
        BY <1>1, <2>2, <3>2, <3>3
      <4> HIDE DEF items
      <4>3. QED  BY <2>1, <2>2, <2>3, <3>2, <4>1, <4>2, LastPieceFits
    <3>4. CASE ~(a.next >= noAps)
      <4> DEFINE n == a.next + 1
      <4>1. n \in 1..MaxAps /\ n <= noAps
        BY <1>1, <2>2, <3>4
      <4>2. b = Send(a, items, n) /\ n \in Item /\ n # NoItem
        BY <3>1, <3>4, <4>1, ScanConstants DEF ApAfter
      <4>3. ~a.disturbed => a.missing \ items = {i \in 1..noAps : i >= n}
        BY <1>1, <2>2, <3>2, <3>4
      <4> HIDE DEF items, n
      <4>4. /\ b \in Answer /\ ~b.over
            /\ b.page = a.page /\ b.next = n /\ b.heads = a.heads
            /\ b.stayed = a.stayed /\ b.missing = a.missing \ items
            /\ b.disturbed = a.disturbed
            /\ ~a.twice /\ items \cap (a.stayed \ a.missing) = {} => ~b.twice
        BY <2>1, <4>2, SendProperties
      <4>5. ~a.disturbed => ScanUnderWay(b, noAps, scanInProgress)
        BY <2>5, <3>2, <4>3, <4>4 DEF ScanUnderWay
      <4>6. QED  BY <1>2, <2>2, <2>3, <3>2, <4>1, <4>4, <4>5 DEF Fits, UnderWay
    <3>5. QED  BY <3>3, <3>4
  <2>6. QED  BY <2>4, <2>5
<1>5. QED  BY <1>3, <1>4

(***************************************************************************)
(* The pieces of an answer of networks.                                    *)
(***************************************************************************)
LEMMA NodesProperties ==
  ASSUME IInv
  PROVE  /\ nodes \in Seq(Node) /\ Distinct(nodes)
         /\ Len(nodes) \in Nat /\ DOMAIN nodes = 1..Len(nodes)
         /\ \A i \in 1..Len(nodes) : nodes[i] \in Node /\ nodes[i].ssid \in Ssid
<1>1. nodes \in Seq(Node) /\ Distinct(nodes)
  BY DEF IInv, ListTypeOK
<1>2. Len(nodes) \in Nat /\ DOMAIN nodes = 1..Len(nodes)
      /\ \A i \in 1..Len(nodes) : nodes[i] \in Node
  BY <1>1, LenProperties, ElementOfSeq
<1>3. QED  BY <1>1, <1>2 DEF Node

LEMMA NextIndex ==
  ASSUME NEW n \in Nat, NEW k \in 1..n
  PROVE  /\ k # n => k + 1 \in 1..n
         /\ k = n => \A i \in 1..n : i >= k => i = k
  OBVIOUS

(* The node after that at k. *)
LEMMA NodeAfterIs ==
  ASSUME IInv, NEW k \in 1..Len(nodes), NEW s, s = nodes[k].ssid
  PROVE  NodeAfter(s) = IF k = Len(nodes) THEN NoItem ELSE nodes[k + 1].ssid
<1>1. /\ Distinct(nodes) /\ Len(nodes) \in Nat /\ DOMAIN nodes = 1..Len(nodes)
  BY NodesProperties
<1> DEFINE next == {i \in DOMAIN nodes : i > 1 /\ nodes[i - 1].ssid = s}
<1>2. ASSUME NEW i \in 1..Len(nodes)
      PROVE  i > 1 /\ nodes[i - 1].ssid = s <=> i = k + 1
  <2>1. i > 1 => i - 1 \in 1..Len(nodes)
    BY <1>1
  <2>2. i > 1 /\ nodes[i - 1].ssid = s => i - 1 = k
    BY <1>1, <2>1 DEF Distinct
  <2>3. QED  BY <1>1, <2>2
<1>3. NodeAfter(s) = IF next = {} THEN NoItem ELSE nodes[CHOOSE i \in next : TRUE].ssid
  BY DEF NodeAfter
<1>4. CASE k = Len(nodes)
  <2>1. next = {}
    BY <1>1, <1>2, <1>4
  <2>2. QED  BY <1>3, <1>4, <2>1
<1>5. CASE k # Len(nodes)
  <2>1. k + 1 \in 1..Len(nodes)
    BY <1>1, <1>5, NextIndex
  <2>2. next = {k + 1}
    BY <1>1, <1>2, <2>1
  <2> HIDE DEF next
  <2>3. next # {} /\ (CHOOSE i \in next : TRUE) = k + 1
    BY <2>2
  <2>4. QED  BY <1>3, <1>5, <2>3
<1>6. QED  BY <1>4, <1>5

LEMMA ListPieceFits ==
  ASSUME IInv, PageTypes, NEW a, a.page = "list", Begins(a, "list") \/ GoesOn(a),
         NEW b \in ListPieces(a)
  PROVE  Fits(b, nodes, noAps, scanInProgress)
<1>1. /\ Distinct(nodes) /\ Len(nodes) \in Nat /\ DOMAIN nodes = 1..Len(nodes)
      /\ \A i \in 1..Len(nodes) : nodes[i].ssid \in Ssid
  BY NodesProperties
<1>2. a.page = "list"
  OBVIOUS
<1>3. CASE Begins(a, "list")
  <2>1. a \in Answer /\ a.next = NoItem /\ a.heads = 0 /\ a.missing = {}
        /\ ~a.over /\ ~a.twice /\ ~a.disturbed
    BY <1>3, AskedProperties DEF Begins
  <2>2. b = ListHead(a)
    BY <2>1 DEF ListPieces
  <2>3. CASE Root = NoItem
    <3>1. b = Ended([a EXCEPT !.heads = @ + 1])
      BY <2>2, <2>3 DEF ListHead
    <3>2. QED  BY <2>1, <3>1, OnlyHeadFits
  <2>4. CASE Root # NoItem
    <3> DEFINE items == {n.ssid : n \in RangeOf(nodes)}
    <3>1. nodes # <<>> /\ Root = nodes[1].ssid
      BY <2>4 DEF Root
    <3>2. 1 \in 1..Len(nodes)
      <4>1. nodes \in Seq(Node)
        BY NodesProperties
      <4>2. Len(nodes) # 0
        BY <3>1, <4>1, EmptySeq
      <4>3. QED  BY <1>1, <4>2
    <3>3. \A s : s \in items <=> \E i \in 1..Len(nodes) : nodes[i].ssid = s
      BY <1>1 DEF RangeOf
    <3>4. items \in SUBSET Item /\ Root \in Item /\ Root \in Ssid
      BY <1>1, <3>1, <3>2, <3>3, ScanConstants
    <3>5. b = Opened(a, items, Root)
      BY <2>2, <2>4 DEF ListHead
    <3> HIDE DEF items
    <3>6. /\ b \in Answer /\ b.page = a.page /\ ~b.over /\ b.heads = 1
          /\ b.stayed = items /\ b.missing = items /\ b.next = Root
          /\ b.twice = a.twice
      BY <2>1, <3>4, <3>5, OpenedProperties
    <3>7. \A i \in 1..Len(nodes) : i >= 1
      BY <1>1
    <3>8. GoesOnAt(b, nodes, 1)
      BY <3>1, <3>6, <3>7 DEF GoesOnAt
    <3>9. ListUnderWay(b, nodes)
      BY <3>2, <3>3, <3>6, <3>8 DEF ListUnderWay
    <3>10. QED  BY <1>2, <2>1, <3>4, <3>6, <3>9 DEF Fits, UnderWay
  <2>5. QED  BY <2>3, <2>4
<1>4. CASE GoesOn(a)
  <2>1. a \in Answer /\ ~a.over /\ a.next \in Ssid /\ a.next # NoItem
    BY <1>2, <1>4, ScanConstants DEF GoesOn, Fits, UnderWay
  <2>2. CASE a.disturbed
    <3>1. b = a \/ b = Ended(a)
      BY <2>1, <2>2 DEF ListPieces, FreedNode
    <3>2. Whole(a) \/ a.disturbed = TRUE
      BY <2>1, <2>2, AnswerParts
    <3>3. QED  BY <1>4, <3>1, <3>2, EndedProperties DEF GoesOn
  <2>3. CASE ~a.disturbed
    <3> DEFINE items == {a.next}
    <3>1. a.heads = 1 /\ ~a.twice /\ ListUnderWay(a, nodes)
      BY <1>2, <1>4, <2>1, <2>3 DEF GoesOn, Fits, UnderWay
    <3>2. PICK k \in 1..Len(nodes) : GoesOnAt(a, nodes, k)
      BY <3>1 DEF ListUnderWay
    <3>3. b = Send(a, items, NodeAfter(a.next))
      BY <2>1, <2>3 DEF ListPieces
    <3>4. NodeAfter(a.next) = IF k = Len(nodes) THEN NoItem ELSE nodes[k + 1].ssid
      BY <3>2, NodeAfterIs DEF GoesOnAt
    <3>5. items \cap (a.stayed \ a.missing) = {}
      <4>1. a.next \in a.missing <=> a.next \in a.stayed /\ k >= k
        BY <3>2 DEF GoesOnAt
      <4>2. QED  BY <1>1, <4>1
    <3>6. a.missing \subseteq a.stayed
          /\ \A s \in a.stayed : \E i \in 1..Len(nodes) : nodes[i].ssid = s
      BY <3>1 DEF ListUnderWay
    <3>7. \A i \in 1..Len(nodes) :
             /\ nodes[i].ssid \in a.missing <=> nodes[i].ssid \in a.stayed /\ i >= k
             /\ nodes[i].ssid = a.next <=> i = k
      BY <1>1, <3>2 DEF GoesOnAt, Distinct
    <3>8. CASE k = Len(nodes)
      <4>1. b = Send(a, items, NoItem)
        BY <3>3, <3>4, <3>8
      <4>2. a.missing \subseteq items
        <5>1. ASSUME NEW s \in a.missing PROVE s = a.next
          <6>1. PICK i \in 1..Len(nodes) : nodes[i].ssid = s
            BY <3>6
          <6>2. i >= k
            BY <3>7, <6>1
          <6>3. i = k
            BY <1>1, <3>8, <6>2, NextIndex
          <6>4. QED  BY <3>7, <6>1, <6>3
        <5>2. QED  BY <5>1
      <4> HIDE DEF items
      <4>3. QED  BY <2>1, <3>1, <3>5, <4>1, <4>2, LastPieceFits
    <3>9. CASE k # Len(nodes)
      <4> DEFINE n == nodes[k + 1].ssid
      <4>1. k + 1 \in 1..Len(nodes)
        BY <1>1, <3>9, NextIndex
      <4>2. b = Send(a, items, n) /\ n \in Ssid /\ n \in Item /\ n # NoItem
        BY <1>1, <3>3, <3>4, <3>9, <4>1, ScanConstants
      <4> HIDE DEF items
      <4>3. /\ b \in Answer /\ ~b.over
            /\ b.page = a.page /\ b.next = n /\ b.heads = a.heads
            /\ b.stayed = a.stayed /\ b.missing = a.missing \ items
            /\ ~b.twice
        BY <2>1, <3>1, <3>5, <4>2, SendProperties
      <4>4. ASSUME NEW i \in 1..Len(nodes)
            PROVE  nodes[i].ssid \in b.missing <=> nodes[i].ssid \in b.stayed /\ i >= k + 1
        <5>1. nodes[i].ssid \in b.missing <=> nodes[i].ssid \in a.missing /\ i # k
          BY <3>7, <4>3 DEF items
        <5>2. i >= k + 1 <=> i >= k /\ i # k
          BY <1>1
        <5>3. QED  BY <3>7, <4>3, <5>1, <5>2
      <4>5. GoesOnAt(b, nodes, k + 1)
        BY <4>3, <4>4 DEF GoesOnAt
      <4>6. b.missing \subseteq b.stayed
        BY <3>6, <4>3
      <4>7. ListUnderWay(b, nodes)
        BY <3>6, <4>1, <4>3, <4>5, <4>6 DEF ListUnderWay
      <4>8. QED  BY <1>2, <3>1, <4>2, <4>3, <4>7 DEF Fits, UnderWay
    <3>10. QED  BY <3>8, <3>9
  <2>4. QED  BY <2>2, <2>3
<1>5. QED  BY <1>3, <1>4

-----------------------------------------------------------------------------
(***************************************************************************)
(* What a request does to the answers of others.  A list that is saved     *)
(* keeps the order of the networks it does not touch.                      *)
(***************************************************************************)
InPlace(list, new, s, k, l) ==
  \A i \in 1..Len(new) :
    new[i].ssid = s \/ \E j \in 1..Len(list) : new[i] = list[j] /\ (i >= l <=> j >= k)
KeepsOrder(list, new, s) ==
  \A k \in 1..Len(list) : list[k].ssid # s =>
    \E l \in 1..Len(new) : new[l] = list[k] /\ InPlace(list, new, s, k, l)

LEMMA DeletedKeepsOrder ==
  ASSUME NEW list \in Seq(Node), Distinct(list), NEW s \in Ssid
  PROVE  KeepsOrder(list, Deleted(list, s), s)
<1>1. list \in [1..Len(list) -> Node] /\ Len(list) \in Nat /\ DOMAIN list = 1..Len(list)
  BY LenProperties
<1>2. CASE Found(list, s) = {}
  <2>1. Deleted(list, s) = list
    BY <1>2 DEF Deleted
  <2>2. KeepsOrder(list, list, s)
    BY DEF KeepsOrder, InPlace
  <2>3. QED  BY <2>1, <2>2
<1>3. CASE Found(list, s) # {}
  <2> DEFINE p == CHOOSE i \in Found(list, s) : TRUE
             rest == Unlinked(list, p)
             m == Len(list) - 1
  <2>1. Deleted(list, s) = rest  BY <1>3 DEF Deleted
  <2>2. p \in 1..Len(list) /\ list[p].ssid = s  BY <1>1, <1>3 DEF Found
  <2> HIDE DEF p
  <2>3. m \in Nat /\ rest = [j \in 1..m |-> IF j < p THEN list[j] ELSE list[j + 1]]
    BY <1>1, <2>2 DEF Unlinked
  <2>4. rest \in [1..m -> Node]  BY <1>1, <2>2, <2>3
  <2> HIDE DEF rest
  <2>5. Len(rest) = m  BY <2>3, <2>4, FunctionIsSeq
  <2>6. ASSUME NEW k \in 1..Len(list), list[k].ssid # s
        PROVE  \E l \in 1..Len(rest) : rest[l] = list[k] /\ InPlace(list, rest, s, k, l)
    <3> DEFINE l == IF k < p THEN k ELSE k - 1
    <3>1. k # p  BY <2>2, <2>6
    <3>2. l \in 1..m /\ rest[l] = list[k]  BY <1>1, <2>2, <2>3, <3>1
    <3>3. ASSUME NEW i \in 1..m
          PROVE  \E j \in 1..Len(list) : rest[i] = list[j] /\ (i >= l <=> j >= k)
      <4> DEFINE j == IF i < p THEN i ELSE i + 1
      <4>1. j \in 1..Len(list) /\ rest[i] = list[j] /\ (i >= l <=> j >= k)
        BY <1>1, <2>2, <2>3, <3>1
      <4>2. QED  BY <4>1
    <3>4. QED  BY <2>5, <3>2, <3>3 DEF InPlace
  <2>7. QED  BY <2>1, <2>6 DEF KeepsOrder
<1>4. QED  BY <1>2, <1>3

LEMMA AddedKeepsOrder ==
  ASSUME NEW list \in Seq(Node), Distinct(list), NEW n \in Node
  PROVE  KeepsOrder(list, Added(list, n), n.ssid)
<1> DEFINE rest == Deleted(list, n.ssid)
           new == Append(rest, n)
<1>1. n.ssid \in Ssid  BY DEF Node
<1>2. rest \in Seq(Node) /\ KeepsOrder(list, rest, n.ssid)
  BY <1>1, DeletedProperties, DeletedKeepsOrder
<1>3. Added(list, n) = new  BY DEF Added
<1> HIDE DEF rest
<1>4. /\ Len(rest) \in Nat /\ Len(new) = Len(rest) + 1
      /\ \A i \in 1..Len(rest) : new[i] = rest[i]
      /\ new[Len(rest) + 1] = n
  BY <1>2, AppendProperties, LenProperties
<1> HIDE DEF new
<1>5. ASSUME NEW k \in 1..Len(list), list[k].ssid # n.ssid
      PROVE  \E l \in 1..Len(new) : new[l] = list[k] /\ InPlace(list, new, n.ssid, k, l)
  <2>1. PICK l \in 1..Len(rest) : rest[l] = list[k] /\ InPlace(list, rest, n.ssid, k, l)
    BY <1>2, <1>5 DEF KeepsOrder
  <2>2. l \in 1..Len(new) /\ new[l] = list[k]
    BY <1>4, <2>1
  <2>3. \A i \in 1..Len(new) : i \in 1..Len(rest) \/ new[i] = n
    BY <1>4
  <2>4. InPlace(list, new, n.ssid, k, l)
    BY <1>4, <2>1, <2>3 DEF InPlace
  <2>5. QED  BY <2>2, <2>4
<1>6. QED  BY <1>3, <1>5 DEF KeepsOrder

(* An answer of networks whose next node stays. *)
LEMMA ListChanged ==
  ASSUME NEW list, NEW new, NEW s, KeepsOrder(list, new, s),
         NEW a, ListUnderWay(a, list), a.next # s,
         NEW b, b.next = a.next, b.stayed = a.stayed \ {s}, b.missing = a.missing \ {s}
  PROVE  ListUnderWay(b, new)
<1>1. PICK k \in 1..Len(list) : GoesOnAt(a, list, k)
  BY DEF ListUnderWay
<1>2. list[k].ssid = a.next
  BY <1>1 DEF GoesOnAt
<1>3. PICK l \in 1..Len(new) : new[l] = list[k] /\ InPlace(list, new, s, k, l)
  BY <1>2 DEF KeepsOrder
<1>4. ASSUME NEW i \in 1..Len(new)
      PROVE  new[i].ssid \in b.missing <=> new[i].ssid \in b.stayed /\ i >= l
  <2>1. CASE new[i].ssid = s
    BY <2>1
  <2>2. CASE new[i].ssid # s
    <3>1. PICK j \in 1..Len(list) : new[i] = list[j] /\ (i >= l <=> j >= k)
      BY <1>3, <2>2 DEF InPlace
    <3>2. list[j].ssid \in a.missing <=> list[j].ssid \in a.stayed /\ j >= k
      BY <1>1 DEF GoesOnAt
    <3>3. QED  BY <2>2, <3>1, <3>2
  <2>3. QED  BY <2>1, <2>2
<1>5. GoesOnAt(b, new, l)
  BY <1>2, <1>3, <1>4 DEF GoesOnAt
<1>6. ASSUME NEW x \in b.stayed PROVE \E i \in 1..Len(new) : new[i].ssid = x
  <2>1. PICK j \in 1..Len(list) : list[j].ssid = x
    BY DEF ListUnderWay
  <2>2. list[j].ssid # s
    BY <2>1
  <2>3. PICK i \in 1..Len(new) : new[i] = list[j]
    BY <2>2 DEF KeepsOrder
  <2>4. QED  BY <2>1, <2>3
<1>7. b.missing \subseteq b.stayed
  BY DEF ListUnderWay
<1>8. QED  BY <1>5, <1>6, <1>7 DEF ListUnderWay

(* What Disturb makes of one answer. *)
DisturbedOnly(page, next) == [Asked(page) EXCEPT !.next = next, !.disturbed = TRUE]

LEMMA DisturbedFits ==
  ASSUME NEW page \in {"scan", "list"},
         NEW next \in IF page = "scan" THEN 1..MaxAps ELSE Ssid,
         NEW b, b = DisturbedOnly(page, next),
         NEW list, NEW aps, NEW busy
  PROVE  Fits(b, list, aps, busy)
<1> DEFINE a == Asked(page)
           x == [a EXCEPT !.next = next]
<1>1. next \in Item \cup {NoItem}
  BY ScanConstants
<1>2. a \in Answer /\ ~a.over /\ a.page = page
  BY AskedProperties
<1>3. b = [x EXCEPT !.disturbed = TRUE]
  BY DEF DisturbedOnly
<1> HIDE DEF a
<1>4. x \in Answer /\ ~x.over /\ x.page = page /\ x.next = next
  BY <1>1, <1>2 DEF Answer
<1> HIDE DEF x
<1>5. b \in Answer /\ ~b.over /\ b.page = page /\ b.next = next /\ b.disturbed
  BY <1>3, <1>4 DEF Answer
<1>6. QED  BY <1>5 DEF Fits, UnderWay

(* A scan starts: no answer of access points goes on undisturbed. *)
LEMMA ScanDisturbs ==
  ASSUME NEW c \in Client, PageTypes,
         Fits(answer[c], nodes, noAps, scanInProgress),
         NEW busy, NEW aps
  PROVE  Fits(Disturb("scan", {}, TRUE)[c], nodes, aps, busy)
<1> DEFINE a == answer[c]
           b == Disturb("scan", {}, TRUE)[c]
<1>1. b = IF a.over \/ a.page # "scan" THEN a ELSE DisturbedOnly("scan", a.next)
  BY DEF Disturb, DisturbedOnly
<1> SUFFICES Fits(b, nodes, aps, busy)
  OBVIOUS
<1> HIDE DEF b
<1>2. a \in Answer /\ a.over \in BOOLEAN
  BY AnswerParts DEF Fits
<1>3. CASE a.over
  BY <1>1, <1>3, OverFits
<1>4. CASE ~a.over /\ a.page # "scan"
  BY <1>1, <1>4 DEF Fits, UnderWay
<1>5. CASE ~a.over /\ a.page = "scan"
  <2>1. a.next \in 1..MaxAps /\ b = DisturbedOnly("scan", a.next)
    BY <1>1, <1>5 DEF Fits, UnderWay
  <2>2. QED  BY <2>1, DisturbedFits
<1>6. QED  BY <1>2, <1>3, <1>4, <1>5

(* The list is saved without s, or with a new s. *)
LEMMA SaveDisturbs ==
  ASSUME NEW c \in Client, PageTypes,
         Fits(answer[c], nodes, noAps, scanInProgress),
         NEW s \in Ssid, NEW new, KeepsOrder(nodes, new, s)
  PROVE  Fits(Disturb("list", {s}, FALSE)[c], new, noAps, scanInProgress)
<1> DEFINE a == answer[c]
           b == Disturb("list", {s}, FALSE)[c]
           x == [a EXCEPT !.stayed = @ \ {s}]
           y == [x EXCEPT !.missing = @ \ {s}]
<1>1. b = IF a.over \/ a.page # "list" THEN a
          ELSE IF a.disturbed \/ a.next \in {s} THEN DisturbedOnly("list", a.next)
          ELSE y
  BY DEF Disturb, DisturbedOnly
<1> SUFFICES Fits(b, new, noAps, scanInProgress)
  OBVIOUS
<1> HIDE DEF b
<1>2. a \in Answer /\ a.over \in BOOLEAN /\ a.disturbed \in BOOLEAN
  BY AnswerParts DEF Fits
<1>3. CASE a.over
  BY <1>1, <1>3, OverFits
<1>4. CASE ~a.over /\ a.page # "list"
  <2>1. a.page = "scan"
    BY <1>2, <1>4, AnswerParts
  <2>2. b = a
    BY <1>1, <1>4
  <2>3. QED  BY <1>4, <2>1, <2>2 DEF Fits, UnderWay
<1>5. CASE ~a.over /\ a.page = "list" /\ (a.disturbed \/ a.next = s)
  <2>1. a.next \in Ssid /\ b = DisturbedOnly("list", a.next)
    BY <1>1, <1>5 DEF Fits, UnderWay
  <2>2. QED  BY <2>1, DisturbedFits
<1>6. CASE ~a.over /\ a.page = "list" /\ ~(a.disturbed \/ a.next = s)
  <2>1. b = y
    BY <1>1, <1>6
  <2>2. a.next \in Ssid /\ a.heads = 1 /\ ~a.twice /\ ListUnderWay(a, nodes)
    BY <1>6 DEF Fits, UnderWay
  <2>3. a.stayed \ {s} \in SUBSET Item /\ a.missing \ {s} \in SUBSET Item
    BY <1>2, AnswerParts
  <2> HIDE DEF a
  <2>4. /\ x \in Answer /\ x.page = a.page /\ x.next = a.next /\ x.heads = a.heads
        /\ x.over = a.over /\ x.twice = a.twice /\ x.disturbed = a.disturbed
        /\ x.stayed = a.stayed \ {s} /\ x.missing = a.missing
    BY <1>2, <2>3 DEF Answer
  <2> HIDE DEF x
  <2>5. /\ y \in Answer /\ y.page = a.page /\ y.next = a.next /\ y.heads = a.heads
        /\ y.over = a.over /\ y.twice = a.twice /\ y.disturbed = a.disturbed
        /\ y.stayed = a.stayed \ {s} /\ y.missing = a.missing \ {s}
    BY <2>3, <2>4 DEF Answer
  <2> HIDE DEF y
  <2>6. ListUnderWay(y, new)
    BY <1>6, <2>2, <2>5, ListChanged
  <2>7. QED  BY <1>6, <2>1, <2>2, <2>5, <2>6 DEF Fits, UnderWay
<1>7. QED  BY <1>2, <1>3, <1>4, <1>5, <1>6

-----------------------------------------------------------------------------
LEMMA PageConstants ==
  ASSUME AnswersInv
  PROVE  /\ everScanned \in BOOLEAN /\ scanInProgress \in BOOLEAN /\ scanning \in BOOLEAN
         /\ scanning => scanInProgress
         /\ noAps \in 0..MaxAps
         /\ answer \in [Client -> Answer]
         /\ \A c \in Client : Fits(answer[c], nodes, noAps, scanInProgress)
  BY DEF AnswersInv, PageTypes

(* While a scan runs only answers it has disturbed are of access points. *)
LEMMA BusyFits ==
  ASSUME NEW a, NEW list, NEW aps, NEW busy, Fits(a, list, aps, busy), busy,
         NEW aps2, NEW busy2
  PROVE  Fits(a, list, aps2, busy2)
<1>1. a.disturbed \in BOOLEAN /\ a.page \in {"scan", "list"} /\ a.over \in BOOLEAN
  BY AnswerParts DEF Fits
<1>2. CASE a.over
  BY <1>2 DEF Fits
<1>3. CASE ~a.over /\ a.page = "scan"
  <2>1. a.disturbed
    BY <1>3 DEF Fits, UnderWay, ScanUnderWay
  <2>2. QED  BY <1>3, <2>1 DEF Fits, UnderWay
<1>4. CASE ~a.over /\ a.page # "scan"
  BY <1>4 DEF Fits, UnderWay
<1>5. QED  BY <1>1, <1>2, <1>3, <1>4

(* A call of a CGI function, whose client shows b or has left. *)
LEMMA CallFits ==
  ASSUME AnswersInv, NEW c \in Client, NEW a, NEW b, NEW shown,
         Fits(b, nodes, noAps, scanInProgress), shown = b \/ shown = Nothing,
         Call(c, a, b, shown)
  PROVE  AnswersInv'
<1>1. /\ everScanned' = (everScanned \/ a.page = "scan")
      /\ noAps' = noAps /\ nodes' = nodes
  BY DEF Call, listVars
<1>2. /\ everScanned \in BOOLEAN /\ scanInProgress \in BOOLEAN /\ scanning \in BOOLEAN
      /\ scanning => scanInProgress
      /\ noAps \in 0..MaxAps
      /\ answer \in [Client -> Answer]
      /\ \A e \in Client : Fits(answer[e], nodes, noAps, scanInProgress)
  BY PageConstants
<1>3. CASE StartsScan(a, b)
  <2> DEFINE d == Disturb("scan", {}, TRUE)
  <2>1. /\ scanInProgress' = TRUE /\ scanning' \in BOOLEAN
        /\ answer' = [d EXCEPT ![c] = shown]
    BY <1>3 DEF Call
  <2>2. d = [e \in Client |-> d[e]]
    BY DEF Disturb
  <2>3. ASSUME NEW e \in Client PROVE Fits(d[e], nodes, noAps, TRUE)
    BY <1>2, ScanDisturbs DEF AnswersInv
  <2> HIDE DEF d
  <2>4. Fits(shown, nodes, noAps, TRUE)
    <3>1. b.over
      BY <1>3 DEF StartsScan
    <3>2. QED  BY <3>1, OverFits, NothingFits
  <2>5. ASSUME NEW e \in Client PROVE Fits(answer'[e], nodes, noAps, TRUE)
    BY <2>1, <2>2, <2>3, <2>4
  <2>6. answer' = [e \in Client |-> answer'[e]] /\ \A e \in Client : answer'[e] \in Answer
    BY <2>1, <2>2, <2>5 DEF Fits
  <2>7. answer' \in [Client -> Answer]
    BY <2>6
  <2>8. PageTypes'
    BY <1>1, <1>2, <2>1, <2>7 DEF PageTypes
  <2>9. QED  BY <1>1, <2>1, <2>5, <2>8 DEF AnswersInv
<1>4. CASE ~StartsScan(a, b)
  <2>1. /\ scanInProgress' = scanInProgress /\ scanning' = scanning
        /\ answer' = [answer EXCEPT ![c] = shown]
    BY <1>4 DEF Call
  <2>2. Fits(shown, nodes, noAps, scanInProgress) /\ shown \in Answer
    BY NothingFits DEF Fits
  <2>3. answer' \in [Client -> Answer]
        /\ \A e \in Client : answer'[e] = IF e = c THEN shown ELSE answer[e]
    BY <1>2, <2>1, <2>2
  <2>4. ASSUME NEW e \in Client PROVE Fits(answer'[e], nodes, noAps, scanInProgress)
    BY <1>2, <2>2, <2>3
  <2>5. PageTypes'
    BY <1>1, <1>2, <2>1, <2>3 DEF PageTypes
  <2>6. QED  BY <1>1, <2>1, <2>4, <2>5 DEF AnswersInv
<1>5. QED  BY <1>3, <1>4

LEMMA PiecesFit ==
  ASSUME IInv, AnswersInv, NEW page \in {"scan", "list"}, NEW a, a.page = page,
         Begins(a, page) \/ GoesOn(a), NEW b \in Pieces(a)
  PROVE  Fits(b, nodes, noAps, scanInProgress)
<1>1. CASE page = "scan"
  <2>1. b = ScanPiece(a)
    BY <1>1 DEF Pieces
  <2>2. QED  BY <1>1, <2>1, ScanPieceFits DEF AnswersInv
<1>2. CASE page = "list"
  <2>1. b \in ListPieces(a)
    BY <1>2 DEF Pieces
  <2>2. QED  BY <1>2, <2>1, ListPieceFits DEF AnswersInv
<1>3. QED  BY <1>1, <1>2

(* The list has changed in the nodes of s alone. *)
LEMMA SaveFits ==
  ASSUME AnswersInv, NEW s \in Ssid, KeepsOrder(nodes, nodes', s),
         answer' = Disturb("list", {s}, FALSE),
         UNCHANGED <<everScanned, scanInProgress, noAps, scanning>>
  PROVE  AnswersInv'
<1>1. ASSUME NEW c \in Client PROVE Fits(answer'[c], nodes', noAps, scanInProgress)
  BY PageConstants, SaveDisturbs DEF AnswersInv
<1>2. answer' = [c \in Client |-> answer'[c]] /\ \A c \in Client : answer'[c] \in Answer
  <2>1. answer' = [c \in Client |-> answer'[c]]
    BY DEF Disturb
  <2>2. QED  BY <1>1, <2>1 DEF Fits
<1>3. answer' \in [Client -> Answer]
  BY <1>2
<1>4. PageTypes'
  BY <1>3, PageConstants DEF PageTypes
<1>5. QED  BY <1>1, <1>4 DEF AnswersInv

LEMMA AnswersInit == Init => AnswersInv
<1> SUFFICES ASSUME Init PROVE AnswersInv
  OBVIOUS
<1>1. Nothing \in Answer /\ Fits(Nothing, nodes, noAps, scanInProgress)
  BY NothingFits, NothingProperties
<1>2. PageTypes
  <2>1. 0 \in 0..MaxAps
    BY ScanConstants
  <2>2. answer \in [Client -> Answer]
    BY <1>1 DEF Init, NoAnswers
  <2>3. /\ everScanned = FALSE /\ scanInProgress = FALSE
        /\ noAps = 0 /\ scanning = FALSE
    BY DEF Init
  <2>4. QED  BY <2>1, <2>2, <2>3 DEF PageTypes
<1>3. QED  BY <1>1, <1>2 DEF Init, NoAnswers, AnswersInv

LEMMA AnswersNext == IInv /\ AnswersInv /\ [Next]_vars => AnswersInv'
<1> SUFFICES ASSUME IInv, AnswersInv, [Next]_vars PROVE AnswersInv'
  OBVIOUS
<1>1. ASSUME NEW c \in Client, NEW page \in {"scan", "list"}, Ask(c, page)
      PROVE  AnswersInv'
  <2> DEFINE a == Asked(page)
  <2>1. PICK b \in Pieces(a) : Call(c, a, b, b)
    BY <1>1 DEF Ask
  <2>2. a.page = page /\ Begins(a, page)
    BY AskedProperties DEF Begins
  <2> HIDE DEF a
  <2>3. Fits(b, nodes, noAps, scanInProgress)
    BY <2>2, PiecesFit
  <2>4. QED  BY <2>1, <2>3, CallFits
<1>2. ASSUME NEW c \in Client, ~answer[c].over,
             NEW b \in Pieces(answer[c]), NEW shown, shown = b \/ shown = Nothing,
             Call(c, answer[c], b, shown)
      PROVE  AnswersInv'
  <2> DEFINE a == answer[c]
  <2>1. GoesOn(a) /\ a \in Answer
    BY <1>2, PageConstants DEF GoesOn
  <2>2. a.page \in {"scan", "list"}
    BY <2>1, AnswerParts
  <2>3. Fits(b, nodes, noAps, scanInProgress)
    BY <2>1, <2>2, PiecesFit
  <2> HIDE DEF a
  <2>4. QED  BY <1>2, <2>3, CallFits
<1>3. ASSUME NEW c \in Client, More(c) PROVE AnswersInv'
  BY <1>2, <1>3 DEF More
<1>4. ASSUME NEW c \in Client, Leave(c) PROVE AnswersInv'
  BY <1>2, <1>4 DEF Leave
<1>5. CASE ScanDone
  <2>1. /\ scanning /\ scanning' = FALSE /\ nodes' = nodes
        /\ everScanned' = everScanned /\ answer' = answer
    BY <1>5 DEF ScanDone, listVars
  <2>2. scanInProgress' \in BOOLEAN /\ noAps' \in 0..MaxAps
    BY <1>5, PageConstants DEF ScanDone
  <2>3. ASSUME NEW c \in Client PROVE Fits(answer[c], nodes, noAps', scanInProgress')
    BY <2>1, PageConstants, BusyFits
  <2>4. PageTypes'
    BY <2>1, <2>2, PageConstants DEF PageTypes
  <2>5. QED  BY <2>1, <2>3, <2>4 DEF AnswersInv
<1>6. ASSUME NEW s \in Ssid, LetDelete(s) PROVE AnswersInv'
  <2>1. /\ nodes' = Deleted(nodes, s) /\ answer' = Disturb("list", {s}, FALSE)
        /\ UNCHANGED <<everScanned, scanInProgress, noAps, scanning>>
    BY <1>6 DEF LetDelete, Delete, Save
  <2>2. KeepsOrder(nodes, nodes', s)
    BY <2>1, NodesProperties, DeletedKeepsOrder
  <2>3. QED  BY <2>1, <2>2, SaveFits
<1>7. ASSUME NEW json \in Requests, LetSave(json) PROVE AnswersInv'
  <2>1. PICK n \in Node : n.ssid = StationInfoSet(json).ssid /\ Add(n)
    BY <1>7, SavedNode
  <2>2. nodes' = Added(nodes, n) /\ n.ssid \in Ssid
    BY <2>1 DEF Add, Save, Node
  <2>3. /\ answer' = Disturb("list", {n.ssid}, FALSE)
        /\ UNCHANGED <<everScanned, scanInProgress, noAps, scanning>>
    BY <1>7, <2>1 DEF LetSave
  <2>4. KeepsOrder(nodes, nodes', n.ssid)
    BY <2>2, NodesProperties, AddedKeepsOrder
  <2>5. QED  BY <2>2, <2>3, <2>4, SaveFits
<1>8. CASE Saving
  <2>1. nodes' = nodes /\ UNCHANGED pageVars
    BY <1>8 DEF Saving, WriteRecord, WriteBlank
  <2>2. QED  BY <2>1 DEF pageVars, AnswersInv, PageTypes
<1>9. CASE Restart
  <2>1. /\ everScanned' = FALSE /\ scanInProgress' = FALSE /\ noAps' = 0
        /\ scanning' = FALSE /\ answer' = NoAnswers
    BY <1>9 DEF Restart
  <2>2. Nothing \in Answer
    BY NothingProperties
  <2>3. PageTypes'
    <3>1. 0 \in 0..MaxAps
      BY ScanConstants
    <3>2. answer' \in [Client -> Answer]
      BY <2>1, <2>2 DEF NoAnswers
    <3>3. QED  BY <2>1, <3>1, <3>2 DEF PageTypes
  <2>4. ASSUME NEW c \in Client PROVE Fits(answer'[c], nodes', noAps', scanInProgress')
    BY <2>1, NothingFits DEF NoAnswers
  <2>5. QED  BY <2>3, <2>4 DEF AnswersInv
<1>10. CASE UNCHANGED vars
  BY <1>10 DEF vars, listVars, pageVars, AnswersInv, PageTypes
<1>11. QED
  BY <1>1, <1>3, <1>4, <1>5, <1>6, <1>7, <1>8, <1>9, <1>10 DEF Next

LEMMA PagesInvariant == Spec => [](IInv /\ AnswersInv)
<1>1. Init => AnswersInv  BY AnswersInit
<1>2. IInv /\ AnswersInv /\ [Next]_vars => AnswersInv'  BY AnswersNext
<1>3. QED  BY <1>1, <1>2, ListInvariant, PTL DEF Spec

(* THEOREM: the answers, the scan shared by the pages and the list keep    *)
(* their types, and the SDK scans for the pages only while they know it.   *)
THEOREM TypeCorrect == Spec => []TypeOK
<1>1. IInv /\ AnswersInv => TypeOK
  BY PageConstants DEF IInv, TypeOK
<1>2. QED  BY <1>1, PagesInvariant, PTL

(* THEOREM: an answer sent in pieces has one head and every item once,     *)
(* however the pieces of several clients, scans, saves and deletions       *)
(* alternate, unless a scan or the end of its next node disturbed it: for  *)
(* any number of clients, networks and access points.                      *)
THEOREM AnswersWhole == Spec => []AnswersAreWhole
<1>1. AnswersInv => AnswersAreWhole
  BY DEF AnswersInv, Fits, AnswersAreWhole
<1>2. QED  BY <1>1, PagesInvariant, PTL
=============================================================================
