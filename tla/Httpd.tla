------------------------------- MODULE Httpd -------------------------------
(***************************************************************************)
(* The HTTP server of the configuration pages (httpd.c, httpd-nonos.c and  *)
(* the CGI of files in httpdespfs.c).  A CGI function is called once when  *)
(* a request has come in, and then again whenever espconn tells that what  *)
(* the last call sent has arrived, until it returns DONE.  espconn takes   *)
(* one packet at a time: what is flushed meanwhile waits in the backlog.   *)
(*                                                                         *)
(* A client sends its next request on a connection when it has the whole   *)
(* answer to the last one, and only if that does not announce the end of   *)
(* the connection.  The image of files may be built with GZIP_COMPRESSION. *)
(* Memory suffices; a request fits in the buffers of its head and its      *)
(* body, and an answer's packet in the send buffer.                        *)
(***************************************************************************)
EXTENDS Integers, Sequences, FiniteSets

CONSTANTS
  Client,           \* connections a browser may open
  MaxConnections,   \* HTTPD_MAX_CONNECTIONS
  Request,          \* requests of a browser, see None
  MaxHead,          \* bound: lines of the head of a request, each a segment
  MaxBody,          \* bound: segments the body of a POST can come in
  MaxCalls          \* bound: calls of a CGI function for one request

Urls == {"/", "page", "file", "zipped", "missing"}
Versions == {"HTTP/1.1", "HTTP/1.0"}
Fields == {"Connection: close", "Content-Length", "Accept-Encoding: gzip"}

ASSUME HttpdAssumption ==
  /\ MaxConnections \in Nat /\ MaxHead \in Nat
  /\ MaxBody \in Nat /\ MaxCalls \in Nat \ {0}
  /\ Request \subseteq
       {r \in [url : Urls, head : Seq(Versions \cup Fields), body : 0..MaxBody,
               calls : 1..MaxCalls, empty : BOOLEAN, stale : BOOLEAN] :
          /\ Len(r.head) \in 1..MaxHead /\ r.head[1] \in Versions
          /\ \A i \in 2..Len(r.head) : r.head[i] \in Fields
          /\ r.body > 0 <=> \E i \in 2..Len(r.head) : r.head[i] = "Content-Length"
          /\ r.url \in {"file", "zipped"} => r.calls > 1
          /\ r.url \in {"/", "missing"} => r.calls = 1
          /\ r.empty => r.url = "file"
          /\ r.stale => r.url = "zipped"}
  /\ "nobody" \notin Client

VARIABLES
  sock,      \* espconn: "none", "open" or "closing", with a callback to come
  connData,  \* whose connection a slot of the pool holds
  conn,      \* connData: what the slot of an open connection holds
  file,      \* espFsOpen'ed by the CGI of the connection and not closed
  client     \* the client: its request and what it has sent and received

vars == <<sock, connData, conn, file, client>>

Slots == 0..(MaxConnections - 1)

(* A request: a url, the lines of its head (of the first, the version), a  *)
(* body, how many calls of the CGI function it takes, and whether the last *)
(* one has nothing more to send, as with a file of a multiple of 1024      *)
(* bytes; stale: what cgiEspFsHook's buffer for a header holds before it is*)
(* written names gzip.                                                     *)
None ==
  [url |-> "none", head |-> <<>>, body |-> 0, calls |-> 0, empty |-> FALSE, stale |-> FALSE]

(* httpdGetHeader, which skips the request line.                           *)
GetHeader(r, field) == \E i \in 2..Len(r.head) : r.head[i] = field

(* A client of HTTP/1.1 has its connection kept, and gets chunks, unless it*)
(* asks to close it.                                                       *)
Kept(r) == r.head[1] = "HTTP/1.1" /\ ~GetHeader(r, "Connection: close")

(* cgiEspFsHook looks for gzip in its buffer, found or not.                *)
Refused(r) ==
  r.url = "zipped" /\ ~GetHeader(r, "Accept-Encoding: gzip") /\ ~r.stale

(* What is sent: a status line with the headers, as the code of the status,*)
(* negative if they announce that the connection will be closed; i, what   *)
(* call i sends of the body; and Last, the chunk of length zero.           *)
Last == MaxCalls + 1
Codes == {200, 302, 404, 501}
Sent == Codes \cup {0 - code : code \in Codes} \cup 1..Last

HeadOf(chunked, code) == IF chunked THEN code ELSE 0 - code
Answer(r) ==
  LET code  == CASE r.url = "/" -> 302 [] r.url = "missing" -> 404 [] OTHER -> 200
      first == IF r.url \in {"file", "zipped"} THEN 2 ELSE 1
      last  == IF r.empty THEN r.calls - 1 ELSE r.calls
  IN IF Refused(r) THEN <<-501>>
     ELSE <<HeadOf(Kept(r), code)>>
            \o [i \in 1..(last - first + 1) |-> first + i - 1]
            \o IF Kept(r) THEN <<Last>> ELSE <<>>

(* HttpdConnData with its priv and post; cgi is the number of the next call*)
(* of the CGI function or 0 for NULL; busy and air belong to espconn: a    *)
(* packet not yet acknowledged, and what of it the client has not got.     *)
Fresh ==
  [headPos |-> 0, len |-> -1, received |-> 0, chunked |-> FALSE, body |-> FALSE,
   discon |-> FALSE, cgi |-> 0, backlog |-> <<>>, busy |-> FALSE, air |-> <<>>]

Idle == [req |-> None, sent |-> 0, got |-> <<>>]
Asked(c) == client[c].req # None
Segments(r) == Len(r.head) + r.body
AllSent(c) == Asked(c) /\ client[c].sent = Segments(client[c].req)
Complete(c) == Asked(c) /\ client[c].got = Answer(client[c].req)

TypeOK ==
  /\ sock \in [Client -> {"none", "open", "closing"}]
  /\ file \in [Client -> BOOLEAN]
  /\ \A c \in Client :
       /\ client[c].req \in Request \cup {None}
       /\ client[c].sent \in 0..(MaxHead + MaxBody)
       /\ client[c].got \in Seq(Sent)
       /\ conn[c].headPos \in 0..MaxHead /\ conn[c].len \in -1..MaxBody
       /\ conn[c].received \in 0..MaxBody /\ conn[c].cgi \in 0..MaxCalls
       /\ {conn[c].chunked, conn[c].body, conn[c].discon, conn[c].busy} \subseteq BOOLEAN
       /\ conn[c].air \in Seq(Sent) /\ conn[c].backlog \in Seq(Seq(Sent))
  /\ connData \in [Slots -> Client \cup {"nobody"}]

(* httpdPlatInit, httpdInit: no slot is used.                              *)
PlatInit == sock = [c \in Client |-> "none"]
Init ==
  /\ PlatInit
  /\ connData = [i \in Slots |-> "nobody"]
  /\ conn = [c \in Client |-> Fresh]
  /\ file = [c \in Client |-> FALSE]
  /\ client = [c \in Client |-> Idle]

-----------------------------------------------------------------------------
(* The table of webserver.c, and the search of httpdProcessRequest: the    *)
(* first entry that matches and whose function does not say NOTFOUND, as   *)
(* that of files does when there is no such file.                          *)
BuiltInUrls ==
  <<[url |-> "/", cgi |-> "cgiRedirect"], [url |-> "page", cgi |-> "www_wifi"],
    [url |-> "*", cgi |-> "cgiEspFsHook"]>>
Matches(entry, url) == entry.url \in {url, "*"}
SaysNotFound(entry, url) == entry.cgi = "cgiEspFsHook" /\ url \notin {"file", "zipped"}
CgiFor(url) ==
  LET happy == {i \in DOMAIN BuiltInUrls :
                  Matches(BuiltInUrls[i], url) /\ ~SaysNotFound(BuiltInUrls[i], url)}
  IN IF happy = {} THEN "cgiNotFound"
     ELSE BuiltInUrls[CHOOSE i \in happy : \A j \in happy : i <= j].cgi

(* httpdStartResponse, with the headers that follow.                       *)
StartResponse(s, code) == <<HeadOf(s.chunked, code)>>
CgiRedirect(s) == StartResponse(s, 302) \o <<1>>
CgiNotFound(s) == StartResponse(s, 404) \o <<1>>

(* cgiEspFsHook opens the file, then reads it piece by piece.  It refuses a*)
(* gzipped file with a message of its own, which announces the end of the  *)
(* connection whatever becomes of it.                                      *)
CgiEspFsHook(s, r) ==
  IF Refused(r) THEN <<-501>>
  ELSE IF s.cgi = 1 THEN StartResponse(s, 200)
  ELSE IF s.cgi = r.calls /\ r.empty THEN <<>> ELSE <<s.cgi>>

(* The functions of cgi_wifi_manager.c, see Pages.                         *)
WwwWifi(s) == IF s.cgi = 1 THEN StartResponse(s, 200) \o <<1>> ELSE <<s.cgi>>

(* What the CGI function of a request sends in its call s.cgi.             *)
Piece(s, r) ==
  LET cgi == CgiFor(r.url)
  IN CASE cgi = "cgiRedirect"  -> CgiRedirect(s)
       [] cgi = "cgiNotFound"  -> CgiNotFound(s)
       [] cgi = "cgiEspFsHook" -> CgiEspFsHook(s, r)
       [] cgi = "www_wifi"     -> WwwWifi(s)

(* httpdPlatSendData, or the backlog if espconn refuses.                   *)
PlatSendData(s, p) == [s EXCEPT !.busy = TRUE, !.air = p]
SendOrDrop(s, p) == IF s.busy THEN s ELSE PlatSendData(s, p)                   \* a mutant
SendOrQueue(s, p) ==
  IF s.busy THEN [s EXCEPT !.backlog = Append(@, p)] ELSE PlatSendData(s, p)

(* httpdFlushSendBuffer of what httpdSend has gathered.                    *)
Flush(s, out) ==
  LET p == out \o IF s.chunked /\ s.body /\ s.cgi = 0 THEN <<Last>> ELSE <<>>
  IN IF p = <<>> THEN s ELSE SendOrQueue(s, p)

(* httpdCgiIsDone, and the flush that follows: a connection for chunks is  *)
(* made ready for the next request, any other is closed when all is sent.  *)
NotAllReset(s) == [s EXCEPT !.headPos = 0, !.len = -1, !.chunked = FALSE, !.body = FALSE] \* a mutant
ReadyForNext(s) ==
  [s EXCEPT !.headPos = 0, !.received = 0, !.len = -1, !.chunked = FALSE, !.body = FALSE]
DoneAfterFlush(s, out) ==                                                      \* a mutant
  IF s.chunked THEN ReadyForNext([Flush(s, out) EXCEPT !.cgi = 0])
  ELSE Flush([s EXCEPT !.cgi = 0, !.discon = TRUE], out)
CgiIsDone(s, out) ==
  IF s.chunked
    THEN Flush(ReadyForNext(Flush([s EXCEPT !.cgi = 0], out)), <<>>)
    ELSE Flush([s EXCEPT !.cgi = 0, !.discon = TRUE], out)

(* A call of the CGI function, which returns MORE or DONE; httpdEndHeaders *)
(* sets HFL_SENDINGBODY.                                                   *)
Call(s, r) ==
  LET t == [s EXCEPT !.body = ~Refused(r)]
  IN IF s.cgi = r.calls \/ Refused(r) THEN CgiIsDone(t, Piece(s, r))
     ELSE Flush([t EXCEPT !.cgi = @ + 1], Piece(s, r))

(* httpdParseHeader sets and clears HFL_CHUNKED and learns the length of   *)
(* the body; httpdRecvCb calls it for every line.                          *)
ParseHeader(s, r, line) ==
  CASE line = "HTTP/1.1"          -> [s EXCEPT !.chunked = TRUE]
    [] line = "Connection: close" -> [s EXCEPT !.chunked = FALSE]
    [] line = "Content-Length"    -> [s EXCEPT !.len = r.body]
    [] OTHER                      -> s
ParseHead(s, r) ==
  LET after[i \in 0..Len(r.head)] ==
        IF i = 0 THEN [s EXCEPT !.len = 0] ELSE ParseHeader(after[i - 1], r, r.head[i])
  IN after[Len(r.head)]

(* httpdRecvCb with k segments: lines of the head, parsed when it is       *)
(* complete, then bytes of the body, and when there are no more            *)
(* httpdProcessRequest.  Other bytes are ignored.                          *)
Received(s, r, k) ==
  LET ofHead == IF s.len # -1 THEN 0
                ELSE IF k < Len(r.head) - s.headPos THEN k ELSE Len(r.head) - s.headPos
      headed == [s EXCEPT !.headPos = @ + ofHead]
      parsed == IF s.len = -1 /\ headed.headPos = Len(r.head) THEN ParseHead(headed, r)
                ELSE headed
      ofBody == IF parsed.len > 0 THEN k - ofHead ELSE 0
      filled == [parsed EXCEPT !.received = @ + ofBody]
  IN IF \/ filled.len > 0 /\ ofBody > 0 /\ filled.received = filled.len
        \/ filled.len = 0 /\ s.len = -1
       THEN Call([filled EXCEPT !.cgi = 1], r)
       ELSE filled

(* The CGI of files keeps its file open until it returns DONE.             *)
FileOpen(s, r) == CgiFor(r.url) = "cgiEspFsHook" /\ s.cgi > 0

(* httpdFindConnData, by the address of the client.                        *)
FindConnData(c) == {i \in Slots : connData[i] = c}

Recv(c) ==
  /\ sock[c] = "open" /\ FindConnData(c) # {} /\ Asked(c) /\ ~AllSent(c)
  /\ \E k \in 1..(Segments(client[c].req) - client[c].sent) :
       /\ client' = [client EXCEPT ![c].sent = @ + k]
       /\ conn' = [conn EXCEPT ![c] = Received(@, client[c].req, k)]
  /\ file' = [file EXCEPT ![c] = FileOpen(conn'[c], client[c].req)]
  /\ UNCHANGED <<sock, connData>>

(* httpdSentCb and httpdContinue: the backlog first, then the end of the   *)
(* connection if it is marked, then the CGI function.                      *)
NeverClosed(s) == FALSE                                                        \* a mutant
MarkedToClose(s) == s.backlog = <<>> /\ s.discon
Continued(s, r) ==
  IF s.backlog # <<>>
    THEN PlatSendData([s EXCEPT !.backlog = Tail(@)], Head(s.backlog))
  ELSE IF s.discon \/ s.cgi = 0 THEN s ELSE Call(s, r)

PlatDisconnect(c) == sock' = [sock EXCEPT ![c] = "closing"]

SentCb(c) ==
  /\ sock[c] = "open" /\ FindConnData(c) # {} /\ conn[c].busy /\ conn[c].air = <<>>
  /\ conn' = [conn EXCEPT ![c] = Continued([@ EXCEPT !.busy = FALSE], client[c].req)]
  /\ file' = [file EXCEPT ![c] = FileOpen(conn'[c], client[c].req)]
  /\ IF MarkedToClose(conn[c]) THEN PlatDisconnect(c) ELSE UNCHANGED sock
  /\ UNCHANGED <<connData, client>>

(* httpdConnectCb takes the first free slot; without one platConnCb closes *)
(* the connection at once.                                                 *)
ConnectCb(c) ==
  /\ sock[c] = "none"
  /\ \E i \in FindConnData("nobody") :
       /\ \A j \in FindConnData("nobody") : i <= j
       /\ connData' = [connData EXCEPT ![i] = c]
  /\ conn' = [conn EXCEPT ![c] = Fresh]
  /\ UNCHANGED <<file, client>>
PlatConnCb(c) ==
  /\ ConnectCb(c)
  /\ sock' = [sock EXCEPT ![c] = "open"]

(* httpdRetireConn frees the slot.                                         *)
RetireConn(c) ==
  connData' = [i \in Slots |-> IF connData[i] = c THEN "nobody" ELSE connData[i]]

(* httpdDisconCb: a CGI function that is not done is called once more, to  *)
(* clean up. espconn tells the end by platDisconCb or platReconCb.         *)
FileForgotten(s, f) == f                                                       \* a mutant
FileLeft(s, f) == f /\ s.cgi = 0
DisconCb(c) ==
  /\ FindConnData(c) # {}
  /\ RetireConn(c)
  /\ file' = [file EXCEPT ![c] = FileLeft(conn[c], @)]
  /\ conn' = [conn EXCEPT ![c] = Fresh]
PlatDisconCb(c) ==
  /\ sock[c] = "closing" /\ DisconCb(c)
  /\ sock' = [sock EXCEPT ![c] = "none"]
  /\ client' = [client EXCEPT ![c] = Idle]

-----------------------------------------------------------------------------
(* The client asks, receives, or goes away (or espconn gives it up).       *)
Ask(c) ==
  /\ sock[c] = "open"
  /\ ~Asked(c) \/ (Complete(c) /\ client[c].got[1] > 0)
  /\ \E r \in Request : client' = [client EXCEPT ![c] = [Idle EXCEPT !.req = r]]
  /\ UNCHANGED <<sock, connData, conn, file>>

Receive(c) ==
  /\ sock[c] = "open" /\ conn[c].air # <<>>
  /\ client' = [client EXCEPT ![c].got = @ \o conn[c].air]
  /\ conn' = [conn EXCEPT ![c].air = <<>>]
  /\ UNCHANGED <<sock, connData, file>>

Leave(c) ==
  /\ sock[c] = "open"
  /\ sock' = [sock EXCEPT ![c] = "closing"]
  /\ UNCHANGED <<connData, conn, file, client>>

Next == \E c \in Client :
  \/ PlatConnCb(c) \/ Recv(c) \/ SentCb(c) \/ PlatDisconCb(c)
  \/ Ask(c) \/ Receive(c) \/ Leave(c)

(* Packets arrive and are acknowledged, and the end of a connection is told*)
Fairness == \A c \in Client :
  WF_vars(Receive(c)) /\ WF_vars(SentCb(c)) /\ WF_vars(PlatDisconCb(c))

Spec == Init /\ [][Next]_vars /\ Fairness

-----------------------------------------------------------------------------
(* What has been flushed of the answer, wherever it is by now.             *)
Flushed(c) ==
  client[c].got \o conn[c].air
    \o IF conn[c].backlog = <<>> THEN <<>> ELSE Head(conn[c].backlog)

(* What the client gets, then what is on its way, then the backlog are the *)
(* beginning of the answer, and all of it when the CGI function is done,   *)
(* whether segments of the next request or espconn's callback come first.  *)
(* At most one packet waits: the limit of the backlog is out of reach.     *)
AnswersInOrder ==
  \A c \in Client : sock[c] = "open" /\ Asked(c) =>
    LET answer == Answer(client[c].req)
    IN /\ Len(conn[c].backlog) <= 1
       /\ Len(Flushed(c)) <= Len(answer)
       /\ Flushed(c) = SubSeq(answer, 1, Len(Flushed(c)))
       /\ AllSent(c) /\ conn[c].cgi = 0 => Flushed(c) = answer

(* A file is open only while the CGI function that opened it will be called*)
(* again, at the latest when the connection ends: every callback finds the *)
(* one slot of its connection, and no slot is kept without one.            *)
FilesClosed ==
  \A c \in Client :
    /\ file[c] => sock[c] # "none" /\ conn[c].cgi > 0
    /\ Cardinality(FindConnData(c)) = IF sock[c] = "none" THEN 0 ELSE 1

(* A request that has been sent is answered whole, unless the connection   *)
(* ends, and without chunks the connection is closed to tell the end.  The *)
(* exception: when the last call sends nothing there is no callback to     *)
(* close it in.  (A connection of HTTP/1.1 on which a gzipped file has been*)
(* refused stays open too, although the refusal announces its end.)        *)
Answered ==
  \A c \in Client :
    AllSent(c) /\ ~(client[c].req.empty /\ ~Kept(client[c].req))
      ~> sock[c] # "open" \/ (Complete(c) /\ Kept(client[c].req))
=============================================================================
