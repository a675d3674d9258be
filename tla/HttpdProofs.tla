----------------------------- MODULE HttpdProofs -----------------------------
(***************************************************************************)
(* The HTTP server answers every request with the pieces of its answer in  *)
(* their order, however many connections, slots, requests and calls there  *)
(* are, and wherever espconn's callbacks come between the segments of a    *)
(* request; and it forgets neither a slot nor a file.                      *)
(***************************************************************************)
EXTENDS Httpd, FiniteSetTheorems, SequenceTheorems, WellFoundedInduction, TLAPS

(***************************************************************************)
(* An answer piece by piece: the status line, then what the calls of the   *)
(* CGI function send, each the piece of its number.                        *)
(***************************************************************************)
Code(r) == IF r.url = "/" THEN 302 ELSE IF r.url = "missing" THEN 404 ELSE 200
FirstPiece(r) == IF r.url \in {"file", "zipped"} THEN 2 ELSE 1
LastPiece(r) == IF r.empty THEN r.calls - 1 ELSE r.calls

(* What has been sent after call n. *)
Begun(r, n) ==
  [i \in 1..(n - FirstPiece(r) + 2) |->
     IF i = 1 THEN HeadOf(Kept(r), Code(r)) ELSE FirstPiece(r) + i - 2]
EndMark(r) == IF Kept(r) THEN <<Last>> ELSE <<>>

(* The types of the two records of a connection. *)
ConnType ==
  [headPos : 0..MaxHead, len : -1..MaxBody, received : 0..MaxBody,
   chunked : BOOLEAN, body : BOOLEAN, discon : BOOLEAN, cgi : 0..MaxCalls,
   backlog : Seq(Seq(Sent)), busy : BOOLEAN, air : Seq(Sent)]
ClientType ==
  [req : Request \cup {None}, sent : 0..(MaxHead + MaxBody), got : Seq(Sent)]

(***************************************************************************)
(* The phases of a connection: the client cl and the server's record s.    *)
(***************************************************************************)
FlushedOf(cl, s) ==
  cl.got \o s.air \o IF s.backlog = <<>> THEN <<>> ELSE Head(s.backlog)

NothingWaits(cl, s) == s.backlog = <<>> /\ s.air = <<>> /\ cl.got = <<>>
OneWaits(s) == s.backlog = <<>> \/ (Len(s.backlog) = 1 /\ Head(s.backlog) # <<>>)

ReadyForHead(s) ==
  /\ s.len = -1 /\ s.received = 0 /\ s.cgi = 0
  /\ ~s.chunked /\ ~s.body /\ ~s.discon

Unasked(cl, s) ==
  /\ cl = Idle
  /\ ReadyForHead(s) /\ s.headPos = 0 /\ ~s.busy
  /\ NothingWaits(cl, s)

ReadingHead(cl, s) ==
  /\ cl.req \in Request
  /\ cl.sent < Len(cl.req.head)
  /\ ReadyForHead(s) /\ s.headPos = cl.sent
  /\ NothingWaits(cl, s)

(* The head has been parsed. *)
Headed(r, s) ==
  /\ s.headPos = Len(r.head) /\ s.len = r.body
  /\ s.chunked = Kept(r) /\ ~s.discon

ReadingBody(cl, s) ==
  /\ cl.req \in Request
  /\ Len(cl.req.head) <= cl.sent /\ cl.sent < Segments(cl.req)
  /\ Headed(cl.req, s)
  /\ s.received = cl.sent - Len(cl.req.head)
  /\ s.cgi = 0 /\ ~s.body
  /\ NothingWaits(cl, s)

(* The CGI function will be called again: its next call is s.cgi. *)
Answering(cl, s) ==
  /\ cl.req \in Request /\ cl.sent = Segments(cl.req)
  /\ ~Refused(cl.req)
  /\ Headed(cl.req, s) /\ s.body
  /\ s.cgi \in 2..cl.req.calls
  /\ OneWaits(s)
  /\ FlushedOf(cl, s) = Begun(cl.req, s.cgi - 1)

Done(cl, s) ==
  /\ cl.req \in Request /\ cl.sent = Segments(cl.req)
  /\ s.cgi = 0
  /\ IF Kept(cl.req) THEN ReadyForHead(s) /\ s.headPos = 0 ELSE s.discon
  /\ OneWaits(s)
  /\ FlushedOf(cl, s) = Answer(cl.req)

Phase(cl, s) ==
  \/ Unasked(cl, s)
  \/ ReadingHead(cl, s)
  \/ ReadingBody(cl, s)
  \/ Answering(cl, s)
  \/ Done(cl, s)

(* The slot of a connection, and its file. *)
Held(c) ==
  IF sock[c] = "none"
  THEN FindConnData(c) = {} /\ client[c] = Idle /\ conn[c] = Fresh /\ ~file[c]
  ELSE (\E i \in Slots : FindConnData(c) = {i}) /\ (file[c] => conn[c].cgi > 0)

Types ==
  /\ sock \in [Client -> {"none", "open", "closing"}]
  /\ connData \in [Slots -> Client \cup {"nobody"}]
  /\ conn \in [Client -> ConnType]
  /\ file \in [Client -> BOOLEAN]
  /\ client \in [Client -> ClientType]

IInv ==
  /\ Types
  /\ \A c \in Client : Held(c) /\ Phase(client[c], conn[c])

-----------------------------------------------------------------------------
(* A set of natural numbers has a least element: induction on the lines of *)
(* a head.                                                                 *)
LEMMA LeastNatural ==
  ASSUME NEW T \in SUBSET Nat, T # {}
  PROVE  \E x \in T : \A y \in T : x <= y
<1> DEFINE R == {ss \in Nat \X Nat : ss[1] < ss[2]}
<1>1. IsWellFoundedOn(R, Nat)
  BY NatLessThanWellFounded DEF OpToRel
<1>2. \A x, y \in Nat : <<y, x>> \in R <=> y < x
  OBVIOUS
<1> HIDE DEF R
<1>3. PICK x \in T : \A y \in T : ~(<<y, x>> \in R)
  BY <1>1, WFMin
<1>4. \A y \in T : x \in Nat /\ y \in Nat /\ ~(y < x)
  BY <1>2, <1>3
<1>5. QED  BY <1>3, <1>4

LEMMA Bounds ==
  /\ MaxHead \in Nat /\ MaxBody \in Nat /\ MaxCalls \in Nat \ {0}
  /\ 0 \in 0..MaxHead /\ 0 \in 0..MaxBody /\ 0 \in 0..MaxCalls
  /\ -1 \in -1..MaxBody
  /\ Last \in Sent /\ <<Last>> \in Seq(Sent) /\ -501 \in Sent
<1>1. MaxHead \in Nat /\ MaxBody \in Nat /\ MaxCalls \in Nat \ {0}
  BY HttpdAssumption
<1>2. Last \in Sent
  BY <1>1 DEF Last, Sent
<1>3. <<Last>> \in Seq(Sent)
  BY <1>2
<1>4. -501 \in Sent
  BY DEF Sent, Codes
<1>5. QED  BY <1>1, <1>2, <1>3, <1>4

(* The shape of a request. *)
LEMMA RequestShape ==
  ASSUME NEW r \in Request
  PROVE  /\ r.head \in Seq(Versions \cup Fields)
         /\ Len(r.head) \in 1..MaxHead /\ Len(r.head) \in Nat
         /\ r.head[1] \in Versions
         /\ \A i \in 2..Len(r.head) : r.head[i] \in Fields
         /\ r.body \in 0..MaxBody /\ r.body \in Nat
         /\ r.body > 0 <=> GetHeader(r, "Content-Length")
         /\ r.calls \in 1..MaxCalls /\ r.calls \in Nat
         /\ r.url \in Urls /\ r.empty \in BOOLEAN
         /\ r.url \in {"file", "zipped"} => r.calls > 1
         /\ r.url \in {"/", "missing"} => r.calls = 1
         /\ r.empty => r.url = "file"
         /\ Segments(r) \in Nat /\ Segments(r) = Len(r.head) + r.body
         /\ Segments(r) <= MaxHead + MaxBody
  BY HttpdAssumption DEF GetHeader, Segments

(***************************************************************************)
(* httpdParseHeader, line by line, leaves the length of the body, and      *)
(* chunks exactly for the connections that are kept.                       *)
(***************************************************************************)
Headers(s, length, chunked) == [s EXCEPT !.len = length, !.chunked = chunked]

(* What is known after the first i lines. *)
LengthAfter(r, i) ==
  IF \E j \in 2..i : r.head[j] = "Content-Length" THEN r.body ELSE 0
ChunkedAfter(r, i) ==
  IF /\ i > 0 /\ r.head[1] = "HTTP/1.1"
     /\ \A j \in 2..i : r.head[j] # "Connection: close"
  THEN TRUE ELSE FALSE
HeadersAfter(s, r, i) == Headers(s, LengthAfter(r, i), ChunkedAfter(r, i))

LEMMA LineParsed ==
  ASSUME NEW r \in Request, NEW s \in ConnType, NEW i \in 1..Len(r.head)
  PROVE  ParseHeader(HeadersAfter(s, r, i - 1), r, r.head[i])
            = HeadersAfter(s, r, i)
<1> DEFINE h == r.head[i]
           l == LengthAfter(r, i - 1)
           b == ChunkedAfter(r, i - 1)
<1>1. /\ Len(r.head) \in Nat
      /\ r.head[1] \in Versions
      /\ \A j \in 2..Len(r.head) : r.head[j] \in Fields
  BY RequestShape
<1>2. /\ [Headers(s, l, b) EXCEPT !.len = r.body] = Headers(s, r.body, b)
      /\ [Headers(s, l, b) EXCEPT !.chunked = TRUE] = Headers(s, l, TRUE)
      /\ [Headers(s, l, b) EXCEPT !.chunked = FALSE] = Headers(s, l, FALSE)
  <2> HIDE DEF l, b
  <2>1. QED  BY DEF ConnType, Headers
<1>3. CASE i = 1
  <2>1. 2..i = {} /\ 2..(i - 1) = {} /\ ~(i - 1 > 0) /\ i > 0
    BY <1>3
  <2>2. /\ h \in {"HTTP/1.1", "HTTP/1.0"}
        /\ LengthAfter(r, i) = l
        /\ b = FALSE
        /\ ChunkedAfter(r, i) = IF h = "HTTP/1.1" THEN TRUE ELSE FALSE
    BY <1>1, <1>3, <2>1 DEF Versions, LengthAfter, ChunkedAfter
  <2> HIDE DEF h, l, b
  <2>3. ParseHeader(Headers(s, l, b), r, h) =
            IF h = "HTTP/1.1" THEN Headers(s, l, TRUE) ELSE Headers(s, l, b)
    BY <2>2, <1>2 DEF ParseHeader
  <2>4. ParseHeader(Headers(s, l, b), r, h)
            = Headers(s, LengthAfter(r, i), ChunkedAfter(r, i))
    BY <2>2, <2>3
  <2>5. QED  BY <2>4 DEF HeadersAfter, h, l, b
<1>4. CASE i # 1
  <2>1. /\ i \in 2..Len(r.head) /\ i - 1 > 0 /\ i > 0
        /\ \A j : j \in 2..i <=> (j \in 2..(i - 1) \/ j = i)
    BY <1>1, <1>4
  <2>2. h \in {"Connection: close", "Content-Length", "Accept-Encoding: gzip"}
    BY <1>1, <2>1 DEF Fields
  <2>3. LengthAfter(r, i) = IF h = "Content-Length" THEN r.body ELSE l
    BY <2>1 DEF LengthAfter
  <2>4. ChunkedAfter(r, i) = IF h = "Connection: close" THEN FALSE ELSE b
    BY <2>1 DEF ChunkedAfter
  <2> HIDE DEF h, l, b
  <2>5. ParseHeader(Headers(s, l, b), r, h) =
            IF h = "Connection: close" THEN Headers(s, l, FALSE)
            ELSE IF h = "Content-Length" THEN Headers(s, r.body, b)
            ELSE Headers(s, l, b)
    BY <2>2, <1>2 DEF ParseHeader
  <2>6. ParseHeader(Headers(s, l, b), r, h)
            = Headers(s, LengthAfter(r, i), ChunkedAfter(r, i))
    BY <2>2, <2>3, <2>4, <2>5
  <2>7. QED  BY <2>6 DEF HeadersAfter, h, l, b
<1>5. QED  BY <1>3, <1>4

LEMMA HeadParsed ==
  ASSUME NEW r \in Request, NEW s \in ConnType, s.chunked = FALSE
  PROVE  ParseHead(s, r) = Headers(s, r.body, Kept(r))
<1> DEFINE n == Len(r.head)
           line(g, i) == IF i = 0 THEN [s EXCEPT !.len = 0]
                         ELSE ParseHeader(g[i - 1], r, r.head[i])
           after == CHOOSE g : g = [i \in 0..n |-> line(g, i)]
           f == [i \in 0..n |-> HeadersAfter(s, r, i)]
<1>1. ParseHead(s, r) = after[n]
  BY DEF ParseHead
<1>2. n \in Nat /\ n > 0
  BY RequestShape
<1>3. ASSUME NEW i \in 1..n
      PROVE  ParseHeader(f[i - 1], r, r.head[i]) = f[i]
  <2>1. i - 1 \in 0..n /\ i \in 0..n
    BY <1>2
  <2>2. QED  BY <2>1, LineParsed
<1>4. f[0] = [s EXCEPT !.len = 0]
  <2>1. 0 \in 0..n /\ ~(0 > 0) /\ 2..0 = {}
    BY <1>2
  <2>2. f[0] = Headers(s, 0, FALSE)
    BY <2>1 DEF HeadersAfter, LengthAfter, ChunkedAfter
  <2> HIDE DEF f
  <2>3. QED  BY <2>2 DEF Headers, ConnType
<1>5. f = [i \in 0..n |-> line(f, i)]
  <2>1. ASSUME NEW i \in 0..n PROVE f[i] = line(f, i)
    <3>1. i = 0 \/ i \in 1..n
      BY <1>2
    <3> HIDE DEF f
    <3>2. QED  BY <3>1, <1>3, <1>4
  <2>2. f = [i \in 0..n |-> f[i]]
    OBVIOUS
  <2> HIDE DEF f, line
  <2>3. QED  BY <2>1, <2>2
<1>6. after = [i \in 0..n |-> line(after, i)]
  <2> HIDE DEF f, line
  <2>1. \E g : g = [i \in 0..n |-> line(g, i)]
    BY <1>5
  <2>2. QED  BY <2>1
<1>7. \A i \in 0..n : after[i] = line(after, i)
  <2> HIDE DEF after, line
  <2>1. QED  BY <1>6
<1> HIDE DEF after
<1>8. after[n] = f[n]
  <2> HIDE DEF f
  <2> DEFINE T == {i \in 0..n : after[i] # f[i]}
  <2>1. SUFFICES ASSUME T # {} PROVE FALSE
    BY <1>2
  <2>2. T \in SUBSET Nat
    BY <1>2
  <2>3. PICK i \in T : \A j \in T : i <= j
    BY <2>1, <2>2, LeastNatural
  <2>4. i # 0
    BY <2>3, <1>2, <1>4, <1>7
  <2>5. i \in 1..n /\ i - 1 \in 0..n /\ i - 1 \notin T
    BY <2>2, <2>3, <2>4, <1>2
  <2>6. after[i - 1] = f[i - 1]
    BY <2>5
  <2>7. after[i] = ParseHeader(after[i - 1], r, r.head[i])
    BY <2>4, <2>5, <1>7
  <2>8. QED  BY <2>3, <2>5, <2>6, <2>7, <1>3
<1>9. f[n] = HeadersAfter(s, r, n)
  BY <1>2
<1>10. LengthAfter(r, n) = r.body
  <2>1. /\ r.body \in Nat
        /\ r.body > 0 <=> \E j \in 2..n : r.head[j] = "Content-Length"
    BY RequestShape DEF GetHeader
  <2>2. CASE \E j \in 2..n : r.head[j] = "Content-Length"
    BY <2>2 DEF LengthAfter
  <2>3. CASE ~\E j \in 2..n : r.head[j] = "Content-Length"
    <3>1. r.body = 0
      BY <2>1, <2>3
    <3>2. QED  BY <2>3, <3>1 DEF LengthAfter
  <2>4. QED  BY <2>2, <2>3
<1>11. ChunkedAfter(r, n) = Kept(r)
  <2> DEFINE kept == /\ r.head[1] = "HTTP/1.1"
                     /\ \A j \in 2..n : r.head[j] # "Connection: close"
  <2>1. kept \in BOOLEAN /\ Kept(r) = kept
    BY DEF Kept, GetHeader
  <2>2. ChunkedAfter(r, n) = IF kept THEN TRUE ELSE FALSE
    BY <1>2 DEF ChunkedAfter
  <2> HIDE DEF kept
  <2>3. QED  BY <2>1, <2>2
<1>12. QED  BY <1>1, <1>8, <1>9, <1>10, <1>11 DEF HeadersAfter
-----------------------------------------------------------------------------
(* The search of httpdProcessRequest ends at one entry of the table.       *)
LEMMA CgiOfUrl ==
  /\ CgiFor("/") = "cgiRedirect"
  /\ CgiFor("page") = "www_wifi"
  /\ CgiFor("file") = "cgiEspFsHook"
  /\ CgiFor("zipped") = "cgiEspFsHook"
  /\ CgiFor("missing") = "cgiNotFound"
<1> DEFINE Happy(url) == {i \in DOMAIN BuiltInUrls :
                            /\ Matches(BuiltInUrls[i], url)
                            /\ ~SaysNotFound(BuiltInUrls[i], url)}
<1>1. DOMAIN BuiltInUrls = {1, 2, 3}
  BY DEF BuiltInUrls
<1>2. /\ BuiltInUrls[1] = [url |-> "/", cgi |-> "cgiRedirect"]
      /\ BuiltInUrls[2] = [url |-> "page", cgi |-> "www_wifi"]
      /\ BuiltInUrls[3] = [url |-> "*", cgi |-> "cgiEspFsHook"]
  BY DEF BuiltInUrls
<1>3. /\ Happy("/") = {1} /\ Happy("page") = {2}
      /\ Happy("file") = {3} /\ Happy("zipped") = {3} /\ Happy("missing") = {}
  BY <1>1, <1>2 DEF Matches, SaysNotFound
<1>4. \A url : CgiFor(url) =
         IF Happy(url) = {} THEN "cgiNotFound"
         ELSE BuiltInUrls[CHOOSE i \in Happy(url) :
                            \A j \in Happy(url) : i <= j].cgi
  BY DEF CgiFor
<1> HIDE DEF Happy
<1>5. ASSUME NEW url, NEW k \in {1, 2, 3}, Happy(url) = {k}
      PROVE  CgiFor(url) = BuiltInUrls[k].cgi
  <2>1. (CHOOSE i \in Happy(url) : \A j \in Happy(url) : i <= j) = k
    BY <1>5
  <2>2. Happy(url) # {}
    BY <1>5
  <2>3. QED  BY <1>4, <2>1, <2>2
<1>6. CgiFor("/") = BuiltInUrls[1].cgi
  BY <1>3, <1>5
<1>7. CgiFor("page") = BuiltInUrls[2].cgi
  BY <1>3, <1>5
<1>8. CgiFor("file") = BuiltInUrls[3].cgi /\ CgiFor("zipped") = BuiltInUrls[3].cgi
  BY <1>3, <1>5
<1>9. CgiFor("missing") = "cgiNotFound"
  BY <1>3, <1>4
<1>10. QED  BY <1>2, <1>6, <1>7, <1>8, <1>9

(* The numbers of an answer's pieces. *)
LEMMA PieceNumbers ==
  ASSUME NEW r \in Request
  PROVE  /\ FirstPiece(r) \in {1, 2} /\ FirstPiece(r) <= LastPiece(r) + 1
         /\ LastPiece(r) \in Nat /\ LastPiece(r) <= r.calls
         /\ r.calls <= LastPiece(r) + 1 /\ 1 <= LastPiece(r)
         /\ r.calls \in 1..MaxCalls
         /\ Code(r) \in Codes /\ Code(r) \in Nat \ {0}
         /\ HeadOf(Kept(r), Code(r)) \in Sent
         /\ HeadOf(Kept(r), Code(r)) > 0 <=> Kept(r)
         /\ Last \in Sent /\ \A n \in 1..r.calls : n \in Sent
<1>1. r.empty => r.calls > 1
  BY RequestShape
<1>2. r.calls \in 1..MaxCalls /\ MaxCalls \in Nat
  BY RequestShape, HttpdAssumption
<1>3. FirstPiece(r) \in {1, 2} /\ (FirstPiece(r) = 2 => r.calls > 1)
  BY RequestShape DEF FirstPiece
<1>4. LastPiece(r) \in Nat /\ LastPiece(r) <= r.calls
      /\ r.calls <= LastPiece(r) + 1 /\ 1 <= LastPiece(r)
  BY <1>1, <1>2 DEF LastPiece
<1>5. Code(r) \in {200, 302, 404}
  BY DEF Code
<1>6. Code(r) \in Codes /\ Code(r) \in Nat \ {0}
  BY <1>5 DEF Codes
<1>7. /\ HeadOf(Kept(r), Code(r)) \in Sent
      /\ HeadOf(Kept(r), Code(r)) > 0 <=> Kept(r)
  <2>1. CASE Kept(r)
    BY <1>6, <2>1 DEF HeadOf, Sent
  <2>2. CASE ~Kept(r)
    BY <1>6, <2>2 DEF HeadOf, Sent
  <2>3. QED  BY <2>1, <2>2
<1>8. Last \in Sent /\ \A n \in 1..r.calls : n \in Sent
  BY <1>2 DEF Last, Sent
<1>9. QED  BY <1>2, <1>3, <1>4, <1>6, <1>7, <1>8

LEMMA BegunType ==
  ASSUME NEW r \in Request, NEW n \in 1..r.calls
  PROVE  /\ Begun(r, n) \in Seq(Sent)
         /\ Len(Begun(r, n)) = n - FirstPiece(r) + 2
         /\ Len(Begun(r, n)) \in Nat \ {0}
         /\ Begun(r, n)[1] = HeadOf(Kept(r), Code(r))
<1> DEFINE f == FirstPiece(r)
           m == n - f + 2
           h == HeadOf(Kept(r), Code(r))
<1>1. f \in {1, 2} /\ h \in Sent /\ n \in Nat /\ 1 <= n
      /\ \A k \in 1..r.calls : k \in Sent
  BY PieceNumbers
<1>2. m \in Nat \ {0} /\ r.calls \in Nat
  BY <1>1, PieceNumbers
<1> HIDE DEF f, h
<1>3. ASSUME NEW i \in 1..m PROVE (IF i = 1 THEN h ELSE f + i - 2) \in Sent
  <2>1. CASE i = 1
    BY <2>1, <1>1
  <2>2. CASE i # 1
    <3>1. f + i - 2 \in 1..r.calls
      BY <2>2, <1>1, <1>2
    <3>2. QED  BY <3>1, <2>2, <1>1
  <2>3. QED  BY <2>1, <2>2
<1>4. Begun(r, n) = [i \in 1..m |-> IF i = 1 THEN h ELSE f + i - 2]
  BY DEF Begun, f, h
<1> HIDE DEF m
<1>5. Begun(r, n) \in Seq(Sent) /\ Len(Begun(r, n)) = m
  BY <1>2, <1>3, <1>4
<1>6. Begun(r, n)[1] = h
  BY <1>2, <1>4
<1>7. QED  BY <1>2, <1>5, <1>6 DEF m, f, h

(* The next call's piece continues what has been sent. *)
LEMMA BegunGrows ==
  ASSUME NEW r \in Request, NEW n \in 1..r.calls, n < r.calls
  PROVE  Begun(r, n) \o <<n + 1>> = Begun(r, n + 1)
<1> DEFINE f == FirstPiece(r)
           h == HeadOf(Kept(r), Code(r))
           e(i) == IF i = 1 THEN h ELSE f + i - 2
<1>1. f \in {1, 2} /\ n \in Nat /\ 1 <= n
  BY PieceNumbers
<1>2. Begun(r, n) = [i \in 1..(n - f + 2) |-> e(i)]
      /\ Begun(r, n + 1) = [i \in 1..((n + 1) - f + 2) |-> e(i)]
  BY DEF Begun
<1>3. e(n - f + 3) = n + 1
  BY <1>1
<1>4. n - f + 2 \in Nat /\ (n + 1) - f + 2 = (n - f + 2) + 1
      /\ n - f + 3 = (n - f + 2) + 1
  BY <1>1
<1> HIDE DEF e, f
<1>5. QED  BY <1>2, <1>3, <1>4

(* What a call of the CGI function sends. *)
LEMMA PieceSent ==
  ASSUME NEW r \in Request, NEW s \in ConnType, ~Refused(r),
         s.chunked = Kept(r), s.cgi \in 1..r.calls
  PROVE  Piece(s, r) = IF s.cgi = 1 THEN Begun(r, 1)
                       ELSE IF s.cgi = r.calls /\ r.empty THEN <<>>
                       ELSE <<s.cgi>>
<1> DEFINE code == HeadOf(Kept(r), Code(r))
<1>1. \/ FirstPiece(r) = 1 /\ Begun(r, 1) = <<code>> \o <<1>>
      \/ FirstPiece(r) = 2 /\ Begun(r, 1) = <<code>>
  <2>1. CASE FirstPiece(r) = 1
    <3>1. Begun(r, 1) = [i \in 1..2 |-> IF i = 1 THEN code ELSE 1 + i - 2]
      BY <2>1 DEF Begun
    <3> HIDE DEF code
    <3>2. <<code>> \o <<1>> = [i \in 1..2 |-> IF i = 1 THEN code ELSE 1 + i - 2]
      OBVIOUS
    <3>3. QED  BY <2>1, <3>1, <3>2
  <2>2. CASE FirstPiece(r) = 2
    <3>1. Begun(r, 1) = [i \in 1..1 |-> IF i = 1 THEN code ELSE 2 + i - 2]
      BY <2>2 DEF Begun
    <3> HIDE DEF code
    <3>2. [i \in 1..1 |-> IF i = 1 THEN code ELSE 2 + i - 2] = <<code>>
      OBVIOUS
    <3>3. QED  BY <2>2, <3>1, <3>2
  <2>3. QED  BY <2>1, <2>2, PieceNumbers
<1>2. r.url \in Urls /\ s.cgi \in Nat /\ s.cgi > 0
  BY RequestShape
<1>3. CASE r.url = "/"
  <2>1. r.calls = 1 /\ s.cgi = 1 /\ FirstPiece(r) = 1 /\ Code(r) = 302
    BY <1>3, RequestShape DEF FirstPiece, Code
  <2>2. Piece(s, r) = <<HeadOf(s.chunked, 302)>> \o <<1>>
    BY <1>3, CgiOfUrl DEF Piece, CgiRedirect, StartResponse
  <2>3. QED  BY <1>1, <2>1, <2>2
<1>4. CASE r.url = "missing"
  <2>1. r.calls = 1 /\ s.cgi = 1 /\ FirstPiece(r) = 1 /\ Code(r) = 404
    BY <1>4, RequestShape DEF FirstPiece, Code
  <2>2. Piece(s, r) = <<HeadOf(s.chunked, 404)>> \o <<1>>
    BY <1>4, CgiOfUrl DEF Piece, CgiNotFound, StartResponse
  <2>3. QED  BY <1>1, <2>1, <2>2
<1>5. CASE r.url = "page"
  <2>1. ~r.empty /\ FirstPiece(r) = 1 /\ Code(r) = 200
    BY <1>5, RequestShape DEF FirstPiece, Code
  <2>2. Piece(s, r) = IF s.cgi = 1 THEN <<HeadOf(s.chunked, 200)>> \o <<1>>
                      ELSE <<s.cgi>>
    BY <1>5, CgiOfUrl DEF Piece, WwwWifi, StartResponse
  <2>3. CASE s.cgi = 1
    BY <2>3, <1>1, <2>1, <2>2
  <2>4. CASE s.cgi # 1
    <3>1. Piece(s, r) = <<s.cgi>>
      BY <2>2, <2>4
    <3>2. ~(s.cgi = r.calls /\ r.empty)
      BY <2>1
    <3>3. QED  BY <2>4, <3>1, <3>2
  <2>5. QED  BY <2>3, <2>4
<1>6. CASE r.url \in {"file", "zipped"}
  <2>1. FirstPiece(r) = 2 /\ Code(r) = 200
    BY <1>6 DEF FirstPiece, Code
  <2>2. CgiFor(r.url) = "cgiEspFsHook"
    BY <1>6, CgiOfUrl
  <2>3. Piece(s, r) = IF s.cgi = 1 THEN <<HeadOf(s.chunked, 200)>>
                      ELSE IF s.cgi = r.calls /\ r.empty THEN <<>> ELSE <<s.cgi>>
    BY <2>2 DEF Piece, CgiEspFsHook, StartResponse
  <2>4. QED  BY <1>1, <2>1, <2>3
<1>7. QED  BY <1>2, <1>3, <1>4, <1>5, <1>6 DEF Urls

(* A refusal is sent in one piece. *)
LEMMA RefusalSent ==
  ASSUME NEW r \in Request, NEW s \in ConnType, Refused(r)
  PROVE  Piece(s, r) = <<-501>> /\ Answer(r) = <<-501>>
  BY CgiOfUrl DEF Piece, CgiEspFsHook, Answer, Refused

LEMMA AnswerIfRefused ==
  ASSUME NEW r \in Request, Refused(r)
  PROVE  Answer(r) = <<-501>>
  BY DEF Answer

(* A whole answer is that of all calls, and the chunk that ends it. *)
LEMMA AnswerIs ==
  ASSUME NEW r \in Request, ~Refused(r)
  PROVE  Answer(r) = Begun(r, LastPiece(r)) \o EndMark(r)
<1> DEFINE code == HeadOf(Kept(r), Code(r))
           f == FirstPiece(r)
           m == LastPiece(r)
<1>1. Answer(r) = <<code>> \o [i \in 1..(m - f + 1) |-> f + i - 1] \o EndMark(r)
  <2>1. r.url \in Urls
    BY RequestShape
  <2>2. (CASE r.url = "/" -> 302 [] r.url = "missing" -> 404 [] OTHER -> 200) = Code(r)
    BY DEF Code
  <2>3. QED  BY <2>2 DEF Answer, EndMark, FirstPiece, LastPiece
<1>2. m - f + 1 \in Nat /\ f \in {1, 2}
  BY PieceNumbers
<1>3. Begun(r, m) = [i \in 1..(m - f + 2) |-> IF i = 1 THEN code ELSE f + i - 2]
  BY DEF Begun
<1> HIDE DEF code, f
<1> DEFINE k == m - f + 1
<1>4. m - f + 2 = k + 1 /\ k \in Nat
  BY <1>2, PieceNumbers
<1> HIDE DEF k
<1>5. <<code>> \o [i \in 1..k |-> f + i - 1]
         = [i \in 1..(k + 1) |-> IF i = 1 THEN code ELSE f + i - 2]
  BY <1>2, <1>4
<1>6. QED  BY <1>1, <1>3, <1>4, <1>5 DEF k
-----------------------------------------------------------------------------
(* What flushing does not touch. *)
SameButSent(s, t) ==
  /\ t.headPos = s.headPos /\ t.len = s.len /\ t.received = s.received
  /\ t.chunked = s.chunked /\ t.body = s.body /\ t.discon = s.discon
  /\ t.cgi = s.cgi

Quiet(s) == s.backlog = <<>> /\ s.air = <<>>

LEMMA FlushedWhenQuiet ==
  ASSUME NEW cl \in ClientType, NEW s \in ConnType, Quiet(s)
  PROVE  FlushedOf(cl, s) = cl.got
<1>1. cl.got \in Seq(Sent)
  BY DEF ClientType
<1>2. cl.got \o <<>> = cl.got
  BY <1>1, ConcatEmptySeq
<1>3. FlushedOf(cl, s) = (cl.got \o <<>>) \o <<>>
  BY DEF FlushedOf, Quiet
<1>4. QED  BY <1>2, <1>3

(* A packet goes to espconn, or waits. *)
LEMMA PacketSent ==
  ASSUME NEW cl \in ClientType, NEW s \in ConnType, Quiet(s),
         NEW p \in Seq(Sent), p # <<>>,
         NEW t, t = SendOrQueue(s, p)
  PROVE  /\ t \in ConnType /\ SameButSent(s, t)
         /\ OneWaits(t)
         /\ FlushedOf(cl, t) = cl.got \o p
<1>1. cl.got \in Seq(Sent) /\ s.air \in Seq(Sent)
  BY DEF ClientType, ConnType
<1>2. CASE s.busy
  <2>1. t = [s EXCEPT !.backlog = Append(<<>>, p)]
    BY <1>2 DEF SendOrQueue, Quiet
  <2>2. Append(<<>>, p) = <<p>>
    OBVIOUS
  <2>3. <<p>> \in Seq(Seq(Sent)) /\ Len(<<p>>) = 1 /\ Head(<<p>>) = p /\ <<p>> # <<>>
    OBVIOUS
  <2>4. /\ t \in ConnType /\ SameButSent(s, t)
        /\ t.backlog = <<p>> /\ t.air = s.air
    BY <2>1, <2>2, <2>3 DEF ConnType, SameButSent
  <2>5. FlushedOf(cl, t) = (cl.got \o <<>>) \o p
    BY <2>3, <2>4 DEF FlushedOf, Quiet
  <2>6. cl.got \o <<>> = cl.got
    BY <1>1, ConcatEmptySeq
  <2>7. QED  BY <2>3, <2>4, <2>5, <2>6 DEF OneWaits
<1>3. CASE ~s.busy
  <2>1. t = [s EXCEPT !.busy = TRUE, !.air = p]
    BY <1>3 DEF SendOrQueue, PlatSendData
  <2>2. /\ t \in ConnType /\ SameButSent(s, t)
        /\ t.backlog = <<>> /\ t.air = p
    BY <2>1 DEF ConnType, SameButSent, Quiet
  <2>3. FlushedOf(cl, t) = (cl.got \o p) \o <<>>
    BY <2>2 DEF FlushedOf
  <2>4. cl.got \o p \in Seq(Sent)
    BY <1>1, ConcatProperties
  <2>5. QED  BY <2>2, <2>3, <2>4, ConcatEmptySeq DEF OneWaits
<1>4. QED  BY <1>2, <1>3

(* httpdFlushSendBuffer sends all that has been gathered, and the last     *)
(* chunk when the CGI function is done.                                    *)
Ending(s) == IF s.chunked /\ s.body /\ s.cgi = 0 THEN <<Last>> ELSE <<>>

LEMMA EndingType ==
  ASSUME NEW s PROVE Ending(s) \in Seq(Sent)
  BY Bounds DEF Ending

LEMMA Flushes ==
  ASSUME NEW cl \in ClientType, NEW s \in ConnType, Quiet(s),
         NEW out \in Seq(Sent),
         NEW t, t = Flush(s, out)
  PROVE  /\ t \in ConnType /\ SameButSent(s, t)
         /\ OneWaits(t)
         /\ FlushedOf(cl, t) = cl.got \o (out \o Ending(s))
<1> DEFINE p == out \o Ending(s)
<1>1. t = IF p = <<>> THEN s ELSE SendOrQueue(s, p)
  BY DEF Flush, Ending
<1>2. p \in Seq(Sent)
  BY EndingType, ConcatProperties
<1> HIDE DEF p
<1>3. CASE p = <<>>
  <2>1. cl.got \o p = cl.got
    BY <1>3, ConcatEmptySeq DEF ClientType
  <2>2. FlushedOf(cl, t) = cl.got \o p
    BY <1>1, <1>3, <2>1, FlushedWhenQuiet
  <2>3. QED  BY <1>1, <1>3, <2>2 DEF SameButSent, OneWaits, Quiet, p
<1>4. CASE p # <<>>
  <2>1. t = SendOrQueue(s, p)
    BY <1>1, <1>4
  <2>2. QED  BY <1>2, <1>4, <2>1, PacketSent DEF p
<1>5. QED  BY <1>3, <1>4

(* httpdCgiIsDone. *)
LEMMA CgiDone ==
  ASSUME NEW cl \in ClientType, NEW s \in ConnType, Quiet(s), ~s.discon,
         NEW out \in Seq(Sent),
         NEW t, t = CgiIsDone(s, out)
  PROVE  /\ t \in ConnType /\ t.cgi = 0 /\ OneWaits(t)
         /\ IF s.chunked THEN ReadyForHead(t) /\ t.headPos = 0 ELSE t.discon
         /\ FlushedOf(cl, t) =
              cl.got \o (out \o IF s.chunked /\ s.body THEN <<Last>> ELSE <<>>)
<1>1. CASE s.chunked
  <2> DEFINE a == [s EXCEPT !.cgi = 0]
             b == Flush(a, out)
             d == ReadyForNext(b)
  <2>1. t = Flush(d, <<>>)
    BY <1>1 DEF CgiIsDone
  <2>2. a \in ConnType /\ Quiet(a) /\ a.chunked = s.chunked /\ a.body = s.body
        /\ a.cgi = 0 /\ a.discon = s.discon
    BY Bounds DEF ConnType, Quiet
  <2>3. Ending(a) = IF s.chunked /\ s.body THEN <<Last>> ELSE <<>>
    BY <2>2 DEF Ending
  <2> HIDE DEF a
  <2>4. /\ b \in ConnType /\ SameButSent(a, b) /\ OneWaits(b)
        /\ FlushedOf(cl, b) = cl.got \o (out \o Ending(a))
    BY <2>2, Flushes
  <2>5. b.cgi = 0
    BY <2>2, <2>4 DEF SameButSent
  <2> HIDE DEF b
  <2>6. /\ d \in ConnType /\ d.cgi = 0
        /\ d.headPos = 0 /\ d.len = -1 /\ d.received = 0
        /\ d.chunked = FALSE /\ d.body = FALSE /\ d.discon = b.discon
        /\ d.backlog = b.backlog /\ d.air = b.air
    <3> DEFINE d0 == [b EXCEPT !.headPos = 0]
               d1 == [d0 EXCEPT !.received = 0]
               d2 == [d1 EXCEPT !.len = -1]
               d3 == [d2 EXCEPT !.chunked = FALSE]
    <3>0. b \in ConnType /\ b.cgi = 0
      BY <2>4, <2>5
    <3>a. /\ d0 \in ConnType /\ d0.headPos = 0
          /\ d0.cgi = 0 /\ d0.discon = b.discon
          /\ d0.backlog = b.backlog /\ d0.air = b.air
      <4>1. d0 \in ConnType
        BY <3>0, Bounds DEF ConnType
      <4>2. d0.headPos = 0 /\ d0.cgi = 0 /\ d0.discon = b.discon
        BY <3>0 DEF ConnType
      <4>3. d0.backlog = b.backlog /\ d0.air = b.air
        BY <3>0 DEF ConnType
      <4>4. QED  BY <4>1, <4>2, <4>3
    <3> HIDE DEF d0
    <3>1. /\ d1 \in ConnType /\ d1.headPos = 0 /\ d1.received = 0
          /\ d1.cgi = 0 /\ d1.discon = b.discon
          /\ d1.backlog = b.backlog /\ d1.air = b.air
      BY <3>a, Bounds DEF ConnType
    <3> HIDE DEF d1
    <3>2. /\ d2 \in ConnType /\ d2.headPos = 0 /\ d2.received = 0 /\ d2.len = -1
          /\ d2.cgi = 0 /\ d2.discon = b.discon
          /\ d2.backlog = b.backlog /\ d2.air = b.air
      BY <3>1, Bounds DEF ConnType
    <3> HIDE DEF d2
    <3>3. /\ d3 \in ConnType /\ d3.headPos = 0 /\ d3.received = 0 /\ d3.len = -1
          /\ d3.chunked = FALSE /\ d3.cgi = 0 /\ d3.discon = b.discon
          /\ d3.backlog = b.backlog /\ d3.air = b.air
      BY <3>2 DEF ConnType
    <3>4. d = [d3 EXCEPT !.body = FALSE]
      BY DEF ReadyForNext, d0, d1, d2
    <3> HIDE DEF d3, d
    <3>5. QED  BY <3>3, <3>4 DEF ConnType
  <2> HIDE DEF d
  <2>7. t = d
    <3>1. <<>> \o (IF d.chunked /\ d.body /\ d.cgi = 0 THEN <<Last>> ELSE <<>>) = <<>>
      BY <2>6
    <3>2. QED  BY <2>1, <3>1 DEF Flush
  <2>8. OneWaits(t) /\ FlushedOf(cl, t) = FlushedOf(cl, b)
    BY <2>4, <2>6, <2>7 DEF OneWaits, FlushedOf
  <2>9. ~d.discon
    BY <2>2, <2>4, <2>6 DEF SameButSent
  <2>10. QED  BY <1>1, <2>3, <2>4, <2>6, <2>7, <2>8, <2>9 DEF ReadyForHead
<1>2. CASE ~s.chunked
  <2> DEFINE a == [s EXCEPT !.cgi = 0, !.discon = TRUE]
  <2>1. t = Flush(a, out)
    BY <1>2 DEF CgiIsDone
  <2>2. a \in ConnType /\ Quiet(a) /\ ~a.chunked /\ a.cgi = 0 /\ a.discon
    BY <1>2, Bounds DEF ConnType, Quiet
  <2>3. Ending(a) = <<>>
    BY <2>2 DEF Ending
  <2> HIDE DEF a
  <2>4. /\ t \in ConnType /\ SameButSent(a, t) /\ OneWaits(t)
        /\ FlushedOf(cl, t) = cl.got \o (out \o Ending(a))
    BY <2>1, <2>2, Flushes
  <2>5. QED  BY <1>2, <2>2, <2>3, <2>4 DEF SameButSent
<1>3. QED  BY <1>1, <1>2

(***************************************************************************)
(* A call of the CGI function, which finds everything sent so far          *)
(* delivered, leaves the connection answering or done.                     *)
(***************************************************************************)
LEMMA CallAnswers ==
  ASSUME NEW cl \in ClientType, NEW s \in ConnType, Quiet(s),
         NEW r \in Request, cl.req = r, cl.sent = Segments(r),
         Headed(r, s),
         s.cgi \in 1..r.calls,
         IF s.cgi = 1 THEN cl.got = <<>>
         ELSE ~Refused(r) /\ cl.got = Begun(r, s.cgi - 1),
         NEW u, u = Call(s, r)
  PROVE  u \in ConnType /\ Phase(cl, u)
<1> DEFINE t == [s EXCEPT !.body = ~Refused(r)]
           out == Piece(s, r)
<1>1. r.calls \in Nat /\ s.cgi \in Nat /\ s.cgi > 0 /\ r.calls \in 1..MaxCalls
  BY PieceNumbers
<1>2. Refused(r) \in BOOLEAN /\ Kept(r) \in BOOLEAN
  BY DEF Refused, Kept
<1>3. /\ t \in ConnType /\ Quiet(t) /\ t.body = (~Refused(r))
      /\ t.headPos = s.headPos /\ t.len = s.len /\ t.cgi = s.cgi
      /\ t.chunked = s.chunked /\ t.discon = s.discon
  <2>1. (~Refused(r)) \in BOOLEAN
    BY <1>2
  <2>2. t \in ConnType
    BY <2>1 DEF ConnType
  <2>3. Quiet(t) /\ t.body = (~Refused(r))
    BY DEF ConnType, Quiet
  <2>4. t.headPos = s.headPos /\ t.len = s.len /\ t.cgi = s.cgi
    BY DEF ConnType
  <2>5. t.chunked = s.chunked /\ t.discon = s.discon
    BY DEF ConnType
  <2>6. QED  BY <2>2, <2>3, <2>4, <2>5
<1>4. Piece(t, r) = out /\ s.chunked = Kept(r) /\ ~s.discon
      /\ ~t.discon /\ t.chunked = Kept(r)
  <2>1. s.chunked = Kept(r) /\ ~s.discon
    BY DEF Headed
  <2> HIDE DEF t
  <2>2. Piece(t, r) = out
    BY <1>3 DEF Piece, CgiRedirect, CgiNotFound, CgiEspFsHook, WwwWifi, StartResponse
  <2>3. QED  BY <1>3, <2>1, <2>2
<1>5. u = IF s.cgi = r.calls \/ Refused(r) THEN CgiIsDone(t, out)
          ELSE Flush([t EXCEPT !.cgi = @ + 1], out)
  <2>1. u = IF t.cgi = r.calls \/ Refused(r) THEN CgiIsDone(t, Piece(t, r))
            ELSE Flush([t EXCEPT !.cgi = @ + 1], Piece(t, r))
    BY <1>3, <1>4 DEF Call
  <2>2. QED  BY <2>1, <1>3, <1>4
<1>6. cl.got \in Seq(Sent)
  BY DEF ClientType
<1> HIDE DEF t, out
<1>7. CASE Refused(r)
  <2>1. out = <<-501>> /\ Answer(r) = <<-501>>
    BY <1>7, RefusalSent DEF out
  <2>2. out \in Seq(Sent)
    BY <2>1, Bounds
  <2>3. u = CgiIsDone(t, out) /\ ~t.body
    BY <1>3, <1>5, <1>7
  <2>4. cl.got = <<>>
    BY <1>7
  <2>5. /\ u \in ConnType /\ u.cgi = 0 /\ OneWaits(u)
        /\ IF t.chunked THEN ReadyForHead(u) /\ u.headPos = 0 ELSE u.discon
        /\ FlushedOf(cl, u) =
             cl.got \o (out \o IF t.chunked /\ t.body THEN <<Last>> ELSE <<>>)
    BY <1>3, <1>4, <2>2, <2>3, CgiDone
  <2>6. FlushedOf(cl, u) = <<>> \o (out \o <<>>)
    BY <2>3, <2>4, <2>5
  <2>7. FlushedOf(cl, u) = out
    BY <2>2, <2>6, ConcatEmptySeq
  <2>8. Done(cl, u)
    <3>1. IF Kept(r) THEN ReadyForHead(u) /\ u.headPos = 0 ELSE u.discon
      BY <1>4, <2>5
    <3>2. FlushedOf(cl, u) = Answer(r)
      BY <2>1, <2>7
    <3>3. QED  BY <2>5, <3>1, <3>2 DEF Done
  <2>9. QED  BY <2>5, <2>8 DEF Phase
<1>8. CASE ~Refused(r)
  <2>1. out = IF s.cgi = 1 THEN Begun(r, 1)
              ELSE IF s.cgi = r.calls /\ r.empty THEN <<>> ELSE <<s.cgi>>
    BY <1>4, <1>8, PieceSent DEF out
  <2>2. 1 \in 1..r.calls /\ Begun(r, 1) \in Seq(Sent) /\ <<s.cgi>> \in Seq(Sent)
    <3>1. 1 \in 1..r.calls /\ s.cgi \in Sent
      BY <1>1, PieceNumbers
    <3>2. QED  BY <3>1, BegunType
  <2>3. out \in Seq(Sent)
    <3>1. <<>> \in Seq(Sent)
      OBVIOUS
    <3>2. out = Begun(r, 1) \/ out = <<>> \/ out = <<s.cgi>>
      BY <2>1
    <3>3. QED  BY <2>2, <3>1, <3>2
  (* What has been sent after this call. *)
  <2>4. cl.got \o out = IF s.cgi = r.calls THEN Begun(r, LastPiece(r))
                        ELSE Begun(r, s.cgi)
    <3>1. CASE s.cgi = 1
      <4>1. cl.got \o out = Begun(r, 1)
        BY <3>1, <2>1, <2>2, ConcatEmptySeq
      <4>2. r.calls = 1 => LastPiece(r) = 1
        BY PieceNumbers
      <4>3. QED  BY <3>1, <4>1, <4>2
    <3>2. CASE s.cgi # 1 /\ s.cgi = r.calls /\ r.empty
      <4>1. cl.got \o out = cl.got
        BY <3>2, <2>1, <1>6, ConcatEmptySeq
      <4>2. LastPiece(r) = s.cgi - 1
        BY <3>2 DEF LastPiece
      <4>3. QED  BY <3>2, <4>1, <4>2
    <3>3. CASE s.cgi # 1 /\ ~(s.cgi = r.calls /\ r.empty)
      <4>1. out = <<s.cgi>> /\ cl.got = Begun(r, s.cgi - 1)
        BY <3>3, <2>1
      <4>2. s.cgi - 1 \in 1..r.calls /\ s.cgi - 1 < r.calls
            /\ (s.cgi - 1) + 1 = s.cgi
        BY <3>3, <1>1
      <4>3. cl.got \o out = Begun(r, s.cgi)
        <5> DEFINE n == s.cgi - 1
        <5>1. n \in 1..r.calls /\ n < r.calls /\ n + 1 = s.cgi
          BY <4>2
        <5>2. cl.got = Begun(r, n)
          BY <4>1
        <5> HIDE DEF n
        <5>3. Begun(r, n) \o <<n + 1>> = Begun(r, n + 1)
          BY <5>1, BegunGrows
        <5>4. QED  BY <4>1, <5>1, <5>2, <5>3
      <4>4. s.cgi = r.calls => LastPiece(r) = r.calls
        BY <3>3 DEF LastPiece
      <4>5. QED  BY <4>3, <4>4
    <3>4. QED  BY <3>1, <3>2, <3>3
  <2>5. CASE s.cgi = r.calls
    <3>1. u = CgiIsDone(t, out) /\ t.body
      BY <1>3, <1>5, <2>5, <1>8
    <3>2. /\ u \in ConnType /\ u.cgi = 0 /\ OneWaits(u)
          /\ IF t.chunked THEN ReadyForHead(u) /\ u.headPos = 0 ELSE u.discon
          /\ FlushedOf(cl, u) =
               cl.got \o (out \o IF t.chunked /\ t.body THEN <<Last>> ELSE <<>>)
      BY <1>3, <1>4, <2>3, <3>1, CgiDone
    <3>3. FlushedOf(cl, u) = cl.got \o (out \o EndMark(r))
      BY <1>4, <3>1, <3>2 DEF EndMark
    <3>4. EndMark(r) \in Seq(Sent)
      BY Bounds DEF EndMark
    <3>5. FlushedOf(cl, u) = (cl.got \o out) \o EndMark(r)
      <4>1. (cl.got \o out) \o EndMark(r) = cl.got \o (out \o EndMark(r))
        <5> DEFINE a == cl.got
                   b == EndMark(r)
        <5>1. a \in Seq(Sent) /\ b \in Seq(Sent)
          BY <1>6, <3>4
        <5> HIDE DEF a, b
        <5>2. (a \o out) \o b = a \o (out \o b)
          BY <2>3, <5>1, ConcatAssociative
        <5>3. QED  BY <5>2 DEF a, b
      <4>2. QED  BY <3>3, <4>1
    <3>6. FlushedOf(cl, u) = Answer(r)
      BY <1>8, <2>4, <2>5, <3>5, AnswerIs
    <3>7. Done(cl, u)
      BY <1>4, <3>2, <3>6 DEF Done
    <3>8. QED  BY <3>2, <3>7 DEF Phase
  <2>6. CASE s.cgi # r.calls
    <3> DEFINE v == [t EXCEPT !.cgi = @ + 1]
    <3>1. s.cgi + 1 \in 2..r.calls /\ s.cgi + 1 \in 0..MaxCalls /\ s.cgi + 1 # 0
          /\ (s.cgi + 1) - 1 = s.cgi
      <4> DEFINE n == s.cgi
                 k == r.calls
      <4>1. n \in 1..k /\ n # k /\ k \in 1..MaxCalls /\ MaxCalls \in Nat
        BY <1>1, <2>6, Bounds
      <4> HIDE DEF n, k
      <4>2. n + 1 \in 2..k /\ n + 1 \in 0..MaxCalls /\ n + 1 # 0 /\ (n + 1) - 1 = n
        BY <4>1
      <4>3. QED  BY <4>2 DEF n, k
    <3>2. v \in ConnType /\ v.cgi = s.cgi + 1
      BY <1>3, <3>1 DEF ConnType
    <3>3. Quiet(v) /\ v.headPos = t.headPos /\ v.len = t.len
      BY <1>3 DEF ConnType, Quiet
    <3>4. v.body = t.body /\ v.chunked = t.chunked /\ v.discon = t.discon
      BY <1>3 DEF ConnType
    <3>5. u = Flush(v, out)
      BY <1>5, <1>8, <2>6
    <3> HIDE DEF v
    <3>6. /\ u \in ConnType /\ SameButSent(v, u) /\ OneWaits(u)
          /\ FlushedOf(cl, u) = cl.got \o (out \o Ending(v))
      BY <2>3, <3>2, <3>3, <3>5, Flushes
    <3>7. Ending(v) = <<>>
      BY <3>1, <3>2 DEF Ending
    <3>8. FlushedOf(cl, u) = Begun(r, s.cgi)
      BY <2>3, <2>4, <2>6, <3>6, <3>7, ConcatEmptySeq
    <3>9. u.cgi = s.cgi + 1 /\ FlushedOf(cl, u) = Begun(r, u.cgi - 1)
          /\ u.cgi \in 2..r.calls
      BY <3>1, <3>2, <3>6, <3>8 DEF SameButSent
    <3>10. Headed(r, u) /\ u.body
      BY <1>3, <1>8, <3>3, <3>4, <3>6 DEF SameButSent, Headed
    <3>11. Answering(cl, u)
      BY <1>8, <3>6, <3>9, <3>10 DEF Answering
    <3>12. QED  BY <3>6, <3>11 DEF Phase
  <2>7. QED  BY <2>5, <2>6
<1>9. QED  BY <1>7, <1>8

(* The head is parsed, and all that came of the body taken: the CGI        *)
(* function is called when nothing is missing.                             *)
LEMMA BodyTaken ==
  ASSUME NEW cl \in ClientType, NEW w \in ConnType, NEW r \in Request,
         cl.req = r, cl.got = <<>>,
         Len(r.head) <= cl.sent, cl.sent <= Segments(r),
         Headed(r, w), w.cgi = 0, ~w.body, Quiet(w),
         w.received = cl.sent - Len(r.head),
         NEW u, u = IF cl.sent = Segments(r) THEN Call([w EXCEPT !.cgi = 1], r) ELSE w
  PROVE  u \in ConnType /\ Phase(cl, u)
<1>1. cl.sent \in Nat /\ Segments(r) \in Nat
  <2>1. cl.sent \in 0..(MaxHead + MaxBody)
    BY DEF ClientType
  <2>2. QED  BY <2>1, Bounds, RequestShape
<1>2. CASE cl.sent = Segments(r)
  <2> DEFINE v == [w EXCEPT !.cgi = 1]
  <2>1. 1 \in 1..r.calls /\ 1 \in 0..MaxCalls
    BY RequestShape, Bounds
  <2>2. v \in ConnType /\ v.cgi = 1
    BY <2>1 DEF ConnType
  <2>3. Quiet(v) /\ v.headPos = w.headPos /\ v.len = w.len
    BY DEF ConnType, Quiet
  <2>4. v.chunked = w.chunked /\ v.discon = w.discon
    BY DEF ConnType
  <2>5. u = Call(v, r)
    BY <1>2
  <2> HIDE DEF v
  <2>6. Headed(r, v)
    BY <2>3, <2>4 DEF Headed
  <2>7. QED  BY <1>2, <2>1, <2>2, <2>3, <2>5, <2>6, CallAnswers
<1>3. CASE cl.sent # Segments(r)
  <2>1. cl.sent < Segments(r)
    BY <1>1, <1>3
  <2>2. ReadingBody(cl, w)
    BY <2>1 DEF ReadingBody, NothingWaits, Quiet
  <2>3. QED  BY <1>3, <2>2 DEF Phase
<1>4. QED  BY <1>2, <1>3

(***************************************************************************)
(* Segments of a request, however many come together.                      *)
(***************************************************************************)
LEMMA SegmentsRead ==
  ASSUME NEW cl \in ClientType, NEW s \in ConnType,
         ReadingHead(cl, s) \/ ReadingBody(cl, s),
         NEW r \in Request, cl.req = r,
         NEW k \in 1..(Segments(r) - cl.sent),
         NEW d, d = [cl EXCEPT !.sent = @ + k],
         NEW u, u = Received(s, r, k)
  PROVE  d \in ClientType /\ u \in ConnType /\ Phase(d, u)
<1> DEFINE H == Len(r.head)
           B == r.body
           S == cl.sent
           ofHead == IF s.len # -1 THEN 0
                     ELSE IF k < H - s.headPos THEN k ELSE H - s.headPos
           headed == [s EXCEPT !.headPos = @ + ofHead]
           parsed == IF s.len = -1 /\ headed.headPos = H THEN ParseHead(headed, r)
                     ELSE headed
           ofBody == IF parsed.len > 0 THEN k - ofHead ELSE 0
           filled == [parsed EXCEPT !.received = @ + ofBody]
<1>1. /\ H \in Nat /\ B \in Nat /\ S \in Nat /\ H > 0
      /\ H <= MaxHead /\ B <= MaxBody /\ MaxHead \in Nat /\ MaxBody \in Nat
      /\ Segments(r) = H + B
      /\ k \in Nat /\ k > 0 /\ S + k <= H + B
  <2>1. S \in 0..(MaxHead + MaxBody)
    BY DEF ClientType
  <2>2. H \in 1..MaxHead /\ B \in 0..MaxBody /\ Segments(r) = H + B
    BY RequestShape
  <2> HIDE DEF H, B, S
  <2>3. k \in 1..(Segments(r) - S)
    BY DEF S
  <2>4. QED  BY <2>1, <2>2, <2>3, Bounds
<1>2. u = IF \/ filled.len > 0 /\ ofBody > 0 /\ filled.received = filled.len
             \/ filled.len = 0 /\ s.len = -1
          THEN Call([filled EXCEPT !.cgi = 1], r) ELSE filled
  BY DEF Received
<1>3. d \in ClientType /\ d.req = r /\ d.got = cl.got /\ d.sent = S + k
  <2>1. S + k \in 0..(MaxHead + MaxBody)
    <3> HIDE DEF H, B, S
    <3>1. QED  BY <1>1, Bounds
  <2>2. QED  BY <2>1 DEF ClientType
<1>4. s.chunked \in BOOLEAN /\ s.body \in BOOLEAN /\ s.discon \in BOOLEAN
  BY DEF ConnType
<1> HIDE DEF H, B, S, ofHead, headed, parsed, ofBody, filled
<1>5. CASE ReadingHead(cl, s)
  <2>1. /\ s.len = -1 /\ s.headPos = S /\ s.received = 0 /\ s.cgi = 0
        /\ S < H /\ cl.got = <<>> /\ Quiet(s)
    BY <1>5 DEF ReadingHead, ReadyForHead, NothingWaits, Quiet, S, H
  <2>2. s.chunked = FALSE /\ ~s.body /\ ~s.discon
    BY <1>4, <1>5 DEF ReadingHead, ReadyForHead
  <2>3. ofHead = IF k < H - S THEN k ELSE H - S
    BY <2>1 DEF ofHead
  <2>4. S + ofHead \in 0..MaxHead /\ (S + ofHead = H <=> S + k >= H)
        /\ (S + k < H => ofHead = k)
        /\ (S + k >= H => ofHead = H - S)
    BY <1>1, <2>1, <2>3
  <2>5. headed = [s EXCEPT !.headPos = S + ofHead]
    BY <2>1 DEF headed
  <2>6. headed \in ConnType /\ headed.headPos = S + ofHead
    BY <2>4, <2>5 DEF ConnType
  <2>7. headed.len = -1 /\ headed.received = 0 /\ headed.cgi = 0 /\ Quiet(headed)
    BY <2>1, <2>5 DEF ConnType, Quiet
  <2>8. headed.chunked = FALSE /\ ~headed.body /\ ~headed.discon
    BY <2>2, <2>5 DEF ConnType
  <2>9. CASE S + k < H
    <3>1. parsed = headed
      BY <1>1, <2>1, <2>4, <2>6, <2>9 DEF parsed
    <3>2. ofBody = 0
      BY <2>7, <3>1 DEF ofBody
    <3>3. filled = [headed EXCEPT !.received = 0]
      BY <2>7, <3>1, <3>2 DEF filled
    <3>4. filled = headed
      BY <2>6, <2>7, <3>3 DEF ConnType
    <3>5. u = headed
      BY <1>2, <2>7, <3>4
    <3>6. ReadingHead(d, u)
      BY <1>3, <2>1, <2>4, <2>6, <2>7, <2>8, <2>9, <3>5
         DEF ReadingHead, ReadyForHead, NothingWaits, Quiet, H
    <3>7. QED  BY <1>3, <2>6, <3>5, <3>6 DEF Phase
  <2>10. CASE S + k >= H
    <3>1. headed.headPos = H
      BY <2>4, <2>6, <2>10
    <3>2. parsed = Headers(headed, B, Kept(r))
      BY <2>1, <2>6, <2>8, <3>1, HeadParsed DEF parsed, B
    <3>3. /\ B \in -1..MaxBody /\ Kept(r) \in BOOLEAN
      BY <1>1 DEF Kept
    <3>4. parsed \in ConnType /\ parsed.len = B /\ parsed.chunked = Kept(r)
      <4> DEFINE p1 == [headed EXCEPT !.len = B]
      <4>1. p1 \in ConnType /\ p1.len = B
        BY <2>6, <3>3 DEF ConnType
      <4>2. parsed = [p1 EXCEPT !.chunked = Kept(r)]
        BY <3>2 DEF Headers
      <4> HIDE DEF p1
      <4>3. QED  BY <4>1, <4>2, <3>3 DEF ConnType
    <3>5. parsed.headPos = H /\ parsed.received = 0 /\ parsed.cgi = 0 /\ Quiet(parsed)
      BY <2>6, <2>7, <3>1, <3>2 DEF Headers, ConnType, Quiet
    <3>6. ~parsed.body /\ ~parsed.discon
      BY <2>6, <2>8, <3>2 DEF Headers, ConnType
    <3>7. ofBody = S + k - H /\ ofBody \in 0..MaxBody
      BY <1>1, <2>1, <2>4, <2>10, <3>4 DEF ofBody
    <3>8. filled = [parsed EXCEPT !.received = ofBody]
      BY <3>5, <3>7, <1>1 DEF filled
    <3>9. filled \in ConnType /\ filled.received = ofBody /\ filled.len = B
          /\ filled.headPos = H
      BY <3>4, <3>5, <3>7, <3>8 DEF ConnType
    <3>10. filled.cgi = 0 /\ Quiet(filled)
      BY <3>4, <3>5, <3>8 DEF ConnType, Quiet
    <3>11. filled.chunked = Kept(r) /\ ~filled.body /\ ~filled.discon
      BY <3>4, <3>6, <3>8 DEF ConnType
    <3>12. u = IF S + k = H + B THEN Call([filled EXCEPT !.cgi = 1], r) ELSE filled
      BY <1>1, <1>2, <2>1, <2>10, <3>7, <3>9
    <3>13. Headed(r, filled)
      BY <3>9, <3>11 DEF Headed, H, B
    <3>14. QED
      <4>1. Len(r.head) <= d.sent /\ d.sent <= Segments(r)
            /\ (d.sent = Segments(r) <=> S + k = H + B)
            /\ filled.received = d.sent - Len(r.head)
        BY <1>1, <1>3, <2>10, <3>7, <3>9 DEF H
      <4>2. u = IF d.sent = Segments(r) THEN Call([filled EXCEPT !.cgi = 1], r)
                ELSE filled
        BY <3>12, <4>1
      <4>3. QED  BY <1>3, <2>1, <3>9, <3>10, <3>11, <3>13, <4>1, <4>2, BodyTaken
  <2>11. QED  BY <2>9, <2>10, <1>1
<1>6. CASE ReadingBody(cl, s)
  <2>1. /\ s.len = B /\ s.headPos = H /\ s.received = S - H /\ s.cgi = 0
        /\ H <= S /\ S < H + B /\ cl.got = <<>> /\ Quiet(s)
    BY <1>1, <1>6 DEF ReadingBody, Headed, NothingWaits, Quiet, S, H, B
  <2>2. s.chunked = Kept(r) /\ ~s.body /\ ~s.discon
    BY <1>6 DEF ReadingBody, Headed
  <2>3. s.len # -1 /\ B > 0
    BY <1>1, <2>1
  <2>4. ofHead = 0
    BY <2>3 DEF ofHead
  <2>5. headed = s
    <3>1. s.headPos + 0 = s.headPos
      BY <1>1, <2>1
    <3>2. headed = [s EXCEPT !.headPos = s.headPos]
      BY <2>4, <3>1 DEF headed
    <3>3. QED  BY <3>2 DEF ConnType
  <2>6. parsed = s
    BY <2>3, <2>5 DEF parsed
  <2>7. ofBody = k
    BY <1>1, <2>1, <2>3, <2>4, <2>6 DEF ofBody
  <2>8. S + k - H \in 0..MaxBody /\ (S - H) + k = S + k - H
    BY <1>1, <2>1
  <2>9. filled = [s EXCEPT !.received = S + k - H]
    BY <2>1, <2>6, <2>7, <2>8 DEF filled
  <2>10. filled \in ConnType /\ filled.received = S + k - H /\ filled.len = B
         /\ filled.headPos = H
    BY <2>1, <2>8, <2>9 DEF ConnType
  <2>11. filled.cgi = 0 /\ Quiet(filled)
    BY <2>1, <2>9 DEF ConnType, Quiet
  <2>12. filled.chunked = Kept(r) /\ ~filled.body /\ ~filled.discon
    BY <2>2, <2>9 DEF ConnType
  <2>13. u = IF S + k = H + B THEN Call([filled EXCEPT !.cgi = 1], r) ELSE filled
    BY <1>1, <1>2, <2>1, <2>3, <2>7, <2>10
  <2>14. Headed(r, filled)
    BY <2>10, <2>12 DEF Headed, H, B
  <2>15. Len(r.head) <= d.sent /\ d.sent <= Segments(r)
         /\ (d.sent = Segments(r) <=> S + k = H + B)
         /\ filled.received = d.sent - Len(r.head)
    BY <1>1, <1>3, <2>1, <2>10 DEF H
  <2>16. u = IF d.sent = Segments(r) THEN Call([filled EXCEPT !.cgi = 1], r)
             ELSE filled
    BY <2>13, <2>15
  <2>17. QED  BY <1>3, <2>1, <2>10, <2>11, <2>12, <2>14, <2>15, <2>16, BodyTaken
<1>7. QED  BY <1>5, <1>6
-----------------------------------------------------------------------------
LEMMA ConcatBegins ==
  ASSUME NEW b \in Seq(Sent), NEW z \in Seq(Sent)
  PROVE  /\ b \o z \in Seq(Sent) /\ Len(b \o z) = Len(b) + Len(z)
         /\ \A i \in 1..Len(b) : (b \o z)[i] = b[i]
<1>1. Len(b) \in Nat /\ Len(z) \in Nat
  BY LenProperties
<1>2. \A i \in 1..Len(b) : i \in 1..(Len(b) + Len(z)) /\ i <= Len(b)
  BY <1>1
<1>3. /\ b \o z \in Seq(Sent) /\ Len(b \o z) = Len(b) + Len(z)
      /\ \A i \in 1..(Len(b) + Len(z)) :
            (b \o z)[i] = IF i <= Len(b) THEN b[i] ELSE z[i - Len(b)]
  BY ConcatProperties
<1>4. QED  BY <1>2, <1>3

(* What has been sent before the last call is the beginning of the answer. *)
LEMMA BegunIsPrefix ==
  ASSUME NEW r \in Request, ~Refused(r), NEW n \in 1..r.calls, n <= LastPiece(r)
  PROVE  /\ Len(Begun(r, n)) <= Len(Answer(r))
         /\ Kept(r) => Len(Begun(r, n)) < Len(Answer(r))
         /\ Begun(r, n) = SubSeq(Answer(r), 1, Len(Begun(r, n)))
         /\ Answer(r) \in Seq(Sent) /\ Len(Answer(r)) > 0
         /\ Answer(r)[1] = HeadOf(Kept(r), Code(r))
<1> DEFINE m == LastPiece(r)
           f == FirstPiece(r)
           a == Begun(r, n)
           b == Begun(r, m)
           z == EndMark(r)
<1>1. m \in 1..r.calls /\ f \in {1, 2} /\ n \in Nat /\ m \in Nat /\ n <= m /\ n >= 1
  BY PieceNumbers
<1>2. /\ a \in Seq(Sent) /\ Len(a) = n - f + 2 /\ Len(a) \in Nat \ {0}
      /\ b \in Seq(Sent) /\ Len(b) = m - f + 2 /\ Len(b) \in Nat \ {0}
      /\ b[1] = HeadOf(Kept(r), Code(r))
  BY <1>1, BegunType
<1>3. z \in Seq(Sent) /\ Len(z) \in Nat /\ (Kept(r) => Len(z) = 1)
  BY Bounds DEF EndMark
<1>4. Answer(r) = b \o z
  BY AnswerIs
<1>5. \A i \in 1..Len(a) : i \in 1..Len(b) /\ a[i] = b[i]
  <2>1. ASSUME NEW i \in 1..(n - f + 2) PROVE i \in 1..(m - f + 2) /\ a[i] = b[i]
    <3>1. i \in 1..(m - f + 2)
      BY <1>1
    <3>2. QED  BY <3>1 DEF Begun
  <2>2. QED  BY <1>2, <2>1
<1> HIDE DEF a, b, z, m, f
<1>6. /\ b \o z \in Seq(Sent) /\ Len(b \o z) = Len(b) + Len(z)
      /\ \A i \in 1..Len(b) : (b \o z)[i] = b[i]
  BY <1>2, <1>3, ConcatBegins
<1>7. Len(a) <= Len(b) /\ Len(a) <= Len(b \o z)
      /\ (Kept(r) => Len(a) < Len(b \o z)) /\ Len(b \o z) > 0
  <2>1. Len(a) <= Len(b)
    BY <1>1, <1>2
  <2>2. Len(a) <= Len(b \o z) /\ Len(b \o z) > 0
    BY <1>2, <1>3, <1>6, <2>1
  <2>3. ASSUME Kept(r) PROVE Len(a) < Len(b \o z)
    <3>1. Len(z) = 1
      BY <1>3, <2>3
    <3>2. QED  BY <1>2, <1>6, <2>1, <3>1
  <2>4. QED  BY <2>1, <2>2, <2>3
<1>8. a = SubSeq(b \o z, 1, Len(a))
  <2> DEFINE t == b \o z
  <2>1. t \in Seq(Sent) /\ Len(a) \in Nat /\ Len(a) <= Len(t)
        /\ \A i \in 1..Len(a) : t[i] = a[i] /\ a[i] \in Sent
    BY <1>2, <1>5, <1>6, <1>7, ElementOfSeq
  <2> HIDE DEF t
  <2>2. /\ SubSeq(t, 1, Len(a)) \in Seq(Sent)
        /\ Len(SubSeq(t, 1, Len(a))) = Len(a)
        /\ \A i \in 1..Len(a) : SubSeq(t, 1, Len(a))[i] = t[i]
    <3>1. \A i \in 1..Len(a) : t[i] \in Sent
      BY <2>1
    <3>2. /\ SubSeq(t, 1, Len(a)) \in Seq(Sent)
          /\ Len(SubSeq(t, 1, Len(a))) = IF 1 <= Len(a) THEN Len(a) - 1 + 1 ELSE 0
          /\ \A i \in 1..(Len(a) - 1 + 1) : SubSeq(t, 1, Len(a))[i] = t[1 + i - 1]
      BY <2>1, <3>1, SubSeqProperties
    <3>3. QED  BY <1>2, <3>2
  <2>3. QED  BY <1>2, <2>1, <2>2, SeqEqual DEF t
<1>9. (b \o z)[1] = HeadOf(Kept(r), Code(r))
  BY <1>2, <1>6
<1>10. QED  BY <1>4, <1>6, <1>7, <1>8, <1>9 DEF a

LEMMA AnswerType ==
  ASSUME NEW r \in Request
  PROVE  /\ Answer(r) \in Seq(Sent) /\ Answer(r) # <<>>
         /\ Answer(r)[1] > 0 => Kept(r) /\ ~Refused(r)
<1>1. CASE Refused(r)
  <2>1. Answer(r) = <<-501>>
    BY <1>1, AnswerIfRefused
  <2>2. QED  BY <2>1, Bounds
<1>2. CASE ~Refused(r)
  <2>1. 1 \in 1..r.calls /\ 1 <= LastPiece(r)
    BY PieceNumbers
  <2>2. Answer(r) \in Seq(Sent) /\ Len(Answer(r)) > 0
        /\ Answer(r)[1] = HeadOf(Kept(r), Code(r))
    BY <1>2, <2>1, BegunIsPrefix
  <2>3. Answer(r) # <<>>
    BY <2>2
  <2>4. QED  BY <1>2, <2>2, <2>3, PieceNumbers
<1>3. QED  BY <1>1, <1>2

LEMMA FlushedSame ==
  ASSUME NEW cl, NEW s, NEW w, w.air = s.air, w.backlog = s.backlog
  PROVE  FlushedOf(cl, w) = FlushedOf(cl, s)
<1>1. (IF w.backlog = <<>> THEN <<>> ELSE Head(w.backlog))
        = IF s.backlog = <<>> THEN <<>> ELSE Head(s.backlog)
  OBVIOUS
<1>2. cl.got \o w.air = cl.got \o s.air
  OBVIOUS
<1>3. QED  BY <1>1, <1>2 DEF FlushedOf

Taken(cl, s) == cl.got \o s.air

LEMMA FlushedMoved ==
  ASSUME NEW cl, NEW s, NEW d, NEW w,
         cl.got \in Seq(Sent), s.air \in Seq(Sent),
         d.got = Taken(cl, s), w.air = <<>>, w.backlog = s.backlog
  PROVE  FlushedOf(d, w) = FlushedOf(cl, s)
<1> DEFINE t == cl.got \o s.air
           b(x) == IF x.backlog = <<>> THEN <<>> ELSE Head(x.backlog)
<1>1. b(w) = b(s)
  OBVIOUS
<1>2. t \in Seq(Sent) /\ d.got \o w.air = t \o <<>>
  BY ConcatProperties DEF Taken
<1>3. FlushedOf(d, w) = (d.got \o w.air) \o b(w) /\ FlushedOf(cl, s) = t \o b(s)
  BY DEF FlushedOf
<1> HIDE DEF t, b
<1>4. t \o <<>> = t
  BY <1>2, ConcatEmptySeq
<1>5. QED  BY <1>1, <1>2, <1>3, <1>4

(* A phase is not about whether espconn has a packet. *)
LEMMA PhaseIfNotBusy ==
  ASSUME NEW cl \in ClientType, NEW s \in ConnType, Phase(cl, s),
         NEW w, w = [s EXCEPT !.busy = FALSE]
  PROVE  /\ w \in ConnType /\ Phase(cl, w)
         /\ SameButSent(s, w) /\ w.air = s.air /\ w.backlog = s.backlog
         /\ w.busy = FALSE
<1>1. w \in ConnType /\ w.air = s.air /\ w.backlog = s.backlog /\ w.busy = FALSE
  BY DEF ConnType
<1>2. w.headPos = s.headPos /\ w.len = s.len /\ w.received = s.received
      /\ w.cgi = s.cgi
  BY DEF ConnType
<1>3. w.chunked = s.chunked /\ w.body = s.body /\ w.discon = s.discon
  BY DEF ConnType
<1>4. FlushedOf(cl, w) = FlushedOf(cl, s) /\ (OneWaits(w) <=> OneWaits(s))
  <2>1. FlushedOf(cl, w) = FlushedOf(cl, s)
    BY <1>1, FlushedSame
  <2>2. OneWaits(w) <=> OneWaits(s)
    BY <1>1 DEF OneWaits
  <2>3. QED  BY <2>1, <2>2
<1>5. ReadyForHead(w) <=> ReadyForHead(s)
  BY <1>2, <1>3 DEF ReadyForHead
<1>6. ASSUME NEW r PROVE Headed(r, w) <=> Headed(r, s)
  BY <1>2, <1>3 DEF Headed
<1>7. NothingWaits(cl, w) <=> NothingWaits(cl, s)
  BY <1>1 DEF NothingWaits
<1>8. Phase(cl, w)
  <2>1. CASE Unasked(cl, s)
    BY <2>1, <1>1, <1>2, <1>5, <1>7 DEF Unasked, Phase
  <2>2. CASE ReadingHead(cl, s)
    BY <2>2, <1>2, <1>5, <1>7 DEF ReadingHead, Phase
  <2>3. CASE ReadingBody(cl, s)
    BY <2>3, <1>2, <1>3, <1>6, <1>7 DEF ReadingBody, Phase
  <2>4. CASE Answering(cl, s)
    BY <2>4, <1>2, <1>3, <1>4, <1>6 DEF Answering, Phase
  <2>5. CASE Done(cl, s)
    BY <2>5, <1>2, <1>3, <1>4, <1>5 DEF Done, Phase
  <2>6. QED  BY <2>1, <2>2, <2>3, <2>4, <2>5 DEF Phase
<1>9. QED  BY <1>1, <1>2, <1>3, <1>8 DEF SameButSent

(***************************************************************************)
(* httpdSentCb: what waits is sent, or the CGI function called.            *)
(***************************************************************************)
LEMMA SentContinues ==
  ASSUME NEW cl \in ClientType, NEW s \in ConnType, Phase(cl, s),
         s.busy, s.air = <<>>,
         NEW u, u = Continued([s EXCEPT !.busy = FALSE], cl.req)
  PROVE  u \in ConnType /\ Phase(cl, u)
<1> DEFINE w == [s EXCEPT !.busy = FALSE]
<1>1. /\ w \in ConnType /\ Phase(cl, w) /\ SameButSent(s, w)
      /\ w.air = s.air /\ w.backlog = s.backlog /\ w.busy = FALSE
  BY PhaseIfNotBusy
<1>2. u = IF w.backlog # <<>>
          THEN PlatSendData([w EXCEPT !.backlog = Tail(@)], Head(w.backlog))
          ELSE IF w.discon \/ w.cgi = 0 THEN w ELSE Call(w, cl.req)
  BY DEF Continued
<1> HIDE DEF w
<1>3. CASE w.backlog # <<>>
  <2>1. OneWaits(w) /\ (Answering(cl, w) \/ Done(cl, w))
    BY <1>1, <1>3 DEF Phase, Unasked, ReadingHead, ReadingBody, Answering, Done,
                      NothingWaits
  <2>2. w.backlog \in Seq(Seq(Sent)) /\ Len(w.backlog) = 1
    BY <1>1, <1>3, <2>1 DEF OneWaits, ConnType
  <2>3. Tail(w.backlog) = <<>> /\ Tail(w.backlog) \in Seq(Seq(Sent))
        /\ Head(w.backlog) \in Seq(Sent)
    <3>1. Tail(w.backlog) \in Seq(Seq(Sent)) /\ Len(Tail(w.backlog)) = 0
          /\ Head(w.backlog) \in Seq(Sent)
      BY <1>3, <2>2, HeadTailProperties
    <3>2. QED  BY <3>1, EmptySeq
  <2> DEFINE v == [w EXCEPT !.backlog = Tail(@)]
             x == [v EXCEPT !.busy = TRUE]
  <2>4. v \in ConnType /\ SameButSent(w, v) /\ v.backlog = <<>>
    BY <1>1, <2>3 DEF ConnType, SameButSent
  <2>5. u = PlatSendData(v, Head(w.backlog))
    BY <1>2, <1>3
  <2> HIDE DEF v
  <2>6. x \in ConnType /\ SameButSent(v, x) /\ x.backlog = <<>>
    BY <2>4 DEF ConnType, SameButSent
  <2>7. u = [x EXCEPT !.air = Head(w.backlog)]
    BY <2>5 DEF PlatSendData
  <2> HIDE DEF x
  <2>8. u \in ConnType /\ SameButSent(x, u) /\ u.backlog = <<>>
        /\ u.air = Head(w.backlog)
    BY <2>3, <2>6, <2>7 DEF ConnType, SameButSent
  <2>9. SameButSent(w, u) /\ OneWaits(u)
    BY <2>4, <2>6, <2>8 DEF SameButSent, OneWaits
  <2>10. FlushedOf(cl, u) = FlushedOf(cl, w)
    <3> DEFINE got == cl.got
               p == Head(w.backlog)
    <3>1. got \in Seq(Sent) /\ p \in Seq(Sent)
      BY <2>3 DEF ClientType
    <3>2. FlushedOf(cl, u) = (got \o p) \o <<>>
      BY <2>8 DEF FlushedOf
    <3>3. FlushedOf(cl, w) = (got \o <<>>) \o p
      BY <1>1, <1>3 DEF FlushedOf
    <3> HIDE DEF got, p
    <3>4. got \o p \in Seq(Sent) /\ got \o <<>> = got
      BY <3>1, ConcatProperties, ConcatEmptySeq
    <3>5. (got \o p) \o <<>> = got \o p
      BY <3>4, ConcatEmptySeq
    <3>6. QED  BY <3>2, <3>3, <3>4, <3>5
  <2>11. CASE Answering(cl, w)
    <3>1. Headed(cl.req, u)
      BY <2>9, <2>11 DEF Answering, Headed, SameButSent
    <3>2. u.body /\ u.cgi = w.cgi
      BY <2>9, <2>11 DEF Answering, SameButSent
    <3>3. Answering(cl, u)
      BY <2>9, <2>10, <2>11, <3>1, <3>2 DEF Answering
    <3>4. QED  BY <2>8, <3>3 DEF Phase
  <2>12. CASE Done(cl, w)
    <3>1. IF Kept(cl.req) THEN ReadyForHead(u) /\ u.headPos = 0 ELSE u.discon
      BY <2>9, <2>12 DEF Done, ReadyForHead, SameButSent
    <3>2. u.cgi = 0
      BY <2>9, <2>12 DEF Done, SameButSent
    <3>3. Done(cl, u)
      BY <2>9, <2>10, <2>12, <3>1, <3>2 DEF Done
    <3>4. QED  BY <2>8, <3>3 DEF Phase
  <2>13. QED  BY <2>1, <2>11, <2>12
<1>4. CASE w.backlog = <<>> /\ (w.discon \/ w.cgi = 0)
  BY <1>1, <1>2, <1>4
<1>5. CASE w.backlog = <<>> /\ ~(w.discon \/ w.cgi = 0)
  <2>1. u = Call(w, cl.req) /\ Quiet(w) /\ w.cgi # 0
    BY <1>1, <1>2, <1>5 DEF Quiet
  <2>2. Answering(cl, w)
    BY <1>1, <2>1 DEF Phase, Unasked, ReadingHead, ReadingBody, Done, ReadyForHead
  <2>3. cl.req \in Request /\ cl.sent = Segments(cl.req) /\ ~Refused(cl.req)
        /\ Headed(cl.req, w) /\ w.cgi \in 2..cl.req.calls
        /\ FlushedOf(cl, w) = Begun(cl.req, w.cgi - 1)
    BY <2>2 DEF Answering
  <2>4. cl.got = Begun(cl.req, w.cgi - 1)
    BY <1>1, <2>1, <2>3, FlushedWhenQuiet
  <2>5. w.cgi \in 1..cl.req.calls /\ w.cgi # 1
    <3>1. cl.req.calls \in Nat
      BY <2>3, RequestShape
    <3>2. QED  BY <2>3, <3>1
  <2>6. QED  BY <1>1, <2>1, <2>3, <2>4, <2>5, CallAnswers
<1>6. QED  BY <1>3, <1>4, <1>5

(***************************************************************************)
(* The client receives what is on its way.                                 *)
(***************************************************************************)
LEMMA ReceivedInOrder ==
  ASSUME NEW cl \in ClientType, NEW s \in ConnType, Phase(cl, s), s.air # <<>>,
         NEW d \in ClientType, NEW u \in ConnType, SameButSent(s, u),
         d.req = cl.req, d.sent = cl.sent, d.got = Taken(cl, s),
         u.air = <<>>, u.backlog = s.backlog
  PROVE  Phase(d, u)
<1>1. cl.got \in Seq(Sent) /\ s.air \in Seq(Sent)
  BY DEF ClientType, ConnType
<1>2. d.req = cl.req /\ d.sent = cl.sent /\ d.got = Taken(cl, s)
  OBVIOUS
<1>3. SameButSent(s, u) /\ u.air = <<>> /\ u.backlog = s.backlog
  OBVIOUS
<1>4. OneWaits(u) <=> OneWaits(s)
  BY <1>3 DEF OneWaits
<1>5. FlushedOf(d, u) = FlushedOf(cl, s)
  BY <1>1, <1>2, <1>3, FlushedMoved
<1>6. Answering(cl, s) \/ Done(cl, s)
  BY DEF Phase, Unasked, ReadingHead, ReadingBody, NothingWaits
<1>7. CASE Answering(cl, s)
  <2>1. Headed(d.req, u)
    BY <1>2, <1>3, <1>7 DEF Answering, Headed, SameButSent
  <2>2. u.body /\ u.cgi = s.cgi
    BY <1>3, <1>7 DEF Answering, SameButSent
  <2>3. Answering(d, u)
    BY <1>2, <1>4, <1>5, <1>7, <2>1, <2>2 DEF Answering
  <2>4. QED  BY <1>2, <1>3, <2>3 DEF Phase
<1>8. CASE Done(cl, s)
  <2>1. IF Kept(d.req) THEN ReadyForHead(u) /\ u.headPos = 0 ELSE u.discon
    BY <1>2, <1>3, <1>8 DEF Done, ReadyForHead, SameButSent
  <2>2. u.cgi = 0
    BY <1>3, <1>8 DEF Done, SameButSent
  <2>3. Done(d, u)
    BY <1>2, <1>4, <1>5, <1>8, <2>1, <2>2 DEF Done
  <2>4. QED  BY <1>2, <1>3, <2>3 DEF Phase
<1>9. QED  BY <1>6, <1>7, <1>8

LEMMA NoneIsNoRequest == None \notin Request
<1> SUFFICES ASSUME None \in Request PROVE FALSE
  OBVIOUS
<1>1. None.calls \in 1..MaxCalls
  BY RequestShape
<1>2. None.calls = 0
  BY DEF None
<1>3. QED  BY <1>1, <1>2, Bounds

LEMMA NewRequest ==
  ASSUME NEW r \in Request \cup {None}
  PROVE  [req |-> r, sent |-> 0, got |-> <<>>] \in ClientType
<1>1. 0 \in 0..(MaxHead + MaxBody)
  BY Bounds
<1>2. QED  BY <1>1 DEF ClientType

(***************************************************************************)
(* The client asks again when it has the whole answer, and then nothing of *)
(* it is left on the connection.                                           *)
(***************************************************************************)
LEMMA AskedAgain ==
  ASSUME NEW cl \in ClientType, NEW s \in ConnType, Phase(cl, s),
         cl.req = None \/ (cl.got = Answer(cl.req) /\ cl.got[1] > 0),
         NEW r \in Request,
         NEW d, d = [Idle EXCEPT !.req = r]
  PROVE  d \in ClientType /\ Phase(d, s)
<1>1. d.req = r /\ d.sent = 0 /\ d.got = <<>>
  BY DEF Idle
<1>2. d \in ClientType
  <2>1. d = [req |-> r, sent |-> 0, got |-> <<>>]
    BY DEF Idle
  <2>2. QED  BY <2>1, NewRequest
<1>3. None \notin Request
  BY NoneIsNoRequest
<1>4. SUFFICES ReadyForHead(s) /\ s.headPos = 0 /\ s.backlog = <<>> /\ s.air = <<>>
  <2>1. 0 < Len(d.req.head)
    BY <1>1, RequestShape
  <2>2. ReadingHead(d, s)
    BY <1>1, <1>4, <2>1 DEF ReadingHead, NothingWaits
  <2>3. QED  BY <1>2, <2>2 DEF Phase
<1>5. CASE Unasked(cl, s)
  BY <1>5 DEF Unasked, NothingWaits
<1>6. CASE ReadingHead(cl, s) \/ ReadingBody(cl, s)
  <2>1. cl.req \in Request /\ cl.got = <<>>
    BY <1>6 DEF ReadingHead, ReadingBody, NothingWaits
  <2>2. QED  BY <1>3, <2>1, AnswerType
<1>7. CASE Answering(cl, s) \/ Done(cl, s)
  <2> DEFINE q == cl.req
             air == s.air
             w == IF s.backlog = <<>> THEN <<>> ELSE Head(s.backlog)
             a == Answer(q)
  <2>1. q \in Request /\ cl.got = a /\ a[1] > 0
    BY <1>3, <1>7 DEF Answering, Done
  <2>2. Kept(q) /\ ~Refused(q) /\ a \in Seq(Sent) /\ Len(a) \in Nat
    BY <2>1, AnswerType, LenProperties
  <2>3. OneWaits(s)
    BY <1>7 DEF Answering, Done
  <2>4. air \in Seq(Sent) /\ Len(air) \in Nat
    BY LenProperties DEF ConnType
  <2>5. w \in Seq(Sent) /\ Len(w) \in Nat /\ (w = <<>> => s.backlog = <<>>)
    <3>1. s.backlog \in Seq(Seq(Sent))
      BY DEF ConnType
    <3>2. CASE s.backlog = <<>>
      BY <3>2
    <3>3. CASE s.backlog # <<>>
      <4>1. Head(s.backlog) \in Seq(Sent) /\ Head(s.backlog) # <<>>
        BY <2>3, <3>1, <3>3, HeadTailProperties DEF OneWaits
      <4>2. QED  BY <3>3, <4>1, LenProperties
    <3>4. QED  BY <3>2, <3>3
  <2>6. FlushedOf(cl, s) = (a \o air) \o w
    BY <2>1 DEF FlushedOf
  <2>7. a \o air \in Seq(Sent) /\ Len((a \o air) \o w) = Len(a) + Len(air) + Len(w)
    <3> HIDE DEF a, air, w
    <3>1. a \o air \in Seq(Sent) /\ Len(a \o air) = Len(a) + Len(air)
      BY <2>2, <2>4, ConcatProperties
    <3>2. Len((a \o air) \o w) = Len(a \o air) + Len(w)
      BY <2>5, <3>1, ConcatProperties
    <3>3. QED  BY <3>1, <3>2
  <2>8. CASE Answering(cl, s)
    <3> DEFINE n == s.cgi - 1
    <3>1. s.cgi \in 2..q.calls /\ FlushedOf(cl, s) = Begun(q, n)
      BY <2>8 DEF Answering
    <3>2. n \in 1..q.calls /\ n <= LastPiece(q)
      <4>1. q.calls \in Nat /\ q.empty \in BOOLEAN
        BY <2>1, RequestShape
      <4>2. QED  BY <3>1, <4>1 DEF LastPiece
    <3> HIDE DEF n
    <3>3. Len(Begun(q, n)) < Len(a)
      BY <2>1, <2>2, <3>2, BegunIsPrefix
    <3>4. Len(FlushedOf(cl, s)) < Len(a)
      BY <3>1, <3>3
    <3> HIDE DEF q, a, air, w
    <3>5. QED  BY <2>2, <2>4, <2>5, <2>6, <2>7, <3>4
  <2>9. CASE Done(cl, s)
    <3>1. ReadyForHead(s) /\ s.headPos = 0 /\ FlushedOf(cl, s) = a
      BY <2>2, <2>9 DEF Done
    <3>2. Len(air) = 0 /\ Len(w) = 0
      <4> HIDE DEF q, a, air, w
      <4>1. QED  BY <2>2, <2>4, <2>5, <2>6, <2>7, <3>1
    <3>3. air = <<>> /\ w = <<>>
      <4> HIDE DEF q, a, air, w
      <4>1. QED  BY <2>4, <2>5, <3>2, EmptySeq
    <3>4. QED  BY <2>5, <3>1, <3>3
  <2>10. QED  BY <1>7, <2>8, <2>9
<1>8. QED  BY <1>5, <1>6, <1>7 DEF Phase
-----------------------------------------------------------------------------
(***************************************************************************)
(* A step of a connection leaves the others alone.                         *)
(***************************************************************************)
SameSlots(e) == FindConnData(e)' = FindConnData(e)
Alone(e) ==
  /\ SameSlots(e) /\ sock'[e] = sock[e] /\ file'[e] = file[e]
  /\ client'[e] = client[e] /\ conn'[e] = conn[e]

LEMMA OneMoves ==
  ASSUME NEW c \in Client, IInv, Types',
         \A e \in Client \ {c} : Alone(e),
         Held(c)', Phase(client'[c], conn'[c])
  PROVE  IInv'
<1>1. ASSUME NEW e \in Client, e # c
      PROVE  Held(e)' /\ Phase(client'[e], conn'[e])
  <2>1. Held(e) /\ Phase(client[e], conn[e]) /\ Alone(e)
    BY <1>1 DEF IInv
  <2>2. Held(e)'
    <3>1. FindConnData(e)' = FindConnData(e) /\ sock'[e] = sock[e]
          /\ client'[e] = client[e] /\ conn'[e] = conn[e]
      BY <2>1 DEF Alone, SameSlots
    <3>2. file'[e] = file[e]
      BY <2>1 DEF Alone
    <3>3. CASE sock[e] = "none"
      BY <2>1, <3>1, <3>2, <3>3, Zenon DEF Held
    <3>4. CASE sock[e] # "none"
      <4>1. (\E i \in Slots : FindConnData(e) = {i})'
        BY <2>1, <3>1, <3>4, Zenon DEF Held, Slots
      <4>2. file[e] => conn[e].cgi > 0
        BY <2>1, <3>4, Zenon DEF Held
      <4>3. QED  BY <3>1, <3>2, <3>4, <4>1, <4>2 DEF Held
    <3>5. QED  BY <3>3, <3>4
  <2>3. QED  BY <2>1, <2>2 DEF Alone
<1>2. QED  BY <1>1 DEF IInv

LEMMA InitIsSafe == Init => IInv
<1> SUFFICES ASSUME Init PROVE IInv
  OBVIOUS
<1>1. Fresh \in ConnType
  BY Bounds DEF Fresh, ConnType
<1>2. Idle \in ClientType
  BY NewRequest DEF Idle
<1>3. Types
  BY <1>1, <1>2 DEF Init, PlatInit, Types
<1>4. ASSUME NEW c \in Client PROVE Held(c)
  <2>1. FindConnData(c) = {}
    BY HttpdAssumption DEF Init, FindConnData
  <2>2. QED  BY <2>1 DEF Init, PlatInit, Held
<1>5. Unasked(Idle, Fresh)
  BY DEF Unasked, Idle, Fresh, ReadyForHead, NothingWaits
<1>6. QED  BY <1>3, <1>4, <1>5 DEF IInv, Phase, Init

(* The parts of an action that a connection's record and client change by. *)
LEMMA TypesOf ==
  ASSUME Types, NEW c \in Client
  PROVE  /\ sock[c] \in {"none", "open", "closing"} /\ file[c] \in BOOLEAN
         /\ conn[c] \in ConnType /\ client[c] \in ClientType
  BY DEF Types

(***************************************************************************)
(* The actions.                                                            *)
(***************************************************************************)
LEMMA PlatConnCbStep ==
  ASSUME NEW c \in Client, IInv, PlatConnCb(c)
  PROVE  IInv'
<1>1. PICK i \in Slots : connData[i] = "nobody" /\ connData' = [connData EXCEPT ![i] = c]
  BY DEF PlatConnCb, ConnectCb, FindConnData
<1>2. /\ sock[c] = "none" /\ sock' = [sock EXCEPT ![c] = "open"]
      /\ conn' = [conn EXCEPT ![c] = Fresh] /\ file' = file /\ client' = client
  BY DEF PlatConnCb, ConnectCb
<1>3. FindConnData(c) = {} /\ client[c] = Idle /\ conn[c] = Fresh /\ ~file[c]
  BY <1>2 DEF IInv, Held
<1>4. Types'
  <2>1. Fresh \in ConnType
    BY <1>3, TypesOf DEF IInv
  <2>2. QED  BY <1>1, <1>2, <2>1 DEF IInv, Types
<1>5. ASSUME NEW e \in Client, NEW j \in Slots
      PROVE  connData'[j] = e <=> (connData[j] = e \/ (j = i /\ e = c))
  BY <1>1, HttpdAssumption DEF IInv, Types
<1>6. \A e \in Client \ {c} : Alone(e)
  <2> SUFFICES ASSUME NEW e \in Client \ {c} PROVE Alone(e)
    OBVIOUS
  <2>1. SameSlots(e)
    BY <1>5 DEF SameSlots, FindConnData, Slots
  <2>2. QED  BY <1>2, <2>1 DEF Alone, IInv, Types
<1>7. Held(c)'
  <2>1. FindConnData(c)' = {i}
    BY <1>3, <1>5 DEF FindConnData, Slots
  <2>2. sock'[c] = "open" /\ ~file'[c]
    BY <1>2, <1>3 DEF IInv, Types
  <2>3. QED  BY <1>1, <2>1, <2>2 DEF Held, Slots
<1>8. client'[c] = client[c] /\ conn'[c] = conn[c]
  BY <1>2, <1>3 DEF IInv, Types
<1>9. QED  BY <1>4, <1>6, <1>7, <1>8, OneMoves DEF IInv

(* An action that leaves the slots alone. *)
LEMMA SlotsStay ==
  ASSUME NEW c \in Client, IInv, UNCHANGED connData,
         sock[c] # "none", sock'[c] # "none", file'[c] => conn'[c].cgi > 0
  PROVE  /\ \A e \in Client : SameSlots(e)
         /\ Held(c)'
<1>1. \A e \in Client : SameSlots(e)
  BY DEF SameSlots, FindConnData, Slots
<1>2. (\E i \in Slots : FindConnData(c) = {i})'
  BY <1>1 DEF IInv, Held, SameSlots, Slots
<1>3. Held(c)'
  BY <1>2 DEF Held
<1>4. QED  BY <1>1, <1>3

LEMMA FileIsOpen ==
  ASSUME NEW s \in ConnType, NEW r
  PROVE  FileOpen(s, r) \in BOOLEAN /\ (FileOpen(s, r) => s.cgi > 0)
  BY DEF FileOpen

LEMMA RecvStep ==
  ASSUME NEW c \in Client, IInv, Recv(c)
  PROVE  IInv'
<1> DEFINE cl == client[c]
           r == client[c].req
<1>1. /\ sock[c] = "open" /\ Asked(c) /\ ~AllSent(c)
      /\ UNCHANGED sock /\ UNCHANGED connData
  BY DEF Recv
<1>2. PICK k \in 1..(Segments(r) - cl.sent) :
        /\ client' = [client EXCEPT ![c] = [cl EXCEPT !.sent = @ + k]]
        /\ conn' = [conn EXCEPT ![c] = Received(conn[c], r, k)]
  BY DEF Recv
<1>3. file' = [file EXCEPT ![c] = FileOpen(conn'[c], r)]
  BY DEF Recv
<1>4. Types /\ Phase(cl, conn[c]) /\ cl \in ClientType /\ conn[c] \in ConnType
  BY TypesOf DEF IInv
<1>5. r \in Request /\ cl.sent # Segments(r)
  <2>1. r # None /\ cl.sent # Segments(r)
    BY <1>1 DEF Asked, AllSent
  <2>2. r \in Request \cup {None}
    BY <1>4 DEF ClientType
  <2>3. QED  BY <2>1, <2>2
<1> DEFINE d == [cl EXCEPT !.sent = @ + k]
           u == Received(conn[c], r, k)
<1>6. d \in ClientType /\ u \in ConnType /\ Phase(d, u)
  <2>1. ReadingHead(cl, conn[c]) \/ ReadingBody(cl, conn[c])
    <3>1. cl # Idle
      BY <1>5, NoneIsNoRequest DEF Idle
    <3>2. QED  BY <1>4, <1>5, <3>1 DEF Phase, Unasked, Answering, Done
  <2> HIDE DEF cl, r
  <2>2. r = cl.req
    BY DEF cl, r
  <2>3. QED  BY <1>2, <1>4, <1>5, <2>1, <2>2, SegmentsRead
<1>7. client'[c] = d /\ conn'[c] = u
  BY <1>2, <1>4 DEF Types
<1>8. FileOpen(u, r) \in BOOLEAN /\ (FileOpen(u, r) => u.cgi > 0)
  BY <1>6, FileIsOpen
<1> HIDE DEF d, u, cl, r
<1>9. Types'
  BY <1>1, <1>2, <1>3, <1>4, <1>6, <1>7, <1>8 DEF Types, Slots, d, u
<1>10. file'[c] => conn'[c].cgi > 0
  BY <1>3, <1>4, <1>7, <1>8 DEF Types
<1>11. (\A e \in Client : SameSlots(e)) /\ Held(c)'
  BY <1>1, <1>10, SlotsStay
<1>12. \A e \in Client \ {c} : Alone(e)
  BY <1>1, <1>2, <1>3, <1>4, <1>11 DEF Alone, Types
<1>13. QED  BY <1>6, <1>7, <1>9, <1>11, <1>12, OneMoves

LEMMA SentCbStep ==
  ASSUME NEW c \in Client, IInv, SentCb(c)
  PROVE  IInv'
<1> DEFINE cl == client[c]
           s == conn[c]
           u == Continued([s EXCEPT !.busy = FALSE], cl.req)
<1>1. /\ sock[c] = "open" /\ s.busy /\ s.air = <<>>
      /\ conn' = [conn EXCEPT ![c] = u]
      /\ file' = [file EXCEPT ![c] = FileOpen(conn'[c], cl.req)]
      /\ UNCHANGED connData /\ UNCHANGED client
  BY DEF SentCb
<1>2. sock' = [sock EXCEPT ![c] = "closing"] \/ sock' = sock
  BY DEF SentCb, PlatDisconnect
<1>3. Types /\ Phase(cl, s) /\ cl \in ClientType /\ s \in ConnType
  BY TypesOf DEF IInv
<1>4. u \in ConnType /\ Phase(cl, u)
  BY <1>1, <1>3, SentContinues
<1> HIDE DEF u
<1>5. conn'[c] = u /\ client'[c] = cl
  BY <1>1, <1>3 DEF Types
<1>6. FileOpen(u, cl.req) \in BOOLEAN /\ (FileOpen(u, cl.req) => u.cgi > 0)
  BY <1>4, FileIsOpen
<1> HIDE DEF cl, s
<1>7. Types'
  BY <1>1, <1>2, <1>3, <1>4, <1>5, <1>6 DEF Types, Slots
<1>8. (file'[c] => conn'[c].cgi > 0) /\ sock'[c] # "none"
  BY <1>1, <1>2, <1>3, <1>5, <1>6 DEF Types
<1>9. (\A e \in Client : SameSlots(e)) /\ Held(c)'
  BY <1>1, <1>8, SlotsStay
<1>10. \A e \in Client \ {c} : Alone(e)
  BY <1>1, <1>2, <1>3, <1>9 DEF Alone, Types
<1>11. QED  BY <1>4, <1>5, <1>7, <1>9, <1>10, OneMoves

LEMMA PlatDisconCbStep ==
  ASSUME NEW c \in Client, IInv, PlatDisconCb(c)
  PROVE  IInv'
<1>1. /\ sock[c] = "closing" /\ sock' = [sock EXCEPT ![c] = "none"]
      /\ connData' = [i \in Slots |-> IF connData[i] = c THEN "nobody" ELSE connData[i]]
      /\ file' = [file EXCEPT ![c] = FileLeft(conn[c], file[c])]
      /\ conn' = [conn EXCEPT ![c] = Fresh]
      /\ client' = [client EXCEPT ![c] = Idle]
  BY DEF PlatDisconCb, DisconCb, RetireConn
<1>2. Types /\ (file[c] => conn[c].cgi > 0)
  BY <1>1 DEF IInv, Held
<1>3. FileLeft(conn[c], file[c]) = FALSE
  BY <1>2, TypesOf DEF FileLeft
<1>4. Fresh \in ConnType /\ Idle \in ClientType /\ Phase(Idle, Fresh)
  <2>1. Fresh \in ConnType
    BY Bounds DEF Fresh, ConnType
  <2>2. Idle \in ClientType
    BY NewRequest DEF Idle
  <2>3. Unasked(Idle, Fresh)
    BY DEF Unasked, Idle, Fresh, ReadyForHead, NothingWaits
  <2>4. QED  BY <2>1, <2>2, <2>3 DEF Phase
<1>5. ASSUME NEW e \in Client, NEW j \in Slots
      PROVE  connData'[j] = e <=> (connData[j] = e /\ e # c)
  BY <1>1, HttpdAssumption
<1>6. Types'
  BY <1>1, <1>2, <1>3, <1>4 DEF Types, Slots
<1>7. \A e \in Client \ {c} : Alone(e)
  <2> SUFFICES ASSUME NEW e \in Client \ {c} PROVE Alone(e)
    OBVIOUS
  <2>1. SameSlots(e)
    BY <1>5 DEF SameSlots, FindConnData, Slots
  <2>2. QED  BY <1>1, <1>2, <2>1 DEF Alone, Types
<1>8. client'[c] = Idle /\ conn'[c] = Fresh
  BY <1>1, <1>2 DEF Types
<1>9. Held(c)'
  <2>1. FindConnData(c)' = {}
    BY <1>5 DEF FindConnData, Slots
  <2>2. sock'[c] = "none" /\ ~file'[c]
    BY <1>1, <1>2, <1>3 DEF Types
  <2>3. QED  BY <1>8, <2>1, <2>2 DEF Held
<1>10. QED  BY <1>4, <1>6, <1>7, <1>8, <1>9, OneMoves

LEMMA AskStep ==
  ASSUME NEW c \in Client, IInv, Ask(c)
  PROVE  IInv'
<1>1. sock[c] = "open" /\ UNCHANGED sock /\ UNCHANGED connData
      /\ UNCHANGED conn /\ UNCHANGED file
  BY DEF Ask
<1>2. PICK r \in Request : client' = [client EXCEPT ![c] = [Idle EXCEPT !.req = r]]
  BY DEF Ask
<1> DEFINE d == [Idle EXCEPT !.req = r]
<1>3. /\ Types /\ Phase(client[c], conn[c]) /\ client[c] \in ClientType
      /\ conn[c] \in ConnType /\ Held(c)
  BY TypesOf DEF IInv
<1>4. client[c].req = None
        \/ (client[c].got = Answer(client[c].req) /\ client[c].got[1] > 0)
  BY DEF Ask, Asked, Complete
<1>5. d \in ClientType /\ Phase(d, conn[c])
  BY <1>2, <1>3, <1>4, AskedAgain
<1> HIDE DEF d
<1>6. client' = [client EXCEPT ![c] = d] /\ client'[c] = d /\ conn'[c] = conn[c]
  BY <1>1, <1>2, <1>3 DEF d, Types
<1>7. Types'
  BY <1>1, <1>3, <1>5, <1>6 DEF Types, Slots
<1>8. (file'[c] => conn'[c].cgi > 0) /\ sock'[c] # "none"
  BY <1>1, <1>3 DEF Held
<1>9. (\A e \in Client : SameSlots(e)) /\ Held(c)'
  BY <1>1, <1>8, SlotsStay
<1>10. \A e \in Client \ {c} : Alone(e)
  BY <1>1, <1>3, <1>6, <1>9 DEF Alone, Types
<1>11. QED  BY <1>5, <1>6, <1>7, <1>9, <1>10, OneMoves

LEMMA AirTaken ==
  ASSUME NEW s \in ConnType, NEW u, u = [s EXCEPT !.air = <<>>]
  PROVE  /\ u \in ConnType /\ SameButSent(s, u) /\ u.air = <<>>
         /\ u.backlog = s.backlog /\ u.cgi = s.cgi
<1>1. <<>> \in Seq(Sent)
  OBVIOUS
<1>2. u \in ConnType
  BY <1>1 DEF ConnType
<1>3. SameButSent(s, u) /\ u.cgi = s.cgi
  BY DEF ConnType, SameButSent
<1>4. u.air = <<>> /\ u.backlog = s.backlog
  BY DEF ConnType
<1>5. QED  BY <1>2, <1>3, <1>4

LEMMA ReceiveStep ==
  ASSUME NEW c \in Client, IInv, Receive(c)
  PROVE  IInv'
<1> DEFINE cl == client[c]
           s == conn[c]
           t == Taken(cl, s)
           d == [cl EXCEPT !.got = t]
           u == [s EXCEPT !.air = <<>>]
<1>1. /\ sock[c] = "open" /\ s.air # <<>>
      /\ UNCHANGED sock /\ UNCHANGED connData /\ UNCHANGED file
  BY DEF Receive
<1>2. client' = [client EXCEPT ![c] = d] /\ conn' = [conn EXCEPT ![c] = u]
  BY DEF Receive, Taken
<1>3. /\ Types /\ Phase(cl, s) /\ cl \in ClientType
      /\ s \in ConnType /\ Held(c)
  BY TypesOf DEF IInv
<1>4. t \in Seq(Sent)
  <2>1. cl.got \in Seq(Sent) /\ s.air \in Seq(Sent)
    BY <1>3 DEF ClientType, ConnType
  <2>2. QED  BY <2>1, ConcatProperties DEF Taken
<1> HIDE DEF cl, s, t
<1>5. d \in ClientType /\ d.req = cl.req /\ d.sent = cl.sent /\ d.got = t
  BY <1>3, <1>4 DEF ClientType
<1>6. u \in ConnType /\ SameButSent(s, u) /\ u.air = <<>>
      /\ u.backlog = s.backlog /\ u.cgi = s.cgi
  BY <1>3, AirTaken
<1> HIDE DEF d, u
<1>7. Phase(d, u)
  BY <1>1, <1>3, <1>5, <1>6, ReceivedInOrder DEF t
<1>8. client'[c] = d /\ conn'[c] = u
  BY <1>2, <1>3 DEF Types
<1>9. Types'
  BY <1>1, <1>2, <1>3, <1>5, <1>6 DEF Types, Slots
<1>10. (file'[c] => conn'[c].cgi > 0) /\ sock'[c] # "none"
  BY <1>1, <1>3, <1>6, <1>8 DEF Held, s
<1>11. (\A e \in Client : SameSlots(e)) /\ Held(c)'
  BY <1>1, <1>10, SlotsStay
<1>12. \A e \in Client \ {c} : Alone(e)
  BY <1>1, <1>2, <1>3, <1>11 DEF Alone, Types
<1>13. QED  BY <1>7, <1>8, <1>9, <1>11, <1>12, OneMoves

LEMMA LeaveStep ==
  ASSUME NEW c \in Client, IInv, Leave(c)
  PROVE  IInv'
<1>1. /\ sock[c] = "open" /\ sock' = [sock EXCEPT ![c] = "closing"]
      /\ UNCHANGED connData /\ UNCHANGED conn /\ UNCHANGED file /\ UNCHANGED client
  BY DEF Leave
<1>2. Types /\ Phase(client[c], conn[c]) /\ Held(c)
  BY DEF IInv
<1>3. Types'
  BY <1>1, <1>2 DEF Types, Slots
<1>4. (file'[c] => conn'[c].cgi > 0) /\ sock'[c] # "none"
  BY <1>1, <1>2 DEF Held, Types
<1>5. (\A e \in Client : SameSlots(e)) /\ Held(c)'
  BY <1>1, <1>4, SlotsStay
<1>6. \A e \in Client \ {c} : Alone(e)
  BY <1>1, <1>2, <1>5 DEF Alone, Types
<1>7. QED  BY <1>1, <1>2, <1>3, <1>5, <1>6, OneMoves

LEMMA NextIsSafe == IInv /\ [Next]_vars => IInv'
<1> SUFFICES ASSUME IInv, [Next]_vars PROVE IInv'
  OBVIOUS
<1>1. CASE UNCHANGED vars
  BY <1>1 DEF vars, IInv, Types, Held, FindConnData, Slots
<1>2. ASSUME NEW c \in Client, PlatConnCb(c) PROVE IInv'
  BY <1>2, PlatConnCbStep
<1>3. ASSUME NEW c \in Client, Recv(c) PROVE IInv'
  BY <1>3, RecvStep
<1>4. ASSUME NEW c \in Client, SentCb(c) PROVE IInv'
  BY <1>4, SentCbStep
<1>5. ASSUME NEW c \in Client, PlatDisconCb(c) PROVE IInv'
  BY <1>5, PlatDisconCbStep
<1>6. ASSUME NEW c \in Client, Ask(c) PROVE IInv'
  BY <1>6, AskStep
<1>7. ASSUME NEW c \in Client, Receive(c) PROVE IInv'
  BY <1>7, ReceiveStep
<1>8. ASSUME NEW c \in Client, Leave(c) PROVE IInv'
  BY <1>8, LeaveStep
<1>9. QED  BY <1>1, <1>2, <1>3, <1>4, <1>5, <1>6, <1>7, <1>8 DEF Next

LEMMA Safe == Spec => []IInv
  BY InitIsSafe, NextIsSafe, PTL DEF Spec

-----------------------------------------------------------------------------
(* THEOREM: the records of the connections, the pool and the clients keep  *)
(* their types, so that a position in a request's head or body, the number *)
(* of a call and what is sent stay in their bounds.                        *)
THEOREM TypeCorrect == Spec => []TypeOK
<1>1. IInv => TypeOK
  <2> SUFFICES ASSUME IInv PROVE TypeOK
    OBVIOUS
  <2>1. Types
    BY DEF IInv
  <2>2. ASSUME NEW c \in Client
        PROVE  /\ client[c].req \in Request \cup {None}
               /\ client[c].sent \in 0..(MaxHead + MaxBody)
               /\ client[c].got \in Seq(Sent)
               /\ conn[c].headPos \in 0..MaxHead /\ conn[c].len \in -1..MaxBody
               /\ conn[c].received \in 0..MaxBody /\ conn[c].cgi \in 0..MaxCalls
               /\ {conn[c].chunked, conn[c].body, conn[c].discon, conn[c].busy}
                     \subseteq BOOLEAN
               /\ conn[c].air \in Seq(Sent) /\ conn[c].backlog \in Seq(Seq(Sent))
    BY <2>1, TypesOf DEF ConnType, ClientType
  <2>3. QED  BY <2>1, <2>2 DEF Types, TypeOK
<1>2. QED  BY <1>1, Safe, PTL

(* THEOREM: no file stays open without a call of its CGI function to come, *)
(* and a connection has one slot of the pool for as long as it lasts, in   *)
(* whatever order espconn's callbacks come and clients leave.              *)
THEOREM FilesAreClosed == Spec => []FilesClosed
<1>1. IInv => FilesClosed
  <2> SUFFICES ASSUME IInv, NEW c \in Client
               PROVE  /\ file[c] => sock[c] # "none" /\ conn[c].cgi > 0
                      /\ Cardinality(FindConnData(c))
                            = IF sock[c] = "none" THEN 0 ELSE 1
    BY DEF FilesClosed
  <2>1. CASE sock[c] = "none"
    BY <2>1, FS_EmptySet DEF IInv, Held
  <2>2. CASE sock[c] # "none"
    BY <2>2, FS_Singleton DEF IInv, Held
  <2>3. QED  BY <2>1, <2>2
<1>2. QED  BY <1>1, Safe, PTL

(* A client that is still asking has been sent nothing. *)
LEMMA NothingFlushed ==
  ASSUME NEW cl, NEW s, NothingWaits(cl, s)
  PROVE  FlushedOf(cl, s) = <<>> /\ s.backlog = <<>>
  BY DEF FlushedOf, NothingWaits

LEMMA InOrder ==
  ASSUME NEW cl \in ClientType, NEW s \in ConnType, Phase(cl, s),
         NEW r \in Request, cl.req = r
  PROVE  /\ Len(s.backlog) <= 1
         /\ Len(FlushedOf(cl, s)) <= Len(Answer(r))
         /\ FlushedOf(cl, s) = SubSeq(Answer(r), 1, Len(FlushedOf(cl, s)))
         /\ cl.sent = Segments(r) /\ s.cgi = 0 => FlushedOf(cl, s) = Answer(r)
<1> DEFINE a == Answer(r)
           f == FlushedOf(cl, s)
<1>1. a \in Seq(Sent) /\ Len(a) \in Nat
  BY AnswerType, LenProperties
<1>2. cl # Idle
  BY NoneIsNoRequest DEF Idle
<1>3. CASE ReadingHead(cl, s) \/ ReadingBody(cl, s)
  <2>1. f = <<>> /\ s.backlog = <<>>
    BY <1>3, NothingFlushed DEF ReadingHead, ReadingBody
  <2>2. cl.sent # Segments(r)
    <3>1. Len(r.head) \in Nat /\ r.body \in Nat /\ Segments(r) = Len(r.head) + r.body
          /\ Segments(r) \in Nat
      BY RequestShape
    <3>2. CASE ReadingHead(cl, s)
      <4>1. cl.sent < Len(r.head) /\ cl.sent \in Nat
        BY <3>2, Bounds DEF ReadingHead, ClientType
      <4>2. QED  BY <3>1, <4>1
    <3>3. CASE ReadingBody(cl, s)
      <4>1. cl.sent < Segments(r) /\ cl.sent \in Nat
        BY <3>3, Bounds DEF ReadingBody, ClientType
      <4>2. QED  BY <3>1, <4>1
    <3>4. QED  BY <1>3, <3>2, <3>3
  <2> HIDE DEF a, f
  <2>3. Len(f) = 0
    BY <2>1
  <2>4. SubSeq(a, 1, 0) = <<>>
    BY <1>1
  <2>5. QED  BY <1>1, <2>1, <2>2, <2>3, <2>4 DEF a, f
<1>4. CASE Answering(cl, s) \/ Done(cl, s)
  <2>1. Len(s.backlog) <= 1
    <3>1. OneWaits(s)
      BY <1>4 DEF Answering, Done
    <3>2. CASE s.backlog = <<>>
      <4>1. Len(s.backlog) = 0
        BY <3>2
      <4>2. QED  BY <4>1
    <3>3. CASE Len(s.backlog) = 1
      BY <3>3
    <3>4. QED  BY <3>1, <3>2, <3>3 DEF OneWaits
  <2>2. CASE Answering(cl, s)
    <3> DEFINE n == s.cgi - 1
    <3>1. ~Refused(r) /\ s.cgi \in 2..r.calls /\ f = Begun(r, n)
      BY <2>2 DEF Answering
    <3>2. n \in 1..r.calls /\ n <= LastPiece(r) /\ s.cgi # 0
      <4>1. r.calls \in Nat /\ r.empty \in BOOLEAN
        BY RequestShape
      <4>2. QED  BY <3>1, <4>1 DEF LastPiece
    <3> HIDE DEF n, a, f
    <3>3. Len(Begun(r, n)) <= Len(a) /\ Begun(r, n) = SubSeq(a, 1, Len(Begun(r, n)))
      BY <3>1, <3>2, BegunIsPrefix DEF a
    <3>4. Len(f) <= Len(a) /\ f = SubSeq(a, 1, Len(f))
      BY <3>1, <3>3
    <3>5. QED  BY <2>1, <3>2, <3>4 DEF a, f
  <2>3. CASE Done(cl, s)
    <3>1. f = a
      BY <2>3 DEF Done
    <3> HIDE DEF a, f
    <3>2. a = SubSeq(a, 1, Len(a)) /\ Len(a) <= Len(a)
      BY <1>1, SubSeqFull
    <3>3. Len(f) <= Len(a) /\ f = SubSeq(a, 1, Len(f))
      BY <3>1, <3>2
    <3>4. QED  BY <2>1, <3>1, <3>3 DEF a, f
  <2>4. QED  BY <1>4, <2>2, <2>3
<1>5. QED  BY <1>2, <1>3, <1>4 DEF Phase, Unasked

(* THEOREM: what a client gets, what is on its way and what waits are the  *)
(* beginning of the answer to its request, and all of it once the CGI      *)
(* function is done, and never more than one packet waits: segments and    *)
(* espconn's callbacks may come in any order, and a connection that is kept*)
(* starts anew with every request.                                         *)
THEOREM AnswersStayInOrder == Spec => []AnswersInOrder
<1>1. IInv => AnswersInOrder
  <2> SUFFICES ASSUME IInv, NEW c \in Client, sock[c] = "open", Asked(c)
      PROVE  /\ Len(conn[c].backlog) <= 1
             /\ Len(Flushed(c)) <= Len(Answer(client[c].req))
             /\ Flushed(c) = SubSeq(Answer(client[c].req), 1, Len(Flushed(c)))
             /\ AllSent(c) /\ conn[c].cgi = 0 => Flushed(c) = Answer(client[c].req)
    BY DEF AnswersInOrder
  <2>1. client[c] \in ClientType /\ conn[c] \in ConnType /\ Phase(client[c], conn[c])
    BY TypesOf DEF IInv
  <2>2. client[c].req \in Request
    BY <2>1 DEF ClientType, Asked
  <2>3. Flushed(c) = FlushedOf(client[c], conn[c])
    BY DEF Flushed, FlushedOf
  <2>4. AllSent(c) => client[c].sent = Segments(client[c].req)
    BY DEF AllSent
  <2>5. QED  BY <2>1, <2>2, <2>3, <2>4, InOrder
<1>2. QED  BY <1>1, Safe, PTL
=============================================================================
