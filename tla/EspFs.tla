------------------------------- MODULE EspFs -------------------------------
(***************************************************************************)
(* The way of a file of the configuration pages from the build to the      *)
(* browser: mkespfsimage packs it with the encoder of heatshrink (or       *)
(* stores it as it is, if that is not shorter) and writes it into an image *)
(* with others; espfs.c walks the headers of the image to it and reads it  *)
(* in chunks for cgiEspFsHook with the decoder of heatshrink, which is fed *)
(* a few bytes at a time and stops in the middle of a token when they run  *)
(* out.  cgiEspFsTemplate reads the same chunks and replaces tokens.       *)
(*                                                                         *)
(* A byte has ByteBits bits.  The widths keep the order they have in the   *)
(* program: a token never fits into the padding of the last byte.  Of the  *)
(* other files of the image only the lengths matter.  What zlib makes of a *)
(* file is not modelled, and every option is followed by its value.        *)
(***************************************************************************)
EXTENDS Integers, Sequences

CONSTANTS
  Build,      \* what is built: a file, whether with GZIP_COMPRESSION, options
              \* and input of mkespfsimage, a request
  Deflate(_), \* what zlib makes of a file
  ByteBits,   \* bits of a byte (8)
  Windows,    \* ws: bits of a distance, for two levels each (5, 6, 8, 11, 13)
  Lookaheads, \* ls: bits of a length (3, 3, 4, 4, 4)
  MinWindow,  \* HEATSHRINK_MIN_WINDOW_BITS (4)
  MaxWindow,  \* HEATSHRINK_MAX_WINDOW_BITS (15)
  MinLookahead, \* HEATSHRINK_MIN_LOOKAHEAD_BITS (2)
  InBuf,      \* bytes of the decoder's input buffer, and of a feed (16)
  Chunk,      \* bytes a call of cgiEspFsHook reads (1024)
  Percent,    \* the byte that begins and ends a token of a template
  MaxToken    \* bytes kept of a token (63)

Pow2[n \in Nat] == IF n = 0 THEN 1 ELSE 2 * Pow2[n - 1]   \* 1 << n
ByteValue == 0..(Pow2[ByteBits] - 1)

(* A file is listed once, and its content is known: it is the one that is  *)
(* asked for, or none of the listed ones is.                               *)
ASSUME EspFsAssumption ==
  /\ {ByteBits, InBuf, Chunk, MinWindow, MaxWindow, MinLookahead} \subseteq Nat \ {0}
  /\ Windows \in Seq(Nat) /\ Lookaheads \in Seq(Nat) /\ Len(Windows) = 5 /\ Len(Lookaheads) = 5
  /\ \A i \in 1..5 :
       /\ 0 < Lookaheads[i] /\ Lookaheads[i] < Windows[i] /\ Windows[i] < 16
       /\ Windows[i] <= 2 * ByteBits /\ Lookaheads[i] <= ByteBits
       /\ 1 + Windows[i] + Lookaheads[i] > ByteBits
  /\ Percent \in ByteValue /\ MaxToken \in Nat \ {0}
  /\ \A b \in Build :
       /\ b.file \in Seq(ByteValue)
       /\ Deflate(b.file) \in Seq(ByteValue) \ {<<>>}
       /\ b.gzip \in BOOLEAN
       /\ b.todo \in Seq([name : STRING \ {"last"}, ext : STRING, nameLen : Nat \ {0}, comp : Nat])
       /\ b.url \in STRING \ {"last"}
       /\ \A i, j \in DOMAIN b.todo : b.todo[i].name = "file" /\ b.todo[j].name = "file" => i = j
       /\ b.url = "file" \/ \A i \in DOMAIN b.todo : b.todo[i].name # b.url
       /\ b.args \in Seq([opt : STRING, value : Int, exts : SUBSET STRING])

VARIABLES
  phase,     \* "pack", "open", "serve"; "done", or "missing" or "broken" for NULL;
             \* "usage" or "failed" if mkespfsimage exits without an image
  options,   \* what main has read from its arguments
  file,      \* the file that is named "file"
  todo,      \* the files mkespfsimage has still to read the names of
  image,     \* the headers it has written: see Entry
  url,       \* the name that espFsOpen is to find
  pos,       \* p of espFsOpen
  enc,       \* heatshrink_encoder, and how much of the file it was given
  out,       \* the bits it has put out
  packed,    \* header: COMPRESS_HEATSHRINK, not COMPRESS_NONE
  cdat,      \* what is stored of the file, if it is not packed
  dec,       \* heatshrink_decoder
  fed,       \* posComp - posStart, without the byte of parameters
  served,    \* what the browser was sent, posDecomp bytes
  read       \* bytes read by the current espFsRead, and elen of its loop

layout == <<options, todo, image, url, pos>>
stored == <<packed, cdat>>
vars == <<phase, file, layout, enc, out, stored, dec, fed, served, read>>

(* compressHeatshrink chooses the widths by the level: 8 for the default   *)
(* of -1. Nothing is packed at a level that is refused.                    *)
Level == IF options.level \in 1..9 THEN options.level ELSE 8
W == Windows[(Level - 1) \div 2 + 1]
L == Lookaheads[(Level - 1) \div 2 + 1]

Window == Pow2[W]     \* get_input_buffer_size
Ahead == Pow2[L]      \* get_lookahead_size
BreakEven == 3
Align == 4
HeaderLen == 16   \* sizeof(EspFsHeader)
CompressNone == 0
CompressHeatshrink == 1
Least(a, b) == IF a < b THEN a ELSE b

ToBits(n, k) == [i \in 1..k |-> (n \div Pow2[k - i]) % 2]
FromBits(bits) ==
  LET value[i \in 0..Len(bits)] == IF i = 0 THEN 0 ELSE 2 * value[i - 1] + bits[i]
  IN value[Len(bits)]

Bytes == Len(out) \div ByteBits
ByteAt(i) == SubSeq(out, (i - 1) * ByteBits + 1, i * ByteBits)

(* heatshrink_encoder_reset, heatshrink_decoder_reset.                     *)
Encoder ==
  [given |-> 0, buf |-> [i \in 0..(2 * Window - 1) |-> 0], size |-> 0,
   msi |-> 0, backlog |-> "none", full |-> FALSE, finishing |-> FALSE]
Decoder ==
  [st |-> "empty", inp |-> <<>>, idx |-> 0, cur |-> <<>>, index |-> 0, count |-> 0]

TypeOK ==
  /\ phase \in {"pack", "open", "serve", "done", "missing", "broken", "usage", "failed"}
  /\ packed \in BOOLEAN /\ Len(cdat) <= Len(file)
  /\ pos \in Nat
  /\ enc.size \in 0..Window /\ enc.msi \in 0..enc.size /\ enc.given \in 0..Len(file)
  /\ enc.backlog \in {"none", "partial", "filled"}
  /\ \A i \in 1..Len(out) : out[i] \in {0, 1}
  /\ Len(dec.inp) <= InBuf /\ dec.idx \in 0..Len(dec.inp) /\ Len(dec.cur) < ByteBits
  /\ dec.st \in {"empty", "input", "literal", "msb", "lsb", "count", "backref"}
  /\ dec.index \in 0..Window /\ dec.count \in 0..Ahead
  /\ fed \in 0..Bytes /\ Len(served) <= Len(file)
  /\ read.got \in 0..Chunk

(* main reads its options in turn; it prints how it is used if one is not  *)
(* known or the level is none.  -g is known, and files have extensions that*)
(* are to be gzipped, if gzip is compiled in.                              *)
ParseGzipExtensions(arg) == arg.exts
DefaultExtensions(gzip) == IF gzip THEN {"html", "css", "js", "svg"} ELSE {}
Options(args, gzip) ==
  LET after[i \in 0..Len(args)] ==
        IF i = 0
          THEN [comp |-> CompressHeatshrink, level |-> -1, err |-> FALSE,
                exts |-> DefaultExtensions(gzip)]
        ELSE CASE args[i].opt = "-c" -> [after[i - 1] EXCEPT !.comp = args[i].value]
               [] args[i].opt = "-l" ->
                    [after[i - 1] EXCEPT !.level = args[i].value,
                                         !.err = @ \/ args[i].value \notin 1..9]
               [] args[i].opt = "-g" /\ gzip ->
                    [after[i - 1] EXCEPT !.exts = ParseGzipExtensions(args[i])]
               [] OTHER -> [after[i - 1] EXCEPT !.err = TRUE]
  IN after[Len(args)]

Init ==
  /\ \E b \in Build :
       file = b.file /\ todo = b.todo /\ url = b.url /\ options = Options(b.args, b.gzip)
  /\ phase = IF options.err THEN "usage" ELSE "pack"
  /\ image = <<>> /\ pos = 0
  /\ enc = Encoder /\ out = <<>> /\ packed = TRUE /\ cdat = <<>>
  /\ dec = Decoder /\ fed = 0 /\ served = <<>>
  /\ read = [got |-> 0, feed |-> TRUE, left |-> 0]

-----------------------------------------------------------------------------
(* A header, at its address in the image, with what it says of the name    *)
(* and the file that follow, each padded to the next 32-bit boundary.      *)
Aligned(n) == IF n % Align = 0 THEN n ELSE n + (Align - (n % Align))

ImageEnd ==
  IF image = <<>> THEN 0
  ELSE LET e == image[Len(image)] IN e.at + HeaderLen + e.nameLen + Aligned(e.comp)
Entry(name, nameLen, comp, gzip) ==
  [name |-> name, at |-> ImageEnd, nameLen |-> Aligned(nameLen), comp |-> comp, gzip |-> gzip]

(* heatshrink_encoder_alloc, without which handleFile exits as it does if  *)
(* the compression is none it knows.                                       *)
EncoderAlloc == W \in MinWindow..MaxWindow /\ L \in MinLookahead..W
ShouldCompressGzip(name) == name.ext \in options.exts
Handles ==
  \/ ShouldCompressGzip(Head(todo))
  \/ options.comp = CompressNone
  \/ options.comp = CompressHeatshrink /\ EncoderAlloc
HandleNone ==
  /\ phase = "pack" /\ todo # <<>> /\ ~Handles
  /\ phase' = "failed"
  /\ UNCHANGED <<file, layout, enc, out, stored, dec, fed, served, read>>

(* The loop of main, and finishArchive.                                    *)
HandleOther ==
  /\ phase = "pack" /\ todo # <<>> /\ Head(todo).name # "file" /\ Handles
  /\ image' = Append(image, Entry(Head(todo).name, Head(todo).nameLen, Head(todo).comp, FALSE))
  /\ todo' = Tail(todo)
  /\ UNCHANGED <<phase, options, file, url, pos, enc, out, stored, dec, fed, served, read>>

FinishArchive ==
  /\ phase = "pack" /\ todo = <<>>
  /\ image' = Append(image, Entry("last", 0, 0, FALSE))
  /\ phase' = "open"
  /\ UNCHANGED <<options, file, todo, url, pos, enc, out, stored, dec, fed, served, read>>

Handling == phase = "pack" /\ todo # <<>> /\ Head(todo).name = "file" /\ Handles

(* compressGzip gives the file to zlib, in one piece; there is always room *)
(* for what comes out.  handleFile keeps the shorter of the two.           *)
CompressGzip == Deflate(file)
HandleGzip ==
  /\ Handling /\ ShouldCompressGzip(Head(todo))
  /\ LET shorter == Len(CompressGzip) <= Len(file)
     IN /\ cdat' = IF shorter THEN CompressGzip ELSE file
        /\ image' = Append(image, Entry("file", Head(todo).nameLen, Len(cdat'), shorter))
  /\ packed' = FALSE
  /\ todo' = Tail(todo)
  /\ UNCHANGED <<phase, options, file, url, pos, enc, out, dec, fed, served, read>>

HandlePlain ==
  /\ Handling /\ ~ShouldCompressGzip(Head(todo)) /\ options.comp = CompressNone
  /\ packed' = FALSE /\ cdat' = file
  /\ image' = Append(image, Entry("file", Head(todo).nameLen, Len(file), FALSE))
  /\ todo' = Tail(todo)
  /\ UNCHANGED <<phase, options, file, url, pos, enc, out, dec, fed, served, read>>

Packing ==
  Handling /\ ~ShouldCompressGzip(Head(todo)) /\ options.comp = CompressHeatshrink

(* heatshrink_encoder_sink of what fits behind what is there.              *)
SunkSize == Least(Window - enc.size, Len(file) - enc.given)
SunkBuffer ==
  LET from == Window + enc.size
  IN [i \in DOMAIN enc.buf |-> IF i \in from..(from + SunkSize - 1)
                                 THEN file[enc.given + i - from + 1] ELSE enc.buf[i]]

EncoderSink ==
  [enc EXCEPT !.buf = SunkBuffer, !.given = @ + SunkSize, !.size = @ + SunkSize,
              !.full = (enc.size + SunkSize = Window)]
EncoderFinish(e) == [e EXCEPT !.finishing = TRUE, !.full = TRUE]

(* compressHeatshrink, with heatshrink_encoder_finish after the last sink. *)
Sink ==
  /\ Packing /\ ~enc.full /\ enc.given < Len(file)
  /\ enc' = IF EncoderSink.given = Len(file) THEN EncoderFinish(EncoderSink) ELSE EncoderSink
  /\ UNCHANGED <<phase, file, layout, out, stored, dec, fed, served, read>>

(* do_indexing: where the byte of each position came last, or -1.          *)
Index ==
  [i \in 0..(Window + enc.size - 1) |->
    LET same == {j \in 0..(i - 1) : enc.buf[j] = enc.buf[i]}
    IN IF same = {} THEN -1 ELSE CHOOSE j \in same : \A k \in same : k <= j]

(* find_longest_match: of the positions scanned, which the index links, the*)
(* nearest with the longest match.                                         *)
Matches(p, end, n) == \A i \in 0..(n - 1) : enc.buf[p + i] = enc.buf[end + i]
Longest(p, end, max) ==
  CHOOSE n \in 0..max : Matches(p, end, n) /\ (n = max \/ ~Matches(p, end, n + 1))
ScanStart(end) ==
  LET first == end - Window + 1
  IN CASE enc.backlog = "filled"  -> first
       [] enc.backlog = "partial" -> IF first < Ahead THEN Ahead ELSE first
       [] enc.backlog = "none"    -> Window
Scanned(end) ==
  LET index == Index
      linked[i \in -1..end] == IF i < ScanStart(end) THEN {} ELSE {i} \cup linked[index[i]]
  IN linked[index[end]]
Best(end, max) ==
  LET scanned == Scanned(end)
  IN {p \in scanned : \A q \in scanned :
        \/ Longest(q, end, max) < Longest(p, end, max)
        \/ Longest(q, end, max) = Longest(p, end, max) /\ q <= p}

AddTagBit(tag) == <<tag>>
PushLiteralByte(byte) == ToBits(byte, ByteBits)
Literal(byte) == AddTagBit(1) \o PushLiteralByte(byte)
BackrefOffByOne(distance, n) == AddTagBit(0) \o ToBits(distance, W) \o ToBits(n - 1, L) \* a mutant
Backref(distance, n) == AddTagBit(0) \o ToBits(distance - 1, W) \o ToBits(n - 1, L)

Exhausted == enc.msi >= enc.size - (IF enc.finishing THEN 0 ELSE Ahead)

(* st_step_search with the states that yield the bits of a token.          *)
Search ==
  /\ Packing /\ enc.full /\ ~Exhausted
  /\ LET end  == Window + enc.msi
         max  == Least(Ahead, enc.size - enc.msi)
         good == {p \in Best(end, max) : Longest(p, end, max) >= BreakEven}
     IN \/ /\ good = {}
           /\ out' = out \o Literal(enc.buf[end])
           /\ enc' = [enc EXCEPT !.msi = @ + 1]
        \/ \E p \in good :
             /\ out' = out \o Backref(end - p, Longest(p, end, max))
             /\ enc' = [enc EXCEPT !.msi = @ + Longest(p, end, max)]
  /\ UNCHANGED <<phase, file, layout, stored, dec, fed, served, read>>

(* st_save_backlog: the end of the file, or room for more of it.           *)
FlushBits == enc.full /\ Exhausted /\ enc.finishing
NotFull == enc.full /\ Exhausted /\ ~enc.finishing

(* save_backlog: what is not processed moves to the front of the input.    *)
SaveBacklog ==
  /\ Packing /\ NotFull
  /\ LET rest == Window - enc.msi
     IN enc' = [enc EXCEPT
          !.buf = [i \in DOMAIN @ |-> IF i < Window + rest THEN @[i + Window - rest] ELSE @[i]],
          !.backlog = IF @ = "none" THEN "partial" ELSE "filled",
          !.msi = 0, !.size = @ - (Window - rest), !.full = FALSE]
  /\ UNCHANGED <<phase, file, layout, out, stored, dec, fed, served, read>>

(* st_flush_bit_buffer.                                                    *)
Padding ==
  LET over == Len(out) % ByteBits
  IN IF over = 0 THEN <<>> ELSE [i \in 1..(ByteBits - over) |-> 0]

(* handleFile keeps the shorter of the two, a packed one with a byte of    *)
(* parameters before it.  An empty file is not given to the encoder.       *)
Packed ==
  /\ Packing
  /\ FlushBits \/ file = <<>>
  /\ out' = out \o Padding
  /\ LET length == 1 + (Len(out') \div ByteBits)
     IN /\ packed' = (length <= Len(file))
        /\ cdat' = IF packed' THEN <<>> ELSE file
        /\ image' = Append(image,
                     Entry("file", Head(todo).nameLen, Least(length, Len(file)), FALSE))
  /\ todo' = Tail(todo)
  /\ UNCHANGED <<phase, options, file, url, pos, enc, dec, fed, served, read>>

-----------------------------------------------------------------------------
(* espFsOpen: from header to header until the name is found or the last    *)
(* header, or something that is none.                                      *)
HeaderAt(p) == {i \in DOMAIN image : image[i].at = p}
SkippedTo(p, e) == p + HeaderLen + e.nameLen + e.comp                          \* a mutant
Skipped(p, e) == Aligned(p + HeaderLen + e.nameLen + e.comp)

(* The byte of parameters tells heatshrink_decoder_alloc the widths.       *)
Parm == W * 16 + L
IndexBits == (Parm \div 16) % 16
CountBits == Parm % 16
DecoderAlloc ==
  /\ InBuf # 0
  /\ IndexBits \in MinWindow..MaxWindow /\ CountBits \in MinLookahead..IndexBits

EspFsOpen ==
  /\ phase = "open"
  /\ \/ HeaderAt(pos) = {} /\ phase' = "broken" /\ UNCHANGED pos
     \/ \E i \in HeaderAt(pos) :
          CASE image[i].name = "last" -> phase' = "missing" /\ UNCHANGED pos
            [] image[i].name = url ->
                 /\ phase' = IF packed => DecoderAlloc THEN "serve" ELSE "broken"
                 /\ UNCHANGED pos
            [] OTHER -> pos' = Skipped(pos, image[i]) /\ UNCHANGED phase
  /\ UNCHANGED <<options, file, todo, image, url, enc, out, stored, dec, fed, served, read>>

-----------------------------------------------------------------------------
(* get_bits: all of them or none.                                          *)
Enough(n) == Len(dec.cur) >= n \/ dec.inp # <<>>
Bits(n) ==
  IF Len(dec.cur) >= n THEN SubSeq(dec.cur, 1, n)
  ELSE dec.cur \o SubSeq(dec.inp[dec.idx + 1], 1, n - Len(dec.cur))
Taken(n, st) ==
  IF Len(dec.cur) >= n
    THEN [dec EXCEPT !.cur = SubSeq(@, n + 1, Len(@)), !.st = st]
  ELSE [dec EXCEPT !.cur = SubSeq(dec.inp[dec.idx + 1], n - Len(@) + 1, ByteBits), !.st = st,
                   !.inp = IF dec.idx + 1 = Len(@) THEN <<>> ELSE @,
                   !.idx = IF @ + 1 = Len(dec.inp) THEN 0 ELSE @ + 1]

(* st_check_for_input.                                                     *)
More(d) == [d EXCEPT !.st = IF d.inp = <<>> THEN "empty" ELSE "input"]

(* A byte of the output window, which is zero before the first.            *)
Back(distance) == LET i == Len(served) - distance + 1 IN IF i < 1 THEN 0 ELSE served[i]

Emit(byte) == served' = Append(served, byte) /\ read' = [read EXCEPT !.got = @ + 1]

Room == read.got < Chunk

(* One step of heatshrink_decoder_poll.                                    *)
Decode ==
  /\ phase = "serve" /\ packed /\ ~read.feed
  /\ \/ /\ dec.st = "input" /\ Enough(1)
        /\ dec' = [Taken(1, CASE Bits(1) = <<1>> -> "literal"
                              [] Bits(1) = <<0>> /\ IndexBits > ByteBits -> "msb"
                              [] Bits(1) = <<0>> /\ IndexBits <= ByteBits -> "lsb") EXCEPT !.index = 0]
        /\ UNCHANGED <<served, read>>
     \/ /\ dec.st = "literal" /\ Room /\ Enough(ByteBits)
        /\ dec' = More(Taken(ByteBits, "input"))
        /\ Emit(FromBits(Bits(ByteBits)))
     \/ /\ dec.st = "msb" /\ Enough(IndexBits - ByteBits)
        /\ dec' = [Taken(IndexBits - ByteBits, "lsb")
                     EXCEPT !.index = FromBits(Bits(IndexBits - ByteBits)) * Pow2[ByteBits]]
        /\ UNCHANGED <<served, read>>
     \/ /\ dec.st = "lsb" /\ Enough(Least(IndexBits, ByteBits))
        /\ dec' = [Taken(Least(IndexBits, ByteBits), "count")
                     EXCEPT !.index = @ + FromBits(Bits(Least(IndexBits, ByteBits))) + 1]
        /\ UNCHANGED <<served, read>>
     \/ /\ dec.st = "count" /\ Enough(CountBits)
        /\ dec' = [Taken(CountBits, "backref") EXCEPT !.count = FromBits(Bits(CountBits)) + 1]
        /\ UNCHANGED <<served, read>>
     \/ /\ dec.st = "backref" /\ Room
        /\ dec' = IF dec.count = 1 THEN More([dec EXCEPT !.count = 0])
                  ELSE [dec EXCEPT !.count = @ - 1]
        /\ Emit(Back(dec.index))
  /\ UNCHANGED <<phase, file, layout, enc, out, stored, fed>>

(* espFsRead: heatshrink_decoder_sink of the next bytes, if there are any. *)
(* The buffer takes more only behind what it holds, until all is used.     *)
FitsAnyway == InBuf                                                          \* a mutant
Fits == InBuf - Len(dec.inp)
FedNow == Least(Fits, Least(InBuf, Bytes - fed))
Feed ==
  /\ phase = "serve" /\ packed /\ read.feed
  /\ Len(served) < Len(file) \/ read.got > 0
  /\ fed' = fed + FedNow
  /\ dec' = IF FedNow = 0 THEN dec
            ELSE [dec EXCEPT !.inp = @ \o [i \in 1..FedNow |-> ByteAt(fed + i)],
                             !.st = IF @ = "empty" THEN "input" ELSE @]
  /\ read' = [read EXCEPT !.feed = FALSE, !.left = Bytes - fed]
  /\ UNCHANGED <<phase, file, layout, enc, out, stored, served>>

(* The poll can do no more, for want of input or of room.                  *)
Stuck ==
  \/ dec.st = "empty"
  \/ dec.st \in {"literal", "backref"} /\ ~Room
  \/ ~Enough(CASE dec.st = "literal" -> ByteBits [] dec.st = "msb" -> IndexBits - ByteBits
               [] dec.st = "lsb" -> Least(IndexBits, ByteBits) [] dec.st = "count" -> CountBits
               [] OTHER -> 0)

(* The end of a read: enough is read, or nothing was left to feed.         *)
OnlyWhenFull == ~Room                                                        \* a mutant
ReadEnds == ~Room \/ read.left = 0

(* heatshrink_decoder_finish: nothing is left, but for padding of the last *)
(* byte, which looks like the beginning of a token.                        *)
DecoderFinish ==
  \/ dec.st = "empty"
  \/ dec.st \in {"literal", "msb", "lsb", "count"} /\ dec.inp = <<>>

(* espFsClose, which cgiEspFsHook calls at the end.                        *)
EspFsClose == phase' = "done"

(* Back in the loop of espFsRead, and in cgiEspFsHook, which is called     *)
(* again unless less than a chunk was read.                                *)
Polled ==
  /\ phase = "serve" /\ packed /\ ~read.feed /\ Stuck
  /\ read' = [read EXCEPT !.feed = TRUE, !.got = IF ReadEnds THEN 0 ELSE @]
  /\ IF ReadEnds /\ read.got < Chunk THEN EspFsClose ELSE UNCHANGED phase
  /\ UNCHANGED <<file, layout, enc, out, stored, dec, fed, served>>

(* espFsRead when all has been read, and of a file that is not packed.     *)
ReadNothing ==
  /\ phase = "serve" /\ packed /\ read.feed
  /\ Len(served) = Len(file) /\ read.got = 0
  /\ EspFsClose
  /\ UNCHANGED <<file, layout, enc, out, stored, dec, fed, served, read>>

ReadPlain ==
  /\ phase = "serve" /\ ~packed
  /\ LET n == Least(Chunk, Len(cdat) - Len(served))
     IN /\ served' = SubSeq(cdat, 1, Len(served) + n)
        /\ IF n < Chunk THEN EspFsClose ELSE UNCHANGED phase
  /\ UNCHANGED <<file, layout, enc, out, stored, dec, fed, read>>

Over == phase \in {"done", "missing", "broken", "usage", "failed"}
Done == Over /\ UNCHANGED vars

Next ==
  \/ HandleNone \/ HandleOther \/ HandlePlain \/ HandleGzip
  \/ Sink \/ Search \/ SaveBacklog \/ Packed \/ FinishArchive \/ EspFsOpen
  \/ Feed \/ Decode \/ Polled \/ ReadNothing \/ ReadPlain
  \/ Done

Spec == Init /\ [][Next]_vars /\ WF_vars(Next)

-----------------------------------------------------------------------------
(* espFsFlags: cgiEspFsHook tells the browser that the file is gzipped.    *)
EspFsFlags == \E i \in DOMAIN image : image[i].name = url /\ image[i].gzip

(* The browser is sent the file that was packed: no byte but those of the  *)
(* file, however its reads cut the tokens, and all of them by the end, when*)
(* the decoder too has come to its end; and it is sent what gzip made of   *)
(* the file if and only if it is told so.                                  *)
ServesFile ==
  LET promised == IF EspFsFlags THEN Deflate(file) ELSE file
  IN phase \in {"serve", "done"} =>
       /\ served = SubSeq(promised, 1, Len(served))
       /\ phase = "done" => served = promised /\ DecoderFinish

(* From every header espFsOpen comes to the next one, whatever the lengths *)
(* of names and files, so a file is found if and only if it was packed.    *)
FindsFile ==
  /\ phase # "broken"
  /\ phase = "missing" => \A i \in DOMAIN image : image[i].name # url

(* Packing and serving a file come to an end.                              *)
Ends == <>Over

-----------------------------------------------------------------------------
(* cgiEspFsTemplate.  A callback sends the value of a token; here that is  *)
(* the token in brackets.  t holds what TplData keeps between two calls    *)
(* (token is NoToken in ordinary text) and what has been sent; e and sp    *)
(* are the text of this chunk not yet sent.                                *)
NoToken == <<-1>>
Value(token) == <<-2>> \o token \o <<-3>>
SendText(t, chunk) == t.sent \o SubSeq(chunk, t.e, t.e + t.sp - 1)

TokenByte(t, x, byte) ==
  CASE byte # Percent ->
         IF Len(t.token) < MaxToken THEN [t EXCEPT !.token = Append(@, byte)] ELSE t
    [] byte = Percent ->
         [t EXCEPT !.sent = @ \o IF t.token = <<>> THEN <<Percent>> ELSE Value(t.token),
                   !.e = x + 1, !.token = NoToken]

TextByte(t, chunk, x) ==
  IF chunk[x] = Percent THEN [t EXCEPT !.sent = SendText(t, chunk), !.sp = 0, !.token = <<>>]
  ELSE [t EXCEPT !.sp = @ + 1]

Bytewise(t, chunk) ==
  LET after[x \in 0..Len(chunk)] ==
        IF x = 0 THEN [t EXCEPT !.e = 1, !.sp = 0]
        ELSE IF after[x - 1].token = NoToken THEN TextByte(after[x - 1], chunk, x)
        ELSE TokenByte(after[x - 1], x, chunk[x])
  IN [after[Len(chunk)] EXCEPT !.sent = SendText(after[Len(chunk)], chunk)]
CallForgets(t, chunk) == Bytewise([t EXCEPT !.token = NoToken], chunk)        \* a mutant
CgiEspFsTemplate(t, chunk) == Bytewise(t, chunk)

(* The calls for a whole file, a chunk each, until one is short.           *)
Template(bytes) ==
  LET calls == Len(bytes) \div Chunk + 1
      after[i \in 0..calls] ==
        IF i = 0 THEN [e |-> 1, sp |-> 0, token |-> NoToken, sent |-> <<>>]
        ELSE CgiEspFsTemplate(after[i - 1],
               SubSeq(bytes, (i - 1) * Chunk + 1, Least(i * Chunk, Len(bytes))))
  IN after[calls].sent

(* The same, of a file that is not cut: text up to a percent sign, then the*)
(* token up to the next one; a token that does not end is not sent.        *)
Expanded(bytes) ==
  LET n == Len(bytes)
      NextPercent(k) ==
        LET after == {i \in k..n : bytes[i] = Percent}
        IN IF after = {} THEN n + 1 ELSE CHOOSE i \in after : \A j \in after : i <= j
      from[k \in 1..(n + 1)] ==
        LET i == NextPercent(k)
            j == NextPercent(i + 1)
            name == SubSeq(bytes, i + 1, j - 1)
        IN IF i > n THEN SubSeq(bytes, k, n)
           ELSE IF j > n THEN SubSeq(bytes, k, i - 1)
           ELSE SubSeq(bytes, k, i - 1)
                  \o (IF name = <<>> THEN <<Percent>>
                      ELSE Value(SubSeq(name, 1, Least(MaxToken, Len(name)))))
                  \o from[j + 1]
  IN from[1]

(* Where the reads cut a template changes nothing: no token is lost that   *)
(* lies across two chunks, and no text is sent twice or left out.  A file  *)
(* that is gzipped is not taken for a template.                            *)
TemplatesAreWhole ==
  phase = "done" /\ ~EspFsFlags => Template(served) = Expanded(served)
=============================================================================
