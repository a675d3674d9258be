------------------------------ MODULE MCEspFs ------------------------------
(* All short files of two bytes, and longer ones of blocks that repeat, in *)
(* which the window is filled and leaves the beginning behind; images with *)
(* other files before and after, whose names and lengths need each padding;*)
(* a level whose distances fit in a byte and one whose do not; options     *)
(* that store the file as it is or are refused; and files that are gzipped.*)
EXTENDS EspFs

LOCAL INSTANCE SequencesExt

CONSTANTS MaxLen, Blocks

MCWindows == <<3, 3, 3, 4, 4>>
MCLookaheads == <<2, 2, 2, 2, 2>>

Short == UNION {[1..n -> {0, 1}] : n \in 0..MaxLen}
Block == {<<0, 0, 0>>, <<0, 1, 1>>, <<1, 3>>}
Long(n) == {FlattenSeq(b) : b \in [1..n -> Block]}

(* Gzip makes short files longer.                                          *)
MCDeflate(f) == IF Len(f) < 3 THEN <<2>> \o f \o <<2>> ELSE <<2>> \o SubSeq(f, 2, Len(f) - 1)

Option(opt, value) == <<[opt |-> opt, value |-> value, exts |-> {}]>>
Extensions(exts) == <<[opt |-> "-g", value |-> 0, exts |-> exts]>>
TheFile(nameLen) == [name |-> "file", ext |-> "html", nameLen |-> nameLen, comp |-> 0]
Other(nameLen, comp) == [name |-> "other", ext |-> "png", nameLen |-> nameLen, comp |-> comp]
Building(f, gz, names, asked, args) ==
  [file |-> f, gzip |-> gz, todo |-> names, url |-> asked, args |-> args]

Alone ==
  {Building(f, FALSE, <<TheFile(2)>>, "file", <<>>) : f \in Short \cup Long(Blocks - 1)}
    \cup {Building(f, FALSE, <<TheFile(2)>>, "file", Option("-l", 1)) : f \in Long(Blocks)}
Among ==
  {Building(f, FALSE, <<Other(n, c), TheFile(n), Other(c + 1, n)>>, u, a) :
     f \in {<<0, 1>>, <<1, 0, 1, 0, 1, 0, 1, 0, 1>>}, n \in 1..4, c \in 0..4,
     u \in {"file", "missing"}, a \in {<<>>, Option("-c", 0)}}
Gzipped ==
  {Building(f, TRUE, <<Other(1, 2), TheFile(2)>>, "file", a) :
     f \in Short,
     a \in {<<>>, Extensions({"png"}), Option("-c", 2) \o Extensions({"png", "html"})}}
Refused ==
  {Building(<<0, 1>>, FALSE, <<TheFile(2)>>, "file", a) :
     a \in {Option("-c", 2), Option("-l", 0), Option("-l", 10), Extensions({"html"}),
            Option("-l", 1) \o Option("-x", 1)}}
Nothing == {Building(<<>>, FALSE, <<>>, "file", <<>>)}
MCBuild == Alone \cup Among \cup Gzipped \cup Refused \cup Nothing
=============================================================================
