--------------------------------- MODULE MCParts ---------------------------------
(***************************************************************************)
(* The parts of the system that keep no state in common with the others or *)
(* with each other, in one instance for TLC.  The first state picks a job, *)
(* that is a part and what it is to do; from there on only that part       *)
(* steps.  Four parts are state machines of their own; of the others, which *)
(* compute something, a job is a question and the steps are the calls that  *)
(* answer it.                                                              *)
(***************************************************************************)
EXTENDS Parts

toolVars == <<mode, at, dir, level, whole, seen, infile, spoilt>>
readerVars == <<toSend, wire, step, received, buffer_, size, lines, timeouts>>
digestVars == <<sha, pieces, begun, tot_len, final, due, schedule, working, chain, message, hashed>>
partsVars == <<vars, toolVars, readerVars, digestVars, job, question, answer>>

Sequences(S, n) == UNION {[1..k -> S] : k \in 0..n}

------------------------------------------------------------------------------
(* The stream: data of up to two blocks of InBlock cells, and data that look like a header. *)
User == {<<"data", "x">>, <<"data", "y">>}
MCHeader == [i \in 1..HeaderLength |-> <<"header", i>>]
MCPackedLength(b) == IF \A i \in DOMAIN b : b[i] = b[1] THEN 2 ELSE 3

MCByte == User \cup Range(MCHeader)
MCOriginals == Sequences(User, 6) \cup {MCHeader \o <<<<"data", "x">>>>, MCHeader}
MCAnySizes == {-9, -2, 0, 2}

(* Lines of two, none, three and one byte, and an end without one. *)
MCSent == <<1, 2, 0, 0, 3, 4, 5, 0, 6>>

(* Messages at the edges of a block, in up to three pieces, and those of the tests. *)
Letters(n) == [k \in 1..14 * n |-> 97 + ((k - 1) \div n) + ((k - 1) % n)]
Counting(n) == [k \in 1..n |-> k % 251]
Split(m, i) == <<SubSeq(m, 1, i), SubSeq(m, i + 1, Len(m))>>

MCMessages ==
  {<<s, Split(<<97, 98, 99>>, i)>> : s \in {"SHA224", "SHA256", "SHA384", "SHA512"}, i \in 0..3}
  \cup {<<s, Split(Letters(4), 20)>> : s \in {"SHA224", "SHA256"}}
  \cup {<<s, Split(Letters(8), 20)>> : s \in {"SHA384", "SHA512"}}
  \cup {<<"SHA256", Split(Counting(n), i)>> : n \in {55, 56, 63, 64, 65, 119, 120}, i \in {0, 1, 55}}
  \cup {<<"SHA256", Split(Counting(n), i) \o <<Counting(m)>>>> : n \in {64, 100}, i \in {30, 64}, m \in {0, 27, 28, 64}}
  \cup {<<"SHA512", <<Counting(n)>>>> : n \in {111, 112, 127, 128}}

ASSUME StreamAssumption == LengthsAssumption /\ DataAssumption
ASSUME ToolAssumption == Tool!ToolsAssumption
ASSUME ReaderAssumption == Reader!ReaderAssumption
ASSUME DigestAssumption == Digests!MessagesAssumption

------------------------------------------------------------------------------
(* The compressor: all offsets for short data, the last likely one for longer. *)
MCOffers(data, ip) ==
  LET likely == {o \in 1..ip : \A k \in 1..3 : ip + k <= Len(data) => data[ip + k] = data[ip + k - o]}
  IN  IF Len(data) <= 24 THEN 1..ip ELSE IF likely = {} THEN {} ELSE {CHOOSE o \in likely : \A p \in likely : o <= p}

Lzo == INSTANCE Lzo1x WITH Offers <- MCOffers

BlocksToPack == {[i \in 1..19 |-> IF i \in ones THEN 1 ELSE 0] : ones \in SUBSET (3..11)}
          \cup {Counting(n) : n \in 1..22}
          \cup {Counting(n) \o [i \in 1..20 |-> 7] : n \in 15..25}

(* Matches at the edges of the formats, between runs of literals at the edges of theirs. *)
Format(first, offset, length, more) == [first |-> first, offset |-> offset, length |-> length, rest |-> more]

Formats == {Format(o, o, n, 4) : o \in {4, 8, 9, 2048, 2049, 16384, 16385, 32768, 49151},
                                 n \in {4, 8, 9, 10, 33, 34, 264, 265, 288, 289}}
           \cup {Format(n, 1, 3, m) : n \in {4, 18, 19, 238, 239, 273, 274, 529}, m \in {0, 1, 3, 4, 18, 19, 273, 274}}

FormatBytes(q, op(_, _, _, _)) == op(Counting(q.first), q.offset, q.length, Counting(q.rest))

(* The rules. *)
Dir == <<Component("home", "")>>
Paths == {<<Component("x.txt", "txt")>>, Dir, Dir \o <<Component("x.txt", "txt")>>,
          Dir \o <<Component("y", "")>>}
RuleLines == {SetTo("0"), SetTo("1"), [op |-> "0", bare |-> FALSE], Do("U"), Do("L"), Do("?"),
              And(Extension("txt")), And(Not(Below(Dir))), Or(Below(Dir)),
              Or(Below(<<>>)), Or(Not(Extension("txt"))),
              Or([kind |-> "D", absolute |-> FALSE, arg |-> Dir]), Or([kind |-> "?"])}

(* The configuration. *)
MCEnvironment == [v \in {<<"U">>} |-> <<"u", "s">>]
ValueParts == {[variable |-> FALSE, text |-> <<"/">>], [variable |-> FALSE, text |-> <<"/", "$", "x">>],
          [variable |-> TRUE, text |-> <<"U">>], [variable |-> TRUE, text |-> <<"V">>]}
Pairs == {[name |-> n, blanks |-> b, host |-> a, parts |-> p] :
            n \in {"tgelocaldisk", "localdisk"}, b \in {<<>>, <<" ">>},
            a \in {<<>>, <<"*", ":">>, <<"here", ":">>, <<"there", ":">>}, p \in Sequences(ValueParts, 2) \ {<<>>}}

(* The index: a digest needs no quotes, the directory above it may. *)
CopyNames == {<<"/", "c">>, <<"/", Comma>>, <<Quote>>}
Characters == {"a", Comma, Quote, LineFeed}

(* The special paths. *)
MCMountPoint == <<"/", "m">>
FilePaths == {<<"/">> \o p : p \in Sequences({"/", "m", "n", "proc", "tgefs", "tgefslog"}, 3)}

------------------------------------------------------------------------------
Questioned == {"block", "format", "entry", "rules", "config", "path", "log"}

Questions ==
  [block |-> {[data |-> d, room |-> Len(d) + r] : d \in BlocksToPack, r \in {-1, 0}},
   format |-> Formats,
   entry |-> {[entries |-> <<<<n, p>>>>] : n \in CopyNames, p \in Sequences(Characters, 4)}
             \cup {[entries |-> <<<<n, p>>, <<o, q>>>>] : n \in CopyNames, o \in CopyNames,
                     p \in Sequences(Characters, 2), q \in Sequences(Characters, 2)},
   rules |-> {[lines |-> l, path |-> p] : l \in Sequences(RuleLines, 3), p \in Paths},
   config |-> {[exists |-> e, pairs |-> <<p>>] : e \in BOOLEAN, p \in Pairs}
              \cup {[exists |-> TRUE, pairs |-> <<p, q>>] : p \in {x \in Pairs : x.blanks = <<>>},
                                                            q \in {x \in Pairs : Len(x.parts) = 1}},
   path |-> {[path |-> p, to |-> q, beyond |-> b] :
              p \in FilePaths, q \in {<<"/", "n">>, <<"/", "m", "/">>, Files!Proc}, b \in {"/", "end", "other"}},
   log |-> {[level |-> n, byte |-> b, size |-> k] :
             n \in {0, 9, 10, 99, 100, 2147483647}, b \in {0, 9, 10}, k \in 1..12}]

(* A part that has no job stays in one of its first states. *)
PartsInit ==
  /\ job \in {"stream", "tool", "reader", "digest"} \cup Questioned
  /\ Init /\ (job # "stream" => original = <<>> /\ packing)
  /\ Tool!Init /\ (job # "tool" => \A p \in Tools : mode[p] = "encode" /\ level[p] + level[Original] = 0)
  /\ Reader!Init
  /\ Digests!Init /\ (job # "digest" => sha = "SHA256" /\ pieces = Split(<<97, 98, 99>>, 0))
  /\ question \in IF job \in Questioned THEN Questions[job] ELSE {"none"}
  /\ answer = <<>>

Pack == /\ Asked("block")
        /\ \E packed \in Lzo!Compress(question.data) : Answers(<<"packed", packed>>)

PackFormat == Asked("format") /\ Answers(<<"packed", FormatBytes(question, Lzo!PackedOneMatch)>>)

Unpack == /\ answer # <<>> /\ answer[1] = "packed"
          /\ Answers(<<"unpacked", Lzo!DecompressSafe(answer[2], IF job = "block" THEN question.room ELSE 60000)>>)

Ask == /\ \/ Pack \/ PackFormat \/ Unpack \/ WriteEntry \/ ReadEntries \/ ChooseType \/ Configure
          \/ AskPath \/ WriteLog \/ ReadLog
       /\ UNCHANGED question

PartsNext ==
  /\ UNCHANGED job
  /\ \/ /\ job = "stream" /\ Next
        /\ UNCHANGED <<toolVars, readerVars, digestVars, question, answer>>
     \/ /\ job = "tool" /\ Tool!Next
        /\ UNCHANGED <<vars, readerVars, digestVars, question, answer>>
     \/ /\ job = "reader" /\ Reader!Next
        /\ UNCHANGED <<vars, toolVars, digestVars, question, answer>>
     \/ /\ job = "digest" /\ Digests!Next
        /\ UNCHANGED <<vars, toolVars, readerVars, question, answer>>
     \/ /\ job \in Questioned /\ Ask
        /\ UNCHANGED <<vars, toolVars, readerVars, digestVars>>

PartsSpec == PartsInit /\ [][PartsNext]_partsVars
------------------------------------------------------------------------------
(* Lzo1x: what the compressor made, and what it would make of a match at the edge of any
   format, comes back byte for byte; too little room is reported.  Sha2: the digests of the
   tests are right. *)
CodecAndDigestsRight ==
  /\ job \in {"block", "format"} /\ answer # <<>> /\ answer[1] = "unpacked" =>
       IF job = "block" THEN Lzo!ComesBack(question.data, question.room, answer[2])
       ELSE answer[2] = Lzo!Result("OK", FormatBytes(question, Lzo!OneMatch))
  /\ Digests!KnownDigests
==================================================================================
