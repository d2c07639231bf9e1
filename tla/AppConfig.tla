-------------------------------- MODULE AppConfig --------------------------------
(***************************************************************************)
(* The configuration of the daemon: load_application_config of             *)
(* tge_appconfig.cc, and what main and createCacheDir (tgefs.cc) make of   *)
(* the cache directory it names.  A line is a record of the name before    *)
(* the equals sign and the text after it; a text is a sequence of          *)
(* characters, or of longer pieces where the code does not look inside.    *)
(***************************************************************************)
EXTENDS Integers, SequencesExt

CONSTANTS HostName,     (* of this machine, a piece                                *)
          Environment   (* from the names of variables, pieces, to their texts     *)

Space == " "
Colon == ":"
AnyHost == "*"
Dollar == "$"
Opening == "{"
Closing == "}"

(* The first place from i on in text that holds one of chars, or the one after the end. *)
FindFirst(text, i, chars) ==
  LET found == {j \in i..Len(text) : text[j] \in chars}
  IN  IF found = {} THEN Len(text) + 1 ELSE CHOOSE j \in found : \A k \in found : j <= k

(* splitBySpace.  The inner loop looks for the end of the word with the index of its first
   character, which is no space: every word goes to the end of the line. *)
SplitBySpace(text) ==
  LET words == {i \in DOMAIN text : text[i] # Space}
  IN  IF words = {} THEN <<>>
      ELSE <<SubSeq(text, CHOOSE i \in words : \A j \in words : i <= j, Len(text))>>

(* Variant: the brace stays. *)
ExpandKeepsBrace(text) ==
  LET Expand[i \in 1..Len(text) + 1] ==
        IF i > Len(text) THEN <<>>
        ELSE IF text[i] = Dollar /\ i < Len(text) /\ text[i + 1] = Opening
             THEN LET end == FindFirst(text, i + 2, {Closing})
                      name == SubSeq(text, i + 2, end - 1)
                  IN  IF end > Len(text) THEN <<Dollar>> \o Expand[i + 1]
                      ELSE (IF name \in DOMAIN Environment THEN Environment[name] ELSE <<>>)
                           \o Expand[end]
             ELSE <<text[i]>> \o Expand[i + 1]
  IN  Expand[1]

(* expandEnvironmentVariable: ${name} becomes the value of the variable, nothing when it
   has none; a brace that is not closed is left as it is. *)
ExpandEnvironmentVariable(text) ==
  LET Expand[i \in 1..Len(text) + 1] ==
        IF i > Len(text) THEN <<>>
        ELSE IF text[i] = Dollar /\ i < Len(text) /\ text[i + 1] = Opening
             THEN LET end == FindFirst(text, i + 2, {Closing})
                      name == SubSeq(text, i + 2, end - 1)
                  IN  IF end > Len(text) THEN <<Dollar>> \o Expand[i + 1]
                      ELSE (IF name \in DOMAIN Environment THEN Environment[name] ELSE <<>>)
                           \o Expand[end + 1]
             ELSE <<text[i]>> \o Expand[i + 1]
  IN  Expand[1]

(* A specifier counts on this host if it names no host, any or this one. *)
Counts(spec) == LET colon == FindFirst(spec, 1, {Colon})
                IN  colon > Len(spec) \/ SubSeq(spec, 1, colon - 1) \in {<<AnyHost>>, <<HostName>>}

Path(spec) == LET colon == FindFirst(spec, 1, {Colon})
              IN  ExpandEnvironmentVariable(IF colon > Len(spec) THEN spec
                                            ELSE SubSeq(spec, colon + 1, Len(spec)))

(* The tgelocaldisk line: the first specifier that counts. *)
LocalDisk(root, text) ==
  LET specs == SplitBySpace(text)
      counting == {i \in DOMAIN specs : Counts(specs[i])}
      first == CHOOSE i \in counting : \A j \in counting : i <= j
  IN  IF counting = {} THEN root ELSE Path(specs[first])

(* load_application_config: no file is a failure, unknown names and lines without an
   equals sign are passed over, and the last line of a name counts. *)
SetLine(c, line) ==
  CASE line.name = "tgelocaldisk" -> [c EXCEPT !.root = LocalDisk(@, line.text)]
    [] line.name \in {"server", "port", "locksize"} -> [c EXCEPT ![line.name] = line.text]
    [] OTHER -> c

Defaults == [root |-> <<"/">>, server |-> <<>>, port |-> <<"0">>, locksize |-> <<"50000000">>]

LoadConfig(lines) == FoldLeft(SetLine, Defaults, lines)

(* createCacheDir: an absolute path, or the daemon ends. *)
Absolute(root) == root # <<>> /\ root[1] = "/"

(* main: with a file, and a cache directory that is not the root. *)
Starts(exists, lines) == /\ exists
                         /\ LoadConfig(lines).root # <<"/">>
                         /\ Absolute(LoadConfig(lines).root)

------------------------------------------------------------------------------
(* What tgefs.conf says of the line, for one pair of host and path.  A path is given in
   parts: texts, and names of variables. *)
TextOf(part) == IF part.variable THEN <<Dollar, Opening>> \o (part.text \o <<Closing>>) ELSE part.text

ValueOf(part) == IF ~part.variable THEN part.text
                 ELSE IF part.text \in DOMAIN Environment THEN Environment[part.text] ELSE <<>>

Spelt(parts) == FlattenSeq([k \in DOMAIN parts |-> TextOf(parts[k])])

Meant(parts) == FlattenSeq([k \in DOMAIN parts |-> ValueOf(parts[k])])

LineOf(pair) == [name |-> pair.name,
                 text |-> pair.blanks \o (pair.host \o Spelt(pair.parts))]

ForThisHost(pair) == pair.name = "tgelocaldisk" /\ pair.host \in {<<>>, <<AnyHost, Colon>>, <<HostName, Colon>>}

(* The cache directory is that of the last line for this host, with the values of its
   variables, whatever other lines there are and wherever variables stand in it. *)
RootMeant(pairs) ==
  LET counting == {i \in DOMAIN pairs : ForThisHost(pairs[i])}
      last == CHOOSE i \in counting : \A j \in counting : i >= j
  IN  IF counting = {} THEN Defaults.root ELSE Meant(pairs[last].parts)
================================================================================
