---------------------------------- MODULE Csv ----------------------------------
(***************************************************************************)
(* The lines of localfiles.csv as text: convertToCSV, getline and CSVParse *)
(* of tge_cache.cc.  A text is a sequence of characters, of which only the *)
(* comma, the double quote and the line feed are told apart.  IsKanji is   *)
(* constantly false there, so the second bytes it would skip never occur.  *)
(* An entry is the name of a copy and the path it is for.                  *)
(***************************************************************************)
EXTENDS Naturals, SequencesExt

Comma == ","
Quote == "\""
LineFeed == "\n"

(* A field with a comma or a quote is put between quotes, and its quotes are doubled.  A
   line feed is not looked for. *)
NeedsQuotes(field) == \E i \in DOMAIN field : field[i] \in {Comma, Quote}

DoubledChar(text, ch) == text \o IF ch = Quote THEN <<Quote, Quote>> ELSE <<ch>>

Doubled(field) == FoldLeft(DoubledChar, <<>>, field)

(* Variant: quotes are not doubled. *)
FieldUndoubled(field) == IF NeedsQuotes(field) THEN <<Quote>> \o field \o <<Quote>> ELSE field

Field(field) == IF NeedsQuotes(field) THEN <<Quote>> \o Doubled(field) \o <<Quote>> ELSE field

(* Every caller gives it two fields. *)
ConvertToCSV(entry) == Field(entry[1]) \o <<Comma>> \o Field(entry[2])

(* The file, written line by line. *)
AddLine(text, entry) == text \o (ConvertToCSV(entry) \o <<LineFeed>>)

Text(entries) == FoldLeft(AddLine, <<>>, entries)

------------------------------------------------------------------------------
(* CSVParse: what it has read, and the field it is in.  After a closing quote it stays in
   State 2 for the rest of the line: no later quote opens a field. *)

Keep(r, ch) == [r EXCEPT !.field = Append(@, ch)]

EndField(r) == [fields |-> Append(r.fields, r.field), field |-> <<>>, state |-> r.state]

CSVChar(r, ch) ==
  CASE r.state = 0 /\ ch = Quote -> [r EXCEPT !.state = 1]
    [] r.state = 1 /\ ch = Quote -> [r EXCEPT !.state = 2]
    [] r.state = 2 /\ ch = Quote -> [Keep(r, ch) EXCEPT !.state = 1]
    [] r.state # 1 /\ ch = Comma -> EndField(r)
    [] OTHER -> Keep(r, ch)

CSVParse(line) ==
  EndField(FoldLeft(CSVChar, [fields |-> <<>>, field |-> <<>>, state |-> 0], line)).fields

(* getline: what a line feed ends is a line, and what comes after the last one if there is
   something. *)
GetChar(r, ch) == IF ch = LineFeed THEN [lines |-> Append(r.lines, r.line), line |-> <<>>]
                  ELSE [r EXCEPT !.line = Append(@, ch)]

GetLines(text) ==
  LET r == FoldLeft(GetChar, [lines |-> <<>>, line |-> <<>>], text)
  IN  IF r.line = <<>> THEN r.lines ELSE Append(r.lines, r.line)

(* initLocalFileCollection: the entries the file is read back as; a line that is empty, or
   has one field, is none, and a third field is not looked at. *)
AddEntry(entries, line) ==
  LET fields == CSVParse(line)
  IN  IF Len(fields) >= 2 THEN Append(entries, <<fields[1], fields[2]>>) ELSE entries

Entries(text) == FoldLeft(AddEntry, <<>>, GetLines(text))

------------------------------------------------------------------------------
Feeds(field) == \E i \in DOMAIN field : field[i] = LineFeed

(* When both fields are quoted the path comes back with one quote in front. *)
AsRead(entry) == IF NeedsQuotes(entry[1]) /\ NeedsQuotes(entry[2])
                 THEN <<entry[1], <<Quote>> \o entry[2]>>
                 ELSE <<entry[1], entry[2]>>

(* The entries written to the file are read back as they were and in their order, whatever
   quotes and commas are in the paths, as long as they have no line feeds and the name of a
   copy, a digest below the cache directory, needs no quotes.  When name and path both do,
   the path comes back as another one: but the name is always right. *)
ReadsBack(entries, read) ==
  (\A k \in DOMAIN entries : ~Feeds(entries[k][1]) /\ ~Feeds(entries[k][2])) =>
     read = [k \in DOMAIN entries |-> AsRead(entries[k])]
================================================================================
