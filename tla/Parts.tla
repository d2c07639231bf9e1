---------------------------------- MODULE Parts ----------------------------------
(***************************************************************************)
(* Parts of the system that share no state, with their constants and       *)
(* variables side by side, for MCParts and PartsProofs: four that are      *)
(* state machines, the compressed stream, the reader of lines, the         *)
(* compression tool and the digests; and four that compute something, the  *)
(* text of the index (Csv), the rules for compression, the configuration   *)
(* and the special files.  Recovers of LzoStream is a property of this     *)
(* module too.                                                             *)
(***************************************************************************)
EXTENDS LzoStream, Csv, CompressionControl

CONSTANTS Sent, EndOfLine, Capacity, MaxTimeouts  (* of LineReader *)

CONSTANTS Tools, Original, None                   (* of TgeLzo *)

VARIABLES toSend, wire, step, received, buffer_, size, lines, timeouts

VARIABLES mode, at, dir, level, whole, seen, infile, spoilt

CONSTANT Messages                                 (* of Sha2 *)

VARIABLES sha, pieces, begun, tot_len, final, due, schedule, working, chain, message, hashed

CONSTANT MountPoint                               (* of SpecialFiles *)

CONSTANTS HostName, Environment                   (* of AppConfig *)

VARIABLES job, question, answer                   (* of the parts that only compute *)

Reader == INSTANCE LineReader

Tool == INSTANCE TgeLzo

Digests == INSTANCE Sha2 WITH block <- begun, w <- schedule, wv <- working, h <- chain

Files == INSTANCE SpecialFiles

Config == INSTANCE AppConfig

------------------------------------------------------------------------------
(* A part that computes something is asked a question, and its calls lead to the answer. *)
Asked(j) == job = j /\ answer = <<>>

Answers(a) == answer' = a

(* Csv: the entries of the index are written to its file, and read from it at the start. *)
WriteEntry == Asked("entry") /\ Answers(<<"written", Text(question.entries)>>)

ReadEntries == job = "entry" /\ answer # <<>> /\ answer[1] = "written" /\ Answers(<<"read", Entries(answer[2])>>)

(* CompressionControl: a file is compressed as the rules say. *)
ChooseType == Asked("rules") /\ Answers(<<"type", GetCompressionType(question.lines, question.path)>>)

(* AppConfig: the daemon starts, with a file of lines that each set a cache directory, or
   without one. *)
Configure == /\ Asked("config")
             /\ LET text == [i \in DOMAIN question.pairs |-> Config!LineOf(question.pairs[i])]
                IN  Answers(<<"config", Config!LoadConfig(text), Config!Starts(question.exists, text)>>)

(* SpecialFiles: all calls are asked for a path; a level is written and read back. *)
AskPath == /\ Asked("path")
           /\ Answers(<<"answers", Files!Answers(question.path, question.to, question.beyond)>>)

WriteLog == Asked("log") /\ Answers(<<"level", Files!LevelWritten(question.level, question.byte)>>)

ReadLog == /\ job = "log" /\ answer # <<>> /\ answer[1] = "level"
           /\ Answers(<<"log", Files!ReadPieces(answer[2], question.size)>>)

------------------------------------------------------------------------------
(* LineReader: the lines are the peer's, whole and in order, however they arrive. *)
LinesInOrder == Reader!LinesInOrder

(* TgeLzo: one of the names leads to all of the data wherever the tools are killed. *)
DataSurvives == Tool!DataSurvives

(* Sha2: however a message comes in pieces, the blocks of its padding are hashed, each once
   and in order. *)
HashesPadded == Digests!HashesPadded

(* Csv: the entries of the index are read back from its file as they were. *)
EntryReadsBack == job = "entry" /\ answer # <<>> /\ answer[1] = "read" => ReadsBack(question.entries, answer[2])

(* CompressionControl: the type is that of the first sound order at which the flag is set. *)
RulesObeyed == job = "rules" /\ answer # <<>> => answer[2] = FirstOrder(question.lines, question.path)

(* AppConfig: the cache directory is the one the file names for this host, and the daemon
   starts if it is absolute and not the root. *)
ConfigHonoured ==
  job = "config" /\ answer # <<>> =>
    LET root == Config!RootMeant(question.pairs)
    IN  answer[2].root = root /\ answer[3] = (question.exists /\ Len(root) > 1 /\ root[1] = "/")

(* SpecialFiles: the calls agree on what there is below /proc and below the mount point, and
   a level written is read whole, in pieces of any size. *)
HandlersAgree == /\ job = "path" /\ answer # <<>> => Files!Agree(question.path, question.to, question.beyond, answer[2])
                 /\ job = "log" /\ answer # <<>> /\ answer[1] = "log" =>
                      answer[2] = Files!LogText(IF question.byte = 10 THEN question.level ELSE question.byte)
==================================================================================
