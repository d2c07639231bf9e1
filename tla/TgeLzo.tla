--------------------------------- MODULE TgeLzo ---------------------------------
(***************************************************************************)
(* The tools lzo and unlzo (tgelzo.cc, lzo_encode and lzo_decode) at work  *)
(* on one file: it is converted into a temporary file beside it, which is  *)
(* then given its name.  Several tools may run at once, and each may be    *)
(* killed at any time.  How the stream is made is the matter of LzoStream. *)
(***************************************************************************)
EXTENDS Naturals

CONSTANTS Tools,     (* processes                                                 *)
          Original,  (* the file as it is before any of them runs                 *)
          None       (* no file                                                   *)

ToolsAssumption == Original \notin Tools /\ None \notin Tools \cup {Original}

(* The file, by the name infilename, and infilename.temp. *)
Name == {"file", "temp"}

(* A file is known by the tool that made it. *)
File == {Original} \cup Tools

VARIABLES mode,     (* mode[p]: encode or decode                                  *)
          at,       (* at[p]: the step p is at                                    *)
          dir,      (* dir[n]: the file of that name, or None                     *)
          level,    (* level[f]: how many times f has been compressed             *)
          whole,    (* the files with all the data in them                        *)
          seen,     (* seen[p]: the file that p saw the header of                 *)
          infile,    (* infile[p]: the file p has open to read                      *)
          spoilt    (* a write came short, or a decoder read what it had not seen *)

vars == <<mode, at, dir, level, whole, seen, infile, spoilt>>

TypeOK == /\ mode \in [Tools -> {"encode", "decode"}]
          /\ at \in [Tools -> {"access", "signature", "create", "open", "convert", "unlink",
                               "rename", "ended"}]
          /\ dir \in [Name -> File \cup {None}]
          /\ level \in [File -> Nat]
          /\ whole \subseteq File
          /\ seen \in [Tools -> File \cup {None}] /\ infile \in [Tools -> File \cup {None}]
          /\ spoilt \in BOOLEAN

Init == /\ mode \in [Tools -> {"encode", "decode"}]
        /\ at = [p \in Tools |-> "access"]
        /\ dir = [n \in Name |-> IF n = "file" THEN Original ELSE None]
        /\ level \in [File -> 0..1]
        /\ \A p \in Tools : level[p] = 0
        /\ whole = {Original}
        /\ seen = [p \in Tools |-> None] /\ infile = [p \in Tools |-> None]
        /\ spoilt = FALSE

Goto(p, step) == at' = [at EXCEPT ![p] = step]

(* access: the file must exist. *)
Access(p) == /\ at[p] = "access"
             /\ Goto(p, IF dir["file"] = None THEN "ended" ELSE "signature")
             /\ UNCHANGED <<mode, dir, level, whole, seen, infile, spoilt>>

(* is_lzo_compressed_file and stat: an encoder wants a plain file, a decoder a compressed
   one; a file that is gone counts as plain and is missed by stat. *)
Signature(p) ==
  /\ at[p] = "signature"
  /\ seen' = [seen EXCEPT ![p] = dir["file"]]
  /\ Goto(p, IF dir["file"] # None /\ (mode[p] = "decode") = (level[dir["file"]] > 0)
             THEN "create" ELSE "ended")
  /\ UNCHANGED <<mode, dir, level, whole, infile, spoilt>>

(* Variant: a temporary file that is there already is used. *)
CreateAnyway(p) ==
  /\ at[p] = "create"
  /\ dir' = [dir EXCEPT !["temp"] = p]
  /\ Goto(p, "open")
  /\ UNCHANGED <<mode, level, whole, seen, infile, spoilt>>

(* The temporary file, with O_EXCL. *)
Create(p) ==
  /\ at[p] = "create"
  /\ \/ /\ dir["temp"] = None
        /\ dir' = [dir EXCEPT !["temp"] = p]
        /\ Goto(p, "open")
     \/ /\ Goto(p, "ended")
        /\ UNCHANGED dir
  /\ UNCHANGED <<mode, level, whole, seen, infile, spoilt>>

(* When the file cannot be opened the temporary one is left where it is. *)
Open(p) ==
  /\ at[p] = "open"
  /\ \/ /\ dir["file"] # None
        /\ infile' = [infile EXCEPT ![p] = dir["file"]]
        /\ spoilt' = (spoilt \/ (mode[p] = "decode" /\ seen[p] # dir["file"]))
        /\ Goto(p, "convert")
     \/ /\ Goto(p, "ended")
        /\ UNCHANGED <<infile, spoilt>>
  /\ UNCHANGED <<mode, dir, level, whole, seen>>

(* The conversion says that it has been done; a write that came short it does not notice,
   and a decoder does not notice that a file is plain. *)
Convert(p) ==
  /\ at[p] = "convert"
  /\ LET plain == mode[p] = "decode" /\ level[infile[p]] = 0
     IN  /\ level' = [level EXCEPT ![p] = IF mode[p] = "encode" THEN level[infile[p]] + 1
                                          ELSE IF plain THEN 0 ELSE level[infile[p]] - 1]
         /\ \/ /\ ~plain /\ infile[p] \in whole
               /\ whole' = whole \cup {p}
               /\ UNCHANGED spoilt
            \/ /\ spoilt' = TRUE
               /\ UNCHANGED whole
  /\ Goto(p, "unlink")
  /\ UNCHANGED <<mode, dir, seen, infile>>

(* It fails, and the temporary file is unlinked. *)
ConvertFails(p) == /\ at[p] = "convert"
                   /\ dir' = [dir EXCEPT !["temp"] = None]
                   /\ Goto(p, "ended")
                   /\ UNCHANGED <<mode, level, whole, seen, infile, spoilt>>

(* A decoder that cannot read the header leaves the temporary file. *)
ReadError(p) == /\ at[p] = "convert" /\ mode[p] = "decode"
                /\ Goto(p, "ended")
                /\ UNCHANGED <<mode, dir, level, whole, seen, infile, spoilt>>

(* The file goes, whichever has its name now; or unlink fails and both stay. *)
Unlink(p) == /\ at[p] = "unlink"
             /\ \/ /\ dir["file"] # None
                   /\ dir' = [dir EXCEPT !["file"] = None]
                   /\ Goto(p, "rename")
                \/ /\ Goto(p, "ended")
                   /\ UNCHANGED dir
             /\ UNCHANGED <<mode, level, whole, seen, infile, spoilt>>

Rename(p) == /\ at[p] = "rename"
             /\ \/ /\ dir["temp"] # None
                   /\ dir' = [dir EXCEPT !["file"] = dir["temp"], !["temp"] = None]
                \/ UNCHANGED dir
             /\ Goto(p, "ended")
             /\ UNCHANGED <<mode, level, whole, seen, infile, spoilt>>

(* The process is killed. *)
Kill(p) == /\ at[p] # "ended"
           /\ Goto(p, "ended")
           /\ UNCHANGED <<mode, dir, level, whole, seen, infile, spoilt>>

Next == \E p \in Tools : \/ Access(p) \/ Signature(p) \/ Create(p) \/ Open(p)
                         \/ Convert(p) \/ ConvertFails(p) \/ ReadError(p)
                         \/ Unlink(p) \/ Rename(p) \/ Kill(p)

Spec == Init /\ [][Next]_vars

------------------------------------------------------------------------------
(* Whatever the tools do to each other and wherever they are killed, one of the two names
   leads to all of the data, as long as no write comes short and no decoder comes after
   another that has finished between its look at the header and its open. *)
DataSurvives == ~spoilt => \E n \in Name : dir[n] \in whole

(* At most one tool works on the file: the temporary file keeps the others out. *)
OneAtWork == \A p, q \in Tools :
               at[p] \in {"open", "convert", "unlink", "rename"} /\ at[q] \in {"open", "convert", "unlink", "rename"} => p = q
================================================================================
