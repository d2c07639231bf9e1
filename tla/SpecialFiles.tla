------------------------------- MODULE SpecialFiles -------------------------------
(***************************************************************************)
(* What the handlers of tgefs.cc answer before they come to the files they *)
(* are asked for: paths below the daemon's own mount point are refused,    *)
(* and below /proc there are three files the daemon makes up.              *)
(*                                                                         *)
(* A path is a sequence of pieces: the slash, single characters, and the   *)
(* names that are compared as a whole.                                     *)
(***************************************************************************)
EXTENDS Naturals, SequencesExt

CONSTANT MountPoint  (* canonicalMountPoint, without the slash main puts after it *)

Slash == "/"
Proc == <<Slash, "proc">>
Files == {"tgefs", "tgefslog", "tgefscache"}

(* isRecursiveFilePath looks at the second character after the mount point: a path that has
   just one more is refused, and so is what lies below it, but not what lies below the mount
   point.  Of the mount point itself it reads what comes after the end: beyond. *)
IsRecursiveFilePath(path, beyond) ==
  /\ IsPrefix(MountPoint, path)
  /\ CASE Len(path) = Len(MountPoint) -> beyond \in {Slash, "end"}
       [] Len(path) = Len(MountPoint) + 1 -> TRUE
       [] OTHER -> path[Len(MountPoint) + 2] = Slash

IsSpecialPath(path) == IsPrefix(Proc, path) /\ (Len(path) > 2 => path[3] = Slash)

(* getSpecialPath is one of the three files, the directory, or neither. *)
IsFile(path) == Len(path) = 4 /\ IsPrefix(Proc, path) /\ path[3] = Slash /\ path[4] \in Files

Changes == {"mknod", "mkdir", "unlink", "rmdir", "symlink", "rename", "link", "chmod", "chown", "utimens"}
Asks == {"getattr", "access", "open", "readlink", "statfs"}
Attributes == {"getxattr", "listxattr", "removexattr"}
OfTwo == {"symlink", "rename", "link"}
Calls == Changes \cup Asks \cup Attributes \cup {"readdir", "truncate", "setxattr"}

(* Variant: access knows no special files. *)
SpecialForgotten(call, path) ==
  CASE call \in Changes -> "EPERM"
    [] call = "setxattr" -> "ENOTSUP"
    [] call = "truncate" -> IF IsFile(path) /\ path[4] # "tgefs" THEN "ok" ELSE "EPERM"
    [] call = "readdir" -> IF path = Proc THEN "names" ELSE "ENOENT"
    [] OTHER -> IF IsFile(path) THEN (IF call \in Attributes THEN "ENOTSUP" ELSE IF call = "access" THEN "system" ELSE "ok")
                ELSE IF path = Proc THEN "system" ELSE "ENOENT"

(* The answers below /proc.  The directory itself the system is asked for, but its names are
   those of the three files.  setxattr returns ENOTSUP without the minus sign; truncate is
   asked for the size 0, as for any other it says EPERM. *)
Special(call, path) ==
  CASE call \in Changes -> "EPERM"
    [] call = "setxattr" -> "ENOTSUP"
    [] call = "truncate" -> IF IsFile(path) /\ path[4] # "tgefs" THEN "ok" ELSE "EPERM"
    [] call = "readdir" -> IF path = Proc THEN "names" ELSE "ENOENT"
    [] OTHER -> IF IsFile(path) THEN (IF call \in Attributes THEN "ENOTSUP" ELSE "ok")
                ELSE IF path = Proc THEN "system" ELSE "ENOENT"

Answer(call, path, beyond) ==
  IF IsRecursiveFilePath(path, beyond) THEN "ENOENT"
  ELSE IF IsSpecialPath(path) THEN Special(call, path) ELSE "system"

(* symlink, rename and link refuse a second path at their own mount point; that it lies
   below /proc they do not see. *)
AnswerOfTwo(call, from, to, beyond) ==
  IF ~IsRecursiveFilePath(from, beyond) /\ IsRecursiveFilePath(to, beyond) THEN "EPERM"
  ELSE Answer(call, from, beyond)

Answers(path, to, beyond) ==
  [call \in Calls |-> IF call \in OfTwo THEN AnswerOfTwo(call, path, to, beyond)
                                        ELSE Answer(call, path, beyond)]

------------------------------------------------------------------------------
(* The text of /proc/tgefslog, and the size getattr computes for it. *)

Digits(n) == LET D[k \in Nat] == IF k < 10 THEN <<k>> ELSE D[k \div 10] \o <<k % 10>> IN D[n]

LogText(level) == Digits(level) \o <<"\n">>

LogSize(level) ==
  LET Sz[t \in Nat] == IF t = 0 THEN 0 ELSE 1 + Sz[t \div 10]
  IN  (IF Sz[level] = 0 THEN 1 ELSE Sz[level]) + 1

(* tgefs_read: what is left from offset on, size at most. *)
ReadAt(text, offset, size) ==
  IF offset < Len(text) THEN SubSeq(text, offset + 1, IF Len(text) - offset <= size THEN Len(text) ELSE offset + size)
  ELSE <<>>

(* A reader that reads as much as getattr says there is, in pieces. *)
ReadPieces(level, size) ==
  FlattenSeq([k \in 1..(LogSize(level) + size - 1) \div size |-> ReadAt(LogText(level), (k - 1) * size, size)])

(* tgefs_write: the first byte of what is written, if it is a digit, is the new level; any
   other, 10 for instance, changes nothing. *)
LevelWritten(level, byte) == IF byte \in 0..9 THEN byte ELSE level

------------------------------------------------------------------------------
(* The handlers agree on what there is: what getattr shows can be opened and looked at, of
   what it does not show no call but a change says anything else, no call changes anything
   below /proc, and every path that is not there goes to the system, for all calls alike. *)
Agree(path, to, beyond, answers) ==
  /\ answers["getattr"] = "ok" => /\ \A call \in Asks : answers[call] = "ok"
                                  /\ \A call \in Attributes : answers[call] = "ENOTSUP"
  /\ answers["getattr"] = "ENOENT" => \A call \in Asks \cup Attributes \cup {"readdir"} : answers[call] = "ENOENT"
  /\ answers["getattr"] = "system" /\ path # Proc =>
       /\ \A call \in Calls \ OfTwo : answers[call] = "system"
       /\ \A call \in OfTwo : answers[call] = IF IsRecursiveFilePath(to, beyond) THEN "EPERM" ELSE "system"
  /\ IsSpecialPath(path) => \A call \in Changes : answers[call] \in {"EPERM", "ENOENT"}
==================================================================================
