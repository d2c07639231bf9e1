-------------------------- MODULE CompressionControl --------------------------
(***************************************************************************)
(* The rules that say which files are compressed (tge_compctl.cc): init    *)
(* checks the lines of tgefscc.conf and keeps the sound ones as orders,    *)
(* getCompressionType runs the orders on a path.                           *)
(*                                                                         *)
(* A line is a record: its first character, and of the rest what the code  *)
(* looks at.  A path is the sequence of its components, each a record of   *)
(* its name and of what follows the last dot in it, "" when there is none: *)
(* the loop that looks for the dot ends at the slash, and an empty         *)
(* extension is treated as none.                                           *)
(***************************************************************************)
EXTENDS Naturals, SequencesExt

Component(name, ext) == [name |-> name, ext |-> ext]

(* A condition: D with its directory, E with its extension, or neither; negated or not. *)
Below(dir) == [kind |-> "D", absolute |-> TRUE, arg |-> dir]
Extension(ext) == [kind |-> "E", arg |-> ext]
Not(condition) == [kind |-> "!", of |-> condition]

SoundAtom(c) == c.kind = "E" \/ (c.kind = "D" /\ c.absolute)

SoundCondition(c) == IF c.kind = "!" THEN SoundAtom(c.of) ELSE SoundAtom(c)

(* init: a line that is kept.  Comments are lines of the kind "#", anything unknown "?";
   bare is a 0 or 1 with nothing after it. *)
Sound(line) == \/ line.op \in {"0", "1"} /\ line.bare
               \/ line.op \in {"*", "|"} /\ SoundCondition(line.condition)
               \/ line.op = "-" /\ line.type \in {"U", "L"}

SetTo(flag) == [op |-> flag, bare |-> TRUE]
And(condition) == [op |-> "*", condition |-> condition]
Or(condition) == [op |-> "|", condition |-> condition]
Do(type) == [op |-> "-", type |-> type]

Push(orders, line) == IF Sound(line) THEN Append(orders, line) ELSE orders

(* The flag is set before the first line and before the order that ends them. *)
CompressingOrders(lines) == Append(Append(FoldLeft(Push, <<SetTo("1")>>, lines), SetTo("1")), Do("U"))

------------------------------------------------------------------------------
(* predicate.  A directory is a prefix that ends with a slash, so that it is not below
   itself; the root is the prefix of no components. *)
Holds(c, path) ==
  CASE c.kind = "D" -> Len(c.arg) < Len(path) /\ IsPrefix(c.arg, path)
    [] c.kind = "E" -> Last(path).ext = c.arg

Predicate(c, path) == IF c.kind = "!" THEN ~Holds(c.of, path) ELSE Holds(c, path)

(* Variant: an AND looks at the condition whatever the flag is. *)
FlagAfterAnd(flag, order, path) ==
  CASE order.op = "0" -> FALSE
    [] order.op = "1" -> TRUE
    [] order.op = "*" -> Predicate(order.condition, path)
    [] order.op = "|" -> flag \/ Predicate(order.condition, path)
    [] OTHER -> flag

(* The flag after an order that does not end the run. *)
FlagAfter(flag, order, path) ==
  CASE order.op = "0" -> FALSE
    [] order.op = "1" -> TRUE
    [] order.op = "*" -> flag /\ Predicate(order.condition, path)
    [] order.op = "|" -> flag \/ Predicate(order.condition, path)
    [] OTHER -> flag

(* getCompressionType: the first type that is met with the flag set. *)
Obey(r, order, path) ==
  IF r.type # "none" THEN r
  ELSE IF order.op = "-" /\ r.flag THEN [flag |-> TRUE, type |-> order.type]
  ELSE [flag |-> FlagAfter(r.flag, order, path), type |-> "none"]

GetCompressionType(lines, path) ==
  FoldLeft(LAMBDA r, order : Obey(r, order, path),
           [flag |-> FALSE, type |-> "none"], CompressingOrders(lines)).type

------------------------------------------------------------------------------
(* What the rules mean: the flag is set at a line if a line before it raised it and none
   in between lowered it. *)
Raises(line, path) == \/ line.op = "1" /\ line.bare
                      \/ line.op = "|" /\ Sound(line) /\ Predicate(line.condition, path)

Lowers(line, path) == \/ line.op = "0" /\ line.bare
                      \/ line.op = "*" /\ Sound(line) /\ ~Predicate(line.condition, path)

FlagAt(lines, i, path) ==
  \E j \in 0..i - 1 : /\ j = 0 \/ Raises(lines[j], path)
                      /\ \A k \in j + 1..i - 1 : ~Lowers(lines[k], path)

(* The compression of a path is that of the first order at which the flag is set, none if
   there is no such order, and no unsound line changes it. *)
FirstOrder(lines, path) ==
  LET orders == {i \in DOMAIN lines : lines[i].op = "-" /\ Sound(lines[i]) /\ FlagAt(lines, i, path)}
      first == CHOOSE i \in orders : \A j \in orders : i <= j
  IN  IF orders = {} THEN "U" ELSE lines[first].type
================================================================================
