---------------------------------- MODULE Lzo1x ----------------------------------
(***************************************************************************)
(* lzo1x_1_compress and lzo1x_decompress_safe (minilzo.c), byte for byte.  *)
(* The dictionary of the compressor is memory nobody clears and may hold   *)
(* any earlier position or none: what it offers is a choice, and the       *)
(* compressor has as many outcomes as there are choices.                   *)
(*                                                                         *)
(* Positions count from 1, so that ip is the number of bytes before *ip in *)
(* the compressor and the index of *ip in the decompressor.                *)
(***************************************************************************)
EXTENDS Integers, SequencesExt

CONSTANT Offers(_, _)  (* the offsets the dictionary may offer for the data at ip *)

M2MaxLen == 8
M2MaxOffset == 2048
M3MaxLen == 33
M3MaxOffset == 16384
M4MaxLen == 9
M4MaxOffset == 49151

M3Marker == 32
M4Marker == 16

------------------------------------------------------------------------------
(* Compressing. *)

(* A count that does not fit in its token: a zero for each 255 of it, and what is left. *)
LongCount(n) == [i \in 1..(n - 1) \div 255 |-> 0] \o <<((n - 1) % 255) + 1>>

(* The literals before a match, or at the end.  Up to three are counted in the two free
   bits of the byte before the last, that of the match they follow. *)
LiteralRun(out, literals) ==
  LET t == Len(literals)
  IN  CASE t = 0  -> out
        [] t \in 1..3  -> [out EXCEPT ![Len(out) - 1] = @ + t] \o literals
        [] t \in 4..18 -> out \o <<t - 3>> \o literals
        [] OTHER  -> out \o <<0>> \o LongCount(t - 18) \o literals

OffsetBytes(offset) == <<(offset % 64) * 4, (offset \div 64) % 256>>

(* Variant: a match of M3 gets the offset as it is. *)
MatchTokenOffByOne(offset, length) ==
  IF length <= M2MaxLen /\ offset <= M2MaxOffset
  THEN <<(length - 1) * 32 + ((offset - 1) % 8) * 4, (offset - 1) \div 8>>
  ELSE IF offset <= M3MaxOffset
  THEN (IF length <= M3MaxLen THEN <<M3Marker + length - 2>>
                              ELSE <<M3Marker>> \o LongCount(length - M3MaxLen))
       \o OffsetBytes(offset)
  ELSE LET far == offset - 16384
           marker == M4Marker + 8 * (far \div 16384)
       IN  (IF length <= M4MaxLen THEN <<marker + length - 2>>
                                  ELSE <<marker>> \o LongCount(length - M4MaxLen))
           \o OffsetBytes(far)

(* A match, by its length and how far back it lies. *)
MatchToken(offset, length) ==
  IF length <= M2MaxLen /\ offset <= M2MaxOffset
  THEN <<(length - 1) * 32 + ((offset - 1) % 8) * 4, (offset - 1) \div 8>>
  ELSE IF offset <= M3MaxOffset
  THEN (IF length <= M3MaxLen THEN <<M3Marker + length - 2>>
                              ELSE <<M3Marker>> \o LongCount(length - M3MaxLen))
       \o OffsetBytes(offset - 1)
  ELSE LET far == offset - 16384
           marker == M4Marker + 8 * (far \div 16384)
       IN  (IF length <= M4MaxLen THEN <<marker + length - 2>>
                                  ELSE <<marker>> \o LongCount(length - M4MaxLen))
           \o OffsetBytes(far)

(* How many bytes at ip are those that lie offset before them, to the end of the data. *)
MatchLength(data, ip, offset) ==
  LET differ == {n \in 0..Len(data) - ip - 1 : data[ip + n + 1] # data[ip + n + 1 - offset]}
  IN  IF differ = {} THEN Len(data) - ip ELSE CHOOSE n \in differ : \A k \in differ : n <= k

(* What counts as a match: three bytes, and four when it is not near. *)
Matches(data, ip) ==
  {offset \in Offers(data, ip) :
     /\ offset \in 1..ip /\ offset <= M4MaxOffset
     /\ MatchLength(data, ip, offset) >= IF offset <= M2MaxOffset THEN 3 ELSE 4}

(* do_compress from ip on, the literals since ii being due: the bytes put out, and where
   the literals begin that are left. *)
RECURSIVE DoCompress(_, _, _, _)
DoCompress(data, ip, ii, out) ==
  LET ends(next) == next >= Len(data) - M2MaxLen - 5
      literal == IF ends(ip + 1) THEN {[out |-> out, ii |-> ii]}
                 ELSE DoCompress(data, ip + 1, ii, out)
      matched(offset) ==
        LET length == MatchLength(data, ip, offset)
            next == ip + length
            put == LiteralRun(out, SubSeq(data, ii + 1, ip)) \o MatchToken(offset, length)
        IN  IF ends(next) THEN {[out |-> put, ii |-> next]} ELSE DoCompress(data, next, next, put)
  IN  literal \cup UNION {matched(offset) : offset \in Matches(data, ip)}

(* The literals at the end; the first of all runs has a token of its own. *)
LastRun(out, literals) ==
  IF out = <<>> /\ Len(literals) \in 1..238 THEN <<17 + Len(literals)>> \o literals
  ELSE LiteralRun(out, literals)

EndOfData == <<M4Marker + 1, 0, 0>>

(* lzo1x_1_compress: the outcomes it may have. *)
Compress(data) ==
  LET runs == IF Len(data) <= M2MaxLen + 5 THEN {[out |-> <<>>, ii |-> 0]}
              ELSE DoCompress(data, 4, 0, <<>>)
  IN  {LastRun(r.out, SubSeq(data, r.ii + 1, Len(data))) \o EndOfData : r \in runs}

------------------------------------------------------------------------------
(* Decompressing. *)

Result(status, out) == [status |-> status, out |-> out]

(* The count of the token at ip: n if that is not zero, otherwise the long form on top of
   base; next is 0 if the input ends in it. *)
Counted(in, ip, n, base) ==
  LET ends == {k \in ip + 1..Len(in) : in[k] # 0}
      last == CHOOSE k \in ends : \A j \in ends : k <= j
  IN  IF n > 0 THEN [n |-> n, next |-> ip + 1]
      ELSE IF ends = {} THEN [n |-> 0, next |-> 0]
      ELSE [n |-> base + 255 * (last - ip - 1) + in[last], next |-> last + 1]

(* The token of a match at ip: its offset, its length and what follows. *)
MatchAt(in, ip) ==
  LET t == in[ip]
      far == IF t % 16 >= 8 THEN 16384 ELSE 0
      r == IF t >= M3Marker THEN Counted(in, ip, t % 32, 31) ELSE Counted(in, ip, t % 8, 7)
      back == (in[r.next] \div 4) + in[r.next + 1] * 64
  IN  IF t >= 64
      THEN [offset |-> 1 + ((t \div 4) % 8) + in[ip + 1] * 8, length |-> (t \div 32) + 1, next |-> ip + 2]
      ELSE IF t < M4Marker THEN [offset |-> 1 + (t \div 4) + in[ip + 1] * 4, length |-> 2, next |-> ip + 2]
      ELSE IF r.next = 0 THEN [offset |-> 0, length |-> 0, next |-> 0]
      ELSE IF t >= M3Marker THEN [offset |-> 1 + back, length |-> r.n + 2, next |-> r.next + 2]
      ELSE [offset |-> IF far + back = 0 THEN 0 ELSE far + back + 16384, length |-> r.n + 2,
            next |-> r.next + 2]

(* A match copies from what is there already, itself included when it overlaps. *)
Copied(out, offset, length) ==
  out \o [i \in 1..length |-> out[Len(out) - offset + 1 + ((i - 1) % offset)]]

(* The labels of lzo1x_decompress_safe. *)
RECURSIVE Loop(_, _, _, _), FirstLiteralRun(_, _, _, _), Match(_, _, _, _), CopyMatch(_, _, _, _, _, _),
          MatchNext(_, _, _, _, _)

Loop(in, ip, out, max) ==
  LET r == Counted(in, ip, in[ip], 15)
  IN  IF ip > Len(in) THEN Result("EOF_NOT_FOUND", out)
      ELSE IF in[ip] >= M4Marker THEN Match(in, ip, out, max)
      ELSE IF r.next = 0 THEN Result("INPUT_OVERRUN", out)
      ELSE IF max - Len(out) < r.n + 3 THEN Result("OUTPUT_OVERRUN", out)
      ELSE IF Len(in) - r.next + 1 < r.n + 4 THEN Result("INPUT_OVERRUN", out)
      ELSE FirstLiteralRun(in, r.next + r.n + 3, out \o SubSeq(in, r.next, r.next + r.n + 2), max)

(* After a run of literals a match of two bytes is one of three, farther away. *)
FirstLiteralRun(in, ip, out, max) ==
  IF in[ip] >= M4Marker THEN Match(in, ip, out, max)
  ELSE CopyMatch(in, ip + 2, out, max, 1 + M2MaxOffset + (in[ip] \div 4) + in[ip + 1] * 4, 3)

Match(in, ip, out, max) ==
  LET m == MatchAt(in, ip)
  IN  IF m.next = 0 THEN Result("INPUT_OVERRUN", out)
      ELSE IF m.offset > 0 THEN CopyMatch(in, m.next, out, max, m.offset, m.length)
      ELSE Result(IF m.next = Len(in) + 1 THEN "OK"
                  ELSE IF m.next <= Len(in) THEN "INPUT_NOT_CONSUMED" ELSE "INPUT_OVERRUN", out)

(* The match, and the literals its token counts. *)
CopyMatch(in, ip, out, max, offset, length) ==
  LET t == in[ip - 2] % 4
  IN  IF offset > Len(out) THEN Result("LOOKBEHIND_OVERRUN", out)
      ELSE IF max - Len(out) < length THEN Result("OUTPUT_OVERRUN", out)
      ELSE IF t = 0 THEN Loop(in, ip, Copied(out, offset, length), max)
      ELSE MatchNext(in, ip, Copied(out, offset, length), max, t)

MatchNext(in, ip, out, max, t) ==
  IF max - Len(out) < t THEN Result("OUTPUT_OVERRUN", out)
  ELSE IF Len(in) - ip + 1 < t + 1 THEN Result("INPUT_OVERRUN", out)
  ELSE IF ip + t + 1 > Len(in) THEN Result("EOF_NOT_FOUND", out \o SubSeq(in, ip, ip + t - 1))
  ELSE Match(in, ip + t, out \o SubSeq(in, ip, ip + t - 1), max)

DecompressSafe(in, max) ==
  LET t == in[1] - 17
  IN  IF t <= 0 THEN Loop(in, 1, <<>>, max)
      ELSE IF t < 4 THEN MatchNext(in, 2, <<>>, max, t)
      ELSE IF max < t THEN Result("OUTPUT_OVERRUN", <<>>)
      ELSE IF Len(in) - 1 < t + 1 THEN Result("INPUT_OVERRUN", <<>>)
      ELSE FirstLiteralRun(in, 2 + t, SubSeq(in, 2, 1 + t), max)

------------------------------------------------------------------------------
(* Some literals, a match with bytes that lie offset before it, and some literals more: the
   data, and what do_compress puts out for them. *)
OneMatch(first, offset, length, rest) == Copied(first, offset, length) \o rest

PackedOneMatch(first, offset, length, rest) ==
  LiteralRun(LiteralRun(<<>>, first) \o MatchToken(offset, length), rest) \o EndOfData

(* What was compressed comes back, byte for byte, if there is room for it; and the
   decompressor says so if there is not. *)
ComesBack(data, max, r) ==
  IF max >= Len(data) THEN r = Result("OK", data)
  ELSE r.status = "OUTPUT_OVERRUN" /\ IsPrefix(r.out, data)
================================================================================
