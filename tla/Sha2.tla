----------------------------------- MODULE Sha2 -----------------------------------
(***************************************************************************)
(* The digests of sha2.cc, of which the names of the copies are made: how  *)
(* update and final cut a message into blocks, and the rounds of transf on *)
(* a block.  The four digests have code of their own that differs in the     *)
(* parameters below only.                                                  *)
(*                                                                         *)
(* A byte is a number, a word the set of its bits that are one.            *)
(***************************************************************************)
EXTENDS Naturals, SequencesExt

CONSTANT Messages  (* the digests to be made: <<which, the pieces of the message>> *)

Kinds == {"SHA224", "SHA256", "SHA384", "SHA512"}

MessagesAssumption == \A m \in Messages : m \in Kinds \X Seq(Seq(0..255))

VARIABLES sha,      (* which digest                                              *)
          pieces,   (* what update has not been called with yet                  *)
          block,    (* the context's block, as far as it is in use               *)
          tot_len,  (* the bytes in whole blocks                                 *)
          final,    (* whether final has been called                             *)
          due,      (* the blocks that transf has still to be done to            *)
          w, wv,    (* its words, as far as they are made, and its eight others  *)
          h,        (* the context's h                                           *)
          message,  (* all that was given, for the properties                    *)
          hashed    (* all blocks done, for the properties                       *)

vars == <<sha, pieces, block, tot_len, final, due, w, wv, h, message, hashed>>

(* A word from groups of 16 bits, the first the highest. *)
Word(groups) ==
  UNION {{16 * (Len(groups) - k) + i : i \in {j \in 0..15 : (groups[k] \div 2^j) % 2 = 1}} : k \in DOMAIN groups}

K == <<
    <<\h428a,\h2f98,\hd728,\hae22>>, <<\h7137,\h4491,\h23ef,\h65cd>>, <<\hb5c0,\hfbcf,\hec4d,\h3b2f>>,
    <<\he9b5,\hdba5,\h8189,\hdbbc>>, <<\h3956,\hc25b,\hf348,\hb538>>, <<\h59f1,\h11f1,\hb605,\hd019>>,
    <<\h923f,\h82a4,\haf19,\h4f9b>>, <<\hab1c,\h5ed5,\hda6d,\h8118>>, <<\hd807,\haa98,\ha303,\h0242>>,
    <<\h1283,\h5b01,\h4570,\h6fbe>>, <<\h2431,\h85be,\h4ee4,\hb28c>>, <<\h550c,\h7dc3,\hd5ff,\hb4e2>>,
    <<\h72be,\h5d74,\hf27b,\h896f>>, <<\h80de,\hb1fe,\h3b16,\h96b1>>, <<\h9bdc,\h06a7,\h25c7,\h1235>>,
    <<\hc19b,\hf174,\hcf69,\h2694>>, <<\he49b,\h69c1,\h9ef1,\h4ad2>>, <<\hefbe,\h4786,\h384f,\h25e3>>,
    <<\h0fc1,\h9dc6,\h8b8c,\hd5b5>>, <<\h240c,\ha1cc,\h77ac,\h9c65>>, <<\h2de9,\h2c6f,\h592b,\h0275>>,
    <<\h4a74,\h84aa,\h6ea6,\he483>>, <<\h5cb0,\ha9dc,\hbd41,\hfbd4>>, <<\h76f9,\h88da,\h8311,\h53b5>>,
    <<\h983e,\h5152,\hee66,\hdfab>>, <<\ha831,\hc66d,\h2db4,\h3210>>, <<\hb003,\h27c8,\h98fb,\h213f>>,
    <<\hbf59,\h7fc7,\hbeef,\h0ee4>>, <<\hc6e0,\h0bf3,\h3da8,\h8fc2>>, <<\hd5a7,\h9147,\h930a,\ha725>>,
    <<\h06ca,\h6351,\he003,\h826f>>, <<\h1429,\h2967,\h0a0e,\h6e70>>, <<\h27b7,\h0a85,\h46d2,\h2ffc>>,
    <<\h2e1b,\h2138,\h5c26,\hc926>>, <<\h4d2c,\h6dfc,\h5ac4,\h2aed>>, <<\h5338,\h0d13,\h9d95,\hb3df>>,
    <<\h650a,\h7354,\h8baf,\h63de>>, <<\h766a,\h0abb,\h3c77,\hb2a8>>, <<\h81c2,\hc92e,\h47ed,\haee6>>,
    <<\h9272,\h2c85,\h1482,\h353b>>, <<\ha2bf,\he8a1,\h4cf1,\h0364>>, <<\ha81a,\h664b,\hbc42,\h3001>>,
    <<\hc24b,\h8b70,\hd0f8,\h9791>>, <<\hc76c,\h51a3,\h0654,\hbe30>>, <<\hd192,\he819,\hd6ef,\h5218>>,
    <<\hd699,\h0624,\h5565,\ha910>>, <<\hf40e,\h3585,\h5771,\h202a>>, <<\h106a,\ha070,\h32bb,\hd1b8>>,
    <<\h19a4,\hc116,\hb8d2,\hd0c8>>, <<\h1e37,\h6c08,\h5141,\hab53>>, <<\h2748,\h774c,\hdf8e,\heb99>>,
    <<\h34b0,\hbcb5,\he19b,\h48a8>>, <<\h391c,\h0cb3,\hc5c9,\h5a63>>, <<\h4ed8,\haa4a,\he341,\h8acb>>,
    <<\h5b9c,\hca4f,\h7763,\he373>>, <<\h682e,\h6ff3,\hd6b2,\hb8a3>>, <<\h748f,\h82ee,\h5def,\hb2fc>>,
    <<\h78a5,\h636f,\h4317,\h2f60>>, <<\h84c8,\h7814,\ha1f0,\hab72>>, <<\h8cc7,\h0208,\h1a64,\h39ec>>,
    <<\h90be,\hfffa,\h2363,\h1e28>>, <<\ha450,\h6ceb,\hde82,\hbde9>>, <<\hbef9,\ha3f7,\hb2c6,\h7915>>,
    <<\hc671,\h78f2,\he372,\h532b>>, <<\hca27,\h3ece,\hea26,\h619c>>, <<\hd186,\hb8c7,\h21c0,\hc207>>,
    <<\heada,\h7dd6,\hcde0,\heb1e>>, <<\hf57d,\h4f7f,\hee6e,\hd178>>, <<\h06f0,\h67aa,\h7217,\h6fba>>,
    <<\h0a63,\h7dc5,\ha2c8,\h98a6>>, <<\h113f,\h9804,\hbef9,\h0dae>>, <<\h1b71,\h0b35,\h131c,\h471b>>,
    <<\h28db,\h77f5,\h2304,\h7d84>>, <<\h32ca,\hab7b,\h40c7,\h2493>>, <<\h3c9e,\hbe0a,\h15c9,\hbebc>>,
    <<\h431d,\h67c4,\h9c10,\h0d4c>>, <<\h4cc5,\hd4be,\hcb3e,\h42b6>>, <<\h597f,\h299c,\hfc65,\h7e2a>>,
    <<\h5fcb,\h6fab,\h3ad6,\hfaec>>, <<\h6c44,\h198c,\h4a47,\h5817>>>>

H512 == <<
    <<\h6a09,\he667,\hf3bc,\hc908>>, <<\hbb67,\hae85,\h84ca,\ha73b>>, <<\h3c6e,\hf372,\hfe94,\hf82b>>,
    <<\ha54f,\hf53a,\h5f1d,\h36f1>>, <<\h510e,\h527f,\hade6,\h82d1>>, <<\h9b05,\h688c,\h2b3e,\h6c1f>>,
    <<\h1f83,\hd9ab,\hfb41,\hbd6b>>, <<\h5be0,\hcd19,\h137e,\h2179>>>>

H384 == <<
    <<\hcbbb,\h9d5d,\hc105,\h9ed8>>, <<\h629a,\h292a,\h367c,\hd507>>, <<\h9159,\h015a,\h3070,\hdd17>>,
    <<\h152f,\hecd8,\hf70e,\h5939>>, <<\h6733,\h2667,\hffc0,\h0b31>>, <<\h8eb4,\h4a87,\h6858,\h1511>>,
    <<\hdb0c,\h2e0d,\h64f9,\h8fa7>>, <<\h47b5,\h481d,\hbefa,\h4fa4>>>>

Upper(words) == [j \in DOMAIN words |-> SubSeq(words[j], 1, 2)]
Lower(words) == [j \in DOMAIN words |-> SubSeq(words[j], 3, 4)]

(* The two lengths of words: their bits, the distances of the rotations (of the shift, where
   the functions F3 and F4 have it in the end), and the constants of the rounds, those for
   the short words being the upper halves of those for the long. *)
Short == [bits |-> 32, k |-> Upper(SubSeq(K, 1, 64)),
          f1 |-> <<2, 13, 22>>, f2 |-> <<6, 11, 25>>, f3 |-> <<7, 18, 3>>, f4 |-> <<17, 19, 10>>]

Long == [bits |-> 64, k |-> K,
         f1 |-> <<28, 34, 39>>, f2 |-> <<14, 18, 41>>, f3 |-> <<1, 8, 7>>, f4 |-> <<19, 61, 6>>]

SHA256 == [word |-> Short, h0 |-> Upper(H512), words |-> 8]
SHA224 == [word |-> Short, h0 |-> Lower(H384), words |-> 7]
SHA512 == [word |-> Long, h0 |-> H512, words |-> 8]
SHA384 == [word |-> Long, h0 |-> H384, words |-> 6]

Parameters == CASE sha = "SHA224" -> SHA224 [] sha = "SHA256" -> SHA256
                [] sha = "SHA384" -> SHA384 [] sha = "SHA512" -> SHA512

WordBytes == Parameters.word.bits \div 8
BlockSize == 16 * WordBytes

------------------------------------------------------------------------------
(* Words. *)

Xor(x, y) == (x \ y) \cup (y \ x)

Rotr(x, n, bits) == {(i + bits - n) % bits : i \in x}

Shfr(x, n) == {i - n : i \in {j \in x : j >= n}}

(* Three rotations, F1 and F2; two and a shift, F3 and F4. *)
Rotations(x, n, bits) == Xor(Xor(Rotr(x, n[1], bits), Rotr(x, n[2], bits)), Rotr(x, n[3], bits))

Shifted(x, n, bits) == Xor(Xor(Rotr(x, n[1], bits), Rotr(x, n[2], bits)), Shfr(x, n[3]))

CH(x, y, z) == Xor(x \cap y, z \ x)

MAJ(x, y, z) == Xor(Xor(x \cap y, x \cap z), y \cap z)

(* The sum of two words; what is carried out of the highest bit is lost. *)
Add[x \in SUBSET Nat, y \in SUBSET Nat, bits \in Nat] ==
  IF y = {} THEN x ELSE Add[Xor(x, y), {i + 1 : i \in (x \cap y) \ {bits - 1}}, bits]

Sum(words, bits) == FoldLeft(LAMBDA x, y : Add[x, y, bits], Head(words), Tail(words))

(* The i-th word of a block, PACK32 and PACK64. *)
WordOf(bytes, i) ==
  Word([k \in 1..WordBytes \div 2 |->
          LET at == (i - 1) * WordBytes + 2 * k IN 256 * bytes[at - 1] + bytes[at]])

------------------------------------------------------------------------------
Chop(bytes) ==
  [k \in 1..Len(bytes) \div BlockSize |-> SubSeq(bytes, (k - 1) * BlockSize + 1, k * BlockSize)]

(* sha256_init. *)
Init == /\ \E m \in Messages : sha = m[1] /\ pieces = m[2] /\ message = FlattenSeq(m[2])
        /\ block = <<>> /\ tot_len = 0 /\ final = FALSE
        /\ h = [i \in 1..8 |-> Word(Parameters.h0[i])]
        /\ due = <<>> /\ w = <<>> /\ wv = <<>> /\ hashed = <<>>

(* Variant: what is left after the whole blocks is taken from the start of the message. *)
UpdateUnshifted ==
  /\ due = <<>> /\ pieces # <<>>
  /\ LET all == block \o Head(pieces)
         left == Len(all) % BlockSize
     IN  /\ due' = Chop(all)
         /\ block' = SubSeq(all, 1, left)
         /\ tot_len' = tot_len + Len(all) - left
  /\ pieces' = Tail(pieces)
  /\ UNCHANGED <<sha, final, w, wv, h, message, hashed>>

(* sha256_update: the block begun is filled up and due, then the whole blocks of the
   message, and the rest begins the next. *)
Update ==
  /\ due = <<>> /\ pieces # <<>>
  /\ LET all == block \o Head(pieces)
         left == Len(all) % BlockSize
     IN  /\ due' = Chop(all)
         /\ block' = SubSeq(all, Len(all) - left + 1, Len(all))
         /\ tot_len' = tot_len + Len(all) - left
  /\ pieces' = Tail(pieces)
  /\ UNCHANGED <<sha, final, w, wv, h, message, hashed>>

Zeros(n) == [i \in 1..n |-> 0]

(* The number of bits in four bytes, whatever the room for it is. *)
LengthField(bytes) ==
  LET bits == 8 * bytes
  IN  <<(bits \div 16777216) % 256, (bits \div 65536) % 256, (bits \div 256) % 256, bits % 256>>

(* sha256_final: one block more, or two when the bit after the end and the length do not fit
   in the first. *)
Final ==
  /\ due = <<>> /\ pieces = <<>> /\ ~final
  /\ LET block_nb == IF BlockSize - 1 - 2 * WordBytes < Len(block) THEN 2 ELSE 1
     IN  due' = Chop(block \o <<128>> \o Zeros(block_nb * BlockSize - Len(block) - 5)
                           \o LengthField(tot_len + Len(block)))
  /\ final' = TRUE
  /\ UNCHANGED <<sha, pieces, block, tot_len, w, wv, h, message, hashed>>

(* transf: the eight words start as those of the context. *)
Begin == /\ due # <<>> /\ wv = <<>>
         /\ wv' = h
         /\ UNCHANGED <<sha, pieces, block, tot_len, final, due, w, h, message, hashed>>

(* The next of the words w: one of the block, or made of earlier ones (SHA256_SCR).  The code
   makes all of them before the first round, which makes no difference to them. *)
NextWord(t, j) ==
  IF j <= 16 THEN WordOf(Head(due), j)
  ELSE Sum(<<Shifted(w[j - 2], t.f4, t.bits), w[j - 7], Shifted(w[j - 15], t.f3, t.bits), w[j - 16]>>, t.bits)

(* One round: the eight words move on by one, with two sums among them. *)
Round ==
  /\ wv # <<>> /\ Len(w) < Len(Parameters.word.k)
  /\ LET t == Parameters.word
         j == Len(w) + 1
         t1 == Sum(<<wv[8], Rotations(wv[5], t.f2, t.bits), CH(wv[5], wv[6], wv[7]), Word(t.k[j]),
                     NextWord(t, j)>>, t.bits)
         t2 == Sum(<<Rotations(wv[1], t.f1, t.bits), MAJ(wv[1], wv[2], wv[3])>>, t.bits)
     IN  /\ w' = Append(w, NextWord(t, j))
         /\ wv' = <<Sum(<<t1, t2>>, t.bits), wv[1], wv[2], wv[3],
                    Sum(<<wv[4], t1>>, t.bits), wv[5], wv[6], wv[7]>>
  /\ UNCHANGED <<sha, pieces, block, tot_len, final, due, h, message, hashed>>

(* The end of a block. *)
AddUp == /\ wv # <<>> /\ Len(w) = Len(Parameters.word.k)
         /\ h' = [i \in 1..8 |-> Sum(<<h[i], wv[i]>>, Parameters.word.bits)]
         /\ w' = <<>> /\ wv' = <<>>
         /\ due' = Tail(due) /\ hashed' = Append(hashed, Head(due))
         /\ UNCHANGED <<sha, pieces, block, tot_len, final, message>>

Next == Update \/ Final \/ Begin \/ Round \/ AddUp

Spec == Init /\ [][Next]_vars

------------------------------------------------------------------------------
Done == final /\ due = <<>>

Digest == SubSeq(h, 1, Parameters.words)

(* The padding of the standard: a one bit, the least number of zeros, and the length, in
   twice the bytes of a word, of which all but the last four are zero for a message of less
   than 2^29 bytes; the code has no more than those four. *)
Padded ==
  LET field == 2 * WordBytes
      zeros == CHOOSE n \in 0..BlockSize - 1 : (Len(message) + 1 + n + field) % BlockSize = 0
  IN  message \o <<128>> \o Zeros(zeros + field - 4) \o LengthField(Len(message))

(* However a message comes in pieces, the blocks of its padding are hashed, each once and in
   order. *)
HashesPadded == Done => hashed = Chop(Padded)

(* The messages and digests of the tests in sha2.cc (TEST_VECTORS): "abc", and fourteen
   runs of letters that begin one letter on each time. *)
Ladder(n) == [k \in 1..14 * n |-> 97 + ((k - 1) \div n) + ((k - 1) % n)]

Known ==
  {[sha |-> "SHA224", message |-> <<97, 98, 99>>, digest |-> <<
        \h2309, \h7d22, \h3405, \hd822, \h8642, \ha477, \hbda2, \h55b3,
        \h2aad, \hbce4, \hbda0, \hb3f7, \he36c, \h9da7>>],
   [sha |-> "SHA224", message |-> Ladder(4), digest |-> <<
        \h7538, \h8b16, \h5127, \h76cc, \h5dba, \h5da1, \hfd89, \h0150,
        \hb0c6, \h455c, \hb4f5, \h8b19, \h5252, \h2525>>],
   [sha |-> "SHA256", message |-> <<97, 98, 99>>, digest |-> <<
        \hba78, \h16bf, \h8f01, \hcfea, \h4141, \h40de, \h5dae, \h2223,
        \hb003, \h61a3, \h9617, \h7a9c, \hb410, \hff61, \hf200, \h15ad>>],
   [sha |-> "SHA256", message |-> Ladder(4), digest |-> <<
        \h248d, \h6a61, \hd206, \h38b8, \he5c0, \h2693, \h0c3e, \h6039,
        \ha33c, \he459, \h64ff, \h2167, \hf6ec, \hedd4, \h19db, \h06c1>>],
   [sha |-> "SHA384", message |-> <<97, 98, 99>>, digest |-> <<
        \hcb00, \h753f, \h45a3, \h5e8b, \hb5a0, \h3d69, \h9ac6, \h5007,
        \h272c, \h32ab, \h0ede, \hd163, \h1a8b, \h605a, \h43ff, \h5bed,
        \h8086, \h072b, \ha1e7, \hcc23, \h58ba, \heca1, \h34c8, \h25a7>>],
   [sha |-> "SHA384", message |-> Ladder(8), digest |-> <<
        \h0933, \h0c33, \hf711, \h47e8, \h3d19, \h2fc7, \h82cd, \h1b47,
        \h5311, \h1b17, \h3b3b, \h05d2, \h2fa0, \h8086, \he3b0, \hf712,
        \hfcc7, \hc71a, \h557e, \h2db9, \h66c3, \he9fa, \h9174, \h6039>>],
   [sha |-> "SHA512", message |-> <<97, 98, 99>>, digest |-> <<
        \hddaf, \h35a1, \h9361, \h7aba, \hcc41, \h7349, \hae20, \h4131,
        \h12e6, \hfa4e, \h89a9, \h7ea2, \h0a9e, \heee6, \h4b55, \hd39a,
        \h2192, \h992a, \h274f, \hc1a8, \h36ba, \h3c23, \ha3fe, \hebbd,
        \h454d, \h4423, \h643c, \he80e, \h2a9a, \hc94f, \ha54c, \ha49f>>],
   [sha |-> "SHA512", message |-> Ladder(8), digest |-> <<
        \h8e95, \h9b75, \hdae3, \h13da, \h8cf4, \hf728, \h14fc, \h143f,
        \h8f77, \h79c6, \heb9f, \h7fa1, \h7299, \haead, \hb688, \h9018,
        \h501d, \h289e, \h4900, \hf7e4, \h331b, \h99de, \hc4b5, \h433a,
        \hc7d3, \h29ee, \hb6dd, \h2654, \h5e96, \he55b, \h874b, \he909>>]}

(* The digests of those messages are those listed there, in whatever pieces they come. *)
KnownDigests ==
  Done => \A k \in Known :
            sha = k.sha /\ message = k.message =>
              LET n == Parameters.word.bits \div 16
              IN  Digest = [i \in 1..Len(k.digest) \div n |-> Word(SubSeq(k.digest, (i - 1) * n + 1, i * n))]
================================================================================
