-------------------------------- MODULE LzoStream --------------------------------
(***************************************************************************)
(* Storing a file compressed and reading it back: copyFileWithCompression, *)
(* copyFile and copyFileWithDecompression of tge_fcopy.cc with the two     *)
(* loops of LZO and its buffer (lzocomp.cc, lzocomp.h).                    *)
(*                                                                         *)
(* A file is a sequence of cells: <<"data", byte>> of the user,            *)
(* <<"header", i>>, <<"int", n, i>> and <<"packed", block, i>> for the     *)
(* i-th byte of the header, of an int n and of a packed block.  A write    *)
(* may be short or fail, a read may fail, the process may die while it     *)
(* stores, and what is stored may be damaged.                              *)
(***************************************************************************)
EXTENDS Integers, SequencesExt

CONSTANTS InBlock,       (* lzo_inblock_length                                     *)
          FileBuffer,    (* lzo_filebuffer_length, and the buffer of a plain copy  *)
          IntLength,     (* sizeof(int)                                            *)
          HeaderLength,  (* 16 bytes, of which the first SignatureLength           *)
          SignatureLength,
          Byte,          (* the cells of a user's data                             *)
          PackedLength(_), (* of a block, what lzo1x_1_compress makes of it        *)
          Originals,     (* the data of the files                                  *)
          AnySizes,      (* the ints a place of the file with none in it may hold  *)
          MaxFaults      (* bound on writes that fail, crashes and damages         *)

LengthsAssumption ==
  /\ InBlock \in Nat \ {0} /\ FileBuffer \in Nat /\ IntLength \in Nat \ {0}
  /\ HeaderLength \in Nat \ {0} /\ SignatureLength \in 1..HeaderLength
  /\ InBlock + IntLength < FileBuffer /\ MaxFaults \in Nat

Block == UNION {[1..n -> Byte] : n \in 1..InBlock}

(* A user's data may look like a header; the other cells are those of the format. *)
DataAssumption == /\ \A b \in Block : PackedLength(b) \in Nat \ {0}
                  /\ Originals \subseteq Seq(Byte)
                  /\ \A c \in Byte : c[1] \in {"data", "header"}
                  /\ AnySizes \subseteq Int

VARIABLES original,   (* what the file is to hold                                  *)
          packing,    (* whether the rules have it stored compressed               *)
          phase,      (* the step the copying is at                                *)
          rest,       (* what has not been read yet                                *)
          inblock,    (* the array in while packing, the size while unpacking        *)
          buffer,     (* fbuffer up to fbuffer_tail                                *)
          head,       (* fbuffer_head                                              *)
          file,       (* what is stored                                            *)
          copy,       (* what is read back                                         *)
          faults      (* what went wrong so far: "store", "damage", "copy"         *)

vars == <<original, packing, phase, rest, inblock, buffer, head, file, copy, faults>>

------------------------------------------------------------------------------
(* The format. *)

Damaged == <<"damaged">>

Mark == <<"mark">>  (* DE AD BE EF, a thousand times *)

Least(m, n) == IF m < n THEN m ELSE n

First(n, cells) == SubSeq(cells, 1, Least(n, Len(cells)))

After(n, cells) == SubSeq(cells, n + 1, Len(cells))

Header == [i \in 1..HeaderLength |-> <<"header", i>>]

IntBytes(n) == [i \in 1..IntLength |-> <<"int", n, i>>]

Packed(b) == [i \in 1..PackedLength(b) |-> <<"packed", b, i>>]

(* compress: what does not get shorter is stored as it is. *)
Packs(b) == PackedLength(b) < Len(b)

Size(b) == IF Packs(b) THEN PackedLength(b) ELSE 0 - Len(b)

Payload(b) == IF Packs(b) THEN Packed(b) ELSE b

HasSignature(cells) == Len(cells) >= HeaderLength /\ First(SignatureLength, cells) = First(SignatureLength, Header)

------------------------------------------------------------------------------
(* What write does: the cells asked for, fewer, or none and an error. *)
Results(cells) == {Len(cells)} \cup IF Len(faults) < MaxFaults THEN -1..Len(cells) - 1 ELSE {}

Written(out, cells, result) == out \o First(IF result = -1 THEN 0 ELSE result, cells)

Noted(cells, result, what) == IF result = Len(cells) THEN faults ELSE Append(faults, what)

Init == /\ original \in Originals /\ packing \in BOOLEAN
        /\ phase = IF packing THEN "header" ELSE "store"
        /\ rest = original /\ inblock = <<>> /\ buffer = <<>> /\ head = 0
        /\ file = <<>> /\ copy = <<>> /\ faults = <<>>

(* copyFileWithCompression: the result of the write is not looked at. *)
WriteHeader == /\ phase = "header"
               /\ \E result \in Results(Header) :
                    /\ file' = Written(file, Header, result)
                    /\ faults' = Noted(Header, result, "store")
               /\ phase' = "read"
               /\ UNCHANGED <<original, packing, rest, inblock, buffer, head, copy>>

(* compress: the next block, until read gives nothing. *)
Read == /\ phase = "read"
        /\ inblock' = First(InBlock, rest)
        /\ rest' = After(Least(InBlock, Len(rest)), rest)
        /\ phase' = IF rest = <<>> THEN "flush" ELSE "size"
        /\ UNCHANGED <<original, packing, buffer, head, file, copy, faults>>

(* Variant: the buffer is looked at without the cells to come. *)
PutLate(cells, next) ==
  IF Len(buffer) >= FileBuffer
  THEN \E result \in Results(buffer) :
         /\ file' = Written(file, buffer, result)
         /\ faults' = Noted(buffer, result, "store")
         /\ buffer' = IF result = -1 THEN buffer ELSE cells
         /\ phase' = IF result = -1 THEN "stored" ELSE next
  ELSE /\ buffer' = buffer \o cells
       /\ phase' = next
       /\ UNCHANGED <<file, faults>>

(* put_fbuffer.  A buffer that would be full is written first; when that write is short
   the rest of it is gone all the same. *)
Put(cells, next) ==
  IF Len(buffer) + Len(cells) >= FileBuffer
  THEN \E result \in Results(buffer) :
         /\ file' = Written(file, buffer, result)
         /\ faults' = Noted(buffer, result, "store")
         /\ buffer' = IF result = -1 THEN buffer ELSE cells
         /\ phase' = IF result = -1 THEN "stored" ELSE next
  ELSE /\ buffer' = buffer \o cells
       /\ phase' = next
       /\ UNCHANGED <<file, faults>>

PutSize == /\ phase = "size"
           /\ Put(IntBytes(Size(inblock)), "payload")
           /\ UNCHANGED <<original, packing, rest, inblock, head, copy>>

PutPayload == /\ phase = "payload"
              /\ Put(Payload(inblock), "read")
              /\ UNCHANGED <<original, packing, rest, inblock, head, copy>>

(* flush_fbuffer at the end of compress; the caller does not look at the result. *)
Flush == /\ phase = "flush"
         /\ \E result \in Results(buffer) :
              /\ file' = Written(file, buffer, result)
              /\ faults' = Noted(buffer, result, "store")
         /\ phase' = "stored"
         /\ UNCHANGED <<original, packing, rest, inblock, buffer, head, copy>>

(* copyFile: one buffer after the other, and no look at the result of write. *)
Store == /\ phase = "store"
         /\ LET cells == First(FileBuffer, rest)
            IN  /\ \E result \in Results(cells) :
                     /\ file' = Written(file, cells, result)
                     /\ faults' = Noted(cells, result, "store")
                /\ rest' = After(Len(cells), rest)
                /\ phase' = IF cells = <<>> THEN "stored" ELSE "store"
         /\ UNCHANGED <<original, packing, inblock, buffer, head, copy>>

(* The daemon dies while it stores, and what it had in its buffer with it. *)
Crash == /\ phase \in {"header", "read", "size", "payload", "flush", "store"}
         /\ Len(faults) < MaxFaults
         /\ faults' = Append(faults, "store")
         /\ phase' = "stored"
         /\ UNCHANGED <<original, packing, rest, inblock, buffer, head, file, copy>>

(* A byte of a block is spoilt on its way or on the disk. *)
Damage == /\ phase = "stored" /\ Len(faults) < MaxFaults
          /\ \E i \in DOMAIN file : /\ file[i][1] \in {"data", "packed"}
                                    /\ file' = [file EXCEPT ![i] = Damaged]
          /\ faults' = Append(faults, "damage")
          /\ UNCHANGED <<original, packing, phase, rest, inblock, buffer, head, copy>>

------------------------------------------------------------------------------
(* Reading back. *)

(* copyFileWithDecompression: without the signature at its start a file is copied as it
   is, the bytes looked at first. *)
Sniff == /\ phase = "stored"
         /\ rest' = After(HeaderLength, file)
         /\ buffer' = <<>> /\ head' = 0
         /\ IF HasSignature(file)
            THEN /\ phase' = "unpack"
                 /\ UNCHANGED <<copy, faults>>
            ELSE LET cells == First(HeaderLength, file)
                 IN  /\ \E result \in Results(cells) : /\ copy' = Written(copy, cells, result)
                                                      /\ faults' = Noted(cells, result, "copy")
                     /\ phase' = "plain"
         /\ UNCHANGED <<original, packing, inblock, file>>

Plain == /\ phase = "plain"
         /\ LET cells == First(FileBuffer, rest)
            IN  /\ \E result \in Results(cells) : /\ copy' = Written(copy, cells, result)
                                                 /\ faults' = Noted(cells, result, "copy")
                /\ rest' = After(Len(cells), rest)
                /\ phase' = IF cells = <<>> THEN "copied" ELSE "plain"
         /\ UNCHANGED <<original, packing, inblock, buffer, head, file>>

(* Variant: what is left in the buffer is not moved to its start. *)
EnsuredAfresh(n) ==
  IF head + n <= Len(buffer)
  THEN {[buffer |-> buffer, head |-> head, rest |-> rest, faults |-> faults]}
  ELSE {[buffer |-> First(FileBuffer, rest), head |-> 0, rest |-> After(FileBuffer, rest),
         faults |-> faults]}

(* ensure_fbuffer: if n cells are not there, what is left moves to the start of the buffer
   and one read fills it up, or fails. *)
Ensured(n) ==
  LET kept == After(head, buffer)
      more == First(FileBuffer - Len(kept), rest)
  IN  IF head + n <= Len(buffer)
      THEN {[buffer |-> buffer, head |-> head, rest |-> rest, faults |-> faults]}
      ELSE {[buffer |-> kept \o more, head |-> 0, rest |-> After(Len(more), rest), faults |-> faults]}
           \cup {[buffer |-> kept, head |-> 0, rest |-> rest, faults |-> Append(faults, "copy")] :
                   ok \in {x \in {TRUE} : Len(faults) < MaxFaults}}

Got(e, n) == e.head + n <= Len(e.buffer)

Cells(e, n) == SubSeq(e.buffer, e.head + 1, e.head + n)

(* What an int reads as: after a hole in the file anything may stand in its place. *)
SizesRead(cells) == IF cells[1][1] = "int" /\ cells = IntBytes(cells[1][2]) THEN {cells[1][2]} ELSE AnySizes

(* decompress: the size of the next block; no int there is the end of the stream. *)
UnpackSize ==
  /\ phase = "unpack"
  /\ \E e \in Ensured(IntLength) :
       /\ buffer' = e.buffer /\ rest' = e.rest /\ faults' = e.faults
       /\ IF Got(e, IntLength)
          THEN /\ inblock' \in SizesRead(Cells(e, IntLength))
               /\ head' = e.head + IntLength
               /\ phase' = "block"
          ELSE /\ head' = e.head
               /\ phase' = "copied"
               /\ UNCHANGED inblock
  /\ UNCHANGED <<original, packing, file, copy>>

(* lzo1x_decompress_safe: the block that was packed; of anything else an error, for which
   the mark is written, or some other data. *)
IsPacked(cells) == cells[1][1] = "packed" /\ cells = Packed(cells[1][2])

Unpacked(cells) == IF IsPacked(cells) THEN {cells[1][2]} ELSE {<<Mark>>, <<Damaged>>}

(* decompress: the block. *)
UnpackBlock ==
  /\ phase = "block"
  /\ LET n == IF inblock <= 0 THEN 0 - inblock ELSE inblock
     IN \E e \in Ensured(n) :
          /\ buffer' = e.buffer /\ rest' = e.rest
          /\ IF Got(e, n)
             THEN \E data \in IF inblock <= 0 THEN {Cells(e, n)} ELSE Unpacked(Cells(e, n)) :
                  \E result \in Results(data) :
                    /\ copy' = Written(copy, data, result)
                    /\ faults' = Noted(data, result, "copy")
                    /\ head' = IF result = -1 \/ data = <<Mark>> THEN e.head ELSE e.head + n
                    /\ phase' = IF result = -1 \/ data = <<Mark>> THEN "copied" ELSE "unpack"
             ELSE /\ head' = e.head
                  /\ faults' = e.faults
                  /\ phase' = "copied"
                  /\ UNCHANGED copy
  /\ UNCHANGED <<original, packing, inblock, file>>

Next == \/ WriteHeader \/ Read \/ PutSize \/ PutPayload \/ Flush \/ Store \/ Crash \/ Damage
        \/ Sniff \/ Plain \/ UnpackSize \/ UnpackBlock

Spec == Init /\ [][Next]_vars

------------------------------------------------------------------------------
(* fbuffer is never overrun, nor read behind what is in it. *)
BufferBounded == Len(buffer) <= FileBuffer /\ head <= Len(buffer)

Blocks(data) == [k \in 1..(Len(data) + InBlock - 1) \div InBlock |->
                   SubSeq(data, (k - 1) * InBlock + 1, Least(k * InBlock, Len(data)))]

Stream(blocks) == Header \o FlattenSeq([k \in DOMAIN blocks |-> IntBytes(Size(blocks[k])) \o Payload(blocks[k])])

(* The blocks up to the first that is not whole in the file. *)
WholeBlocks == LET blocks == Blocks(original)
                   whole == {k \in 0..Len(blocks) : IsPrefix(Stream(First(k, blocks)), file)}
               IN  First(CHOOSE k \in whole : \A j \in whole : j <= k, blocks)

(* What is read back of a file stored compressed begins with all data that lie before the
   first loss, wherever blocks and ints fall in the buffer.  When only the end of the file
   is missing, nothing else is in it: so everything is read back if nothing was lost, and
   a file that was stored as it is comes back as it was.  Not so when the header is cut. *)
Recovers ==
  phase = "copied" /\ "copy" \notin Range(faults) =>
    /\ packing /\ IsPrefix(Header, file) =>
         /\ IsPrefix(FlattenSeq(WholeBlocks), copy)
         /\ IsPrefix(file, Stream(Blocks(original))) => copy = FlattenSeq(WholeBlocks)
    /\ ~packing /\ ~HasSignature(file) => copy = file
    /\ faults = <<>> /\ (packing \/ ~HasSignature(file)) => copy = original
================================================================================
