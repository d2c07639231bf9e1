------------------------------- MODULE LineReader -------------------------------
(***************************************************************************)
(* The two recv_line_with_timeout of socket.h: the one of the stream       *)
(* buffer_, which waits and receives, and the one of the stream, which      *)
(* cuts what it gets into lines and keeps the rest.  The network delivers  *)
(* the peer's bytes in pieces of any length and at any time.               *)
(***************************************************************************)
EXTENDS Naturals, SequencesExt

CONSTANTS Sent,       (* what the peer sends, a sequence of bytes          *)
          EndOfLine,  (* the byte that ends a line                         *)
          Capacity,   (* INITIAL_BUFFER_SIZE                               *)
          MaxTimeouts (* bound on the waits that take too long              *)

ReaderAssumption == Capacity \in Nat \ {0} /\ MaxTimeouts \in Nat

VARIABLES toSend,    (* what the peer has not sent yet                     *)
          wire,      (* what has been sent and not received                *)
          step,     (* calling or not, or waiting in the inner call       *)
          received,  (* what the inner call has received so far            *)
          buffer_,   (* buffer_, as far as it is in use                    *)
          size,      (* its size                                           *)
          lines,     (* the lines returned                                 *)
          timeouts   (* how often a wait was too long                      *)

vars == <<toSend, wire, step, received, buffer_, size, lines, timeouts>>

Init == /\ toSend = Sent /\ wire = <<>>
        /\ step = "idle"
        /\ received = <<>> /\ buffer_ = <<>> /\ size = Capacity
        /\ lines = <<>> /\ timeouts = 0

(* The network takes the next bytes. *)
Deliver == /\ toSend # <<>>
           /\ \E n \in 1..Len(toSend) : /\ wire' = wire \o SubSeq(toSend, 1, n)
                                        /\ toSend' = SubSeq(toSend, n + 1, Len(toSend))
           /\ UNCHANGED <<step, received, buffer_, size, lines, timeouts>>

Ends(bytes) == {i \in DOMAIN bytes : bytes[i] = EndOfLine}

Call == /\ step = "idle"
        /\ step' = "cut"
        /\ UNCHANGED <<toSend, wire, received, buffer_, size, lines, timeouts>>

(* Variant: what follows the line in the buffer is forgotten. *)
CutAll ==
  /\ step = "cut" /\ Ends(buffer_) # {}
  /\ LET end == CHOOSE i \in Ends(buffer_) : \A j \in Ends(buffer_) : i <= j
     IN  lines' = Append(lines, SubSeq(buffer_, 1, end - 1))
  /\ buffer_' = <<>>
  /\ step' = "idle"
  /\ UNCHANGED <<toSend, wire, received, size, timeouts>>

(* A line is there: it is returned without its end, and the rest moved to the front. *)
Cut ==
  /\ step = "cut" /\ Ends(buffer_) # {}
  /\ LET end == CHOOSE i \in Ends(buffer_) : \A j \in Ends(buffer_) : i <= j
     IN  /\ lines' = Append(lines, SubSeq(buffer_, 1, end - 1))
         /\ buffer_' = SubSeq(buffer_, end + 1, Len(buffer_))
  /\ step' = "idle"
  /\ UNCHANGED <<toSend, wire, received, size, timeouts>>

(* No line: a full buffer gets twice its size, and more is received. *)
Want == /\ step = "cut" /\ Ends(buffer_) = {}
        /\ step' = "wait"
        /\ size' = IF Len(buffer_) = size THEN 2 * size ELSE size
        /\ received' = <<>>
        /\ UNCHANGED <<toSend, wire, buffer_, lines, timeouts>>

(* The inner call: bytes are there and as many as fit are received, or fewer. *)
Receive ==
  /\ step = "wait" /\ wire # <<>>
  /\ \E n \in 1..Len(wire) :
       /\ Len(buffer_) + Len(received) + n <= size
       /\ wire' = SubSeq(wire, n + 1, Len(wire))
       /\ LET more == SubSeq(wire, 1, n)
          IN  IF Ends(more) # {} \/ Len(buffer_) + Len(received) + n = size
              THEN /\ buffer_' = buffer_ \o received \o more
                   /\ received' = <<>>
                   /\ step' = "cut"
              ELSE /\ received' = received \o more
                   /\ UNCHANGED <<buffer_, step>>
  /\ UNCHANGED <<toSend, size, lines, timeouts>>

(* select has waited for long enough.  The inner call returns what it has, and the outer
   goes on with it; if that is nothing the outer returns, and there is no line. *)
Timeout ==
  /\ step = "wait" /\ wire = <<>> /\ timeouts < MaxTimeouts
  /\ buffer_' = buffer_ \o received
  /\ received' = <<>>
  /\ step' = IF received = <<>> THEN "idle" ELSE "cut"
  /\ timeouts' = timeouts + 1
  /\ UNCHANGED <<toSend, wire, size, lines>>

(* select or recv fails: what the inner call has received is lost, what was in the buffer
   before comes as a last line. *)
Error ==
  /\ step = "wait"
  /\ lines' = IF buffer_ = <<>> THEN lines ELSE Append(lines, buffer_)
  /\ buffer_' = <<>> /\ received' = <<>>
  /\ step' = "broken"
  /\ UNCHANGED <<toSend, wire, size, timeouts>>

(* The peer has hung up: recv gives nothing, which counts as no error and no end of a line,
   and the inner call asks again, for ever. *)
Spin == /\ step = "wait" /\ wire = <<>> /\ toSend = <<>>
        /\ UNCHANGED vars

Next == Deliver \/ Call \/ Cut \/ Want \/ Receive \/ Timeout \/ Error \/ Spin

Spec == Init /\ [][Next]_vars

------------------------------------------------------------------------------
WithEnds(texts) == FlattenSeq([k \in DOMAIN texts |-> Append(texts[k], EndOfLine)])

(* However the bytes fall into pieces and wherever a call gives up waiting, the lines are
   the peer's, whole and in order, and what has not been returned is still there; until an
   error, after which the last of them may be the start of a line. *)
LinesInOrder ==
  IF step # "broken"
  THEN Sent = WithEnds(lines) \o buffer_ \o received \o wire \o toSend
  ELSE lines # <<>> => IsPrefix(WithEnds(Front(lines)) \o Last(lines), Sent)
================================================================================
