---------------------------- MODULE FrameReader -----------------------------
(***************************************************************************)
(* The frames a client sends (clientFrameReader, readClientFrame and       *)
(* validateClosePayload in internal/relay/websocket.go): a header is       *)
(* checked and its length decoded, fragments are put together under        *)
(* maxMessageBytes, and control frames pass between them.  It is a         *)
(* sequential algorithm: pure operators, which Bridge steps through.       *)
(*                                                                         *)
(* The widths of the length fields are constants, so that a small instance *)
(* reaches their edges: a byte has Base values, the extended lengths have  *)
(* two and LongBytes bytes, and the short form holds lengths up to Short   *)
(* (in the code 256, 8 and 125; the field values 126 and 127 are Short + 1 *)
(* and Short + 2).  The configuration allows no message limit below 65536  *)
(* (validate in internal/config/config.go), so a control frame fits.       *)
(* Operators named Mut... are variants of the operator after them with a   *)
(* plausible bug: they show that the properties can fail.                  *)
(***************************************************************************)
EXTENDS Integers, SequencesExt

CONSTANTS
    Base, LongBytes, Short,
    MaxMessage                    \* maxMessageBytes

ASSUME FrameAssumption ==
    /\ Base \in Nat /\ Base > 1 /\ LongBytes \in Nat /\ LongBytes > 2
    /\ Short \in Nat /\ Short < Base
    /\ MaxMessage \in Nat \ {0} /\ Short <= MaxMessage

Byte == 0..(Base - 1)

Power[n \in 0..LongBytes] == IF n = 0 THEN 1 ELSE Base * Power[n - 1]

(* A frame as it is on the wire.  `ext` is the extended length; `code` and  *)
(* `utf8` say what the payload of a close frame holds (two bytes of code    *)
(* and a reason).                                                           *)
Opcodes == {"continuation", "text", "binary", "close", "ping", "pong", "reserved"}

Frame == [fin : BOOLEAN, rsv : BOOLEAN, opcode : Opcodes, masked : BOOLEAN,
          len7 : 0..(Short + 2), ext : Seq(Byte), payload : Seq(Nat),
          code : Nat, utf8 : BOOLEAN]

Control == {"close", "ping", "pong"}

-----------------------------------------------------------------------------
(* readClientFrame *)

(* The loop starts from the field value 127, which is shifted out of 64 bits. *)
LongLength(f) ==
    LET n[i \in 0..LongBytes] ==
            IF i = 0 THEN f.len7 ELSE (n[i - 1] * Base + f.ext[i]) % Power[LongBytes]
    IN  n[LongBytes]

length(f) ==
    IF f.len7 = Short + 1 THEN f.ext[1] * Base + f.ext[2]
    ELSE IF f.len7 = Short + 2 THEN LongLength(f) ELSE f.len7

NonMinimal(f) ==
    \/ f.len7 = Short + 1 /\ length(f) <= Short
    \/ f.len7 = Short + 2 /\ (f.ext[1] >= Base \div 2 \/ length(f) < Power[2])

(* The error of readClientFrame as the close code it leads to, 0 for none.  *)
frameError(f) ==
    IF \/ f.rsv \/ f.opcode = "reserved" \/ ~f.masked \/ NonMinimal(f)
       \/ f.opcode \in Control /\ (~f.fin \/ length(f) > Short)
    THEN 1002
    ELSE IF length(f) > MaxMessage THEN 1009 ELSE 0

(* io.ReadFull takes exactly as many bytes as the header says. *)
payload(f) == SubSeq(f.payload, 1, length(f))

-----------------------------------------------------------------------------
(* clientFrameReader.  A reader is the flag fragmentedOpcode # 0 and the    *)
(* bytes collected; an event is what nextEvent returns, or "none" when it   *)
(* goes on to the next frame.                                               *)

Started == [open |-> FALSE, bytes |-> <<>>]

Event(kind, bytes, code) == [kind |-> kind, bytes |-> bytes, code |-> code]
Failure(code) == Event("error", <<>>, code)

MutTooLong(r, f) == Len(r.bytes) > MaxMessage

(* len(fragmented) > maxMessageBytes - len(frame.payload) *)
TooLong(r, f) == Len(r.bytes) > MaxMessage - Len(payload(f))

DataError(r, f) ==
    IF f.opcode = "text" \/ (f.opcode = "binary") = r.open THEN 1002
    ELSE IF f.opcode = "continuation" /\ TooLong(r, f) THEN 1009 ELSE 0

MutJoined(r, f) == payload(f)

Joined(r, f) == r.bytes \o payload(f)

nextEvent(r, f) ==
    IF frameError(f) # 0 THEN Failure(frameError(f))
    ELSE IF f.opcode \in Control THEN Event(f.opcode, payload(f), 0)
    ELSE IF DataError(r, f) # 0 THEN Failure(DataError(r, f))
    ELSE IF f.fin THEN Event("binary", Joined(r, f), 0) ELSE Event("none", <<>>, 0)

(* The fragments after the frame: kept by everything but a data frame. *)
fragments(r, f) ==
    IF nextEvent(r, f).kind \in {"binary", "none"}
    THEN IF f.fin THEN Started ELSE [open |-> TRUE, bytes |-> Joined(r, f)]
    ELSE r

-----------------------------------------------------------------------------
(* validateClosePayload: the code of the answer to a close frame; 0 stands  *)
(* for the client's own payload, sent back.                                 *)

validCloseCode(code) ==
    \/ code \in 3000..4999
    \/ code \in 1000..1015 /\ code \notin {1004, 1005, 1006, 1015}

MutCloseAnswer(f) == IF Len(f.payload) > 0 /\ ~validCloseCode(f.code) THEN 1002 ELSE 0

closeAnswer(f) ==
    CASE Len(payload(f)) = 0 -> 0
      [] Len(payload(f)) = 1 -> 1002
      [] OTHER -> IF ~validCloseCode(f.code) THEN 1002 ELSE IF ~f.utf8 THEN 1007 ELSE 0
=============================================================================
