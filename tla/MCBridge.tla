------------------------------ MODULE MCBridge ------------------------------
(* Instances of Bridge: a byte has four values, lengths up to 2 are short,   *)
(* up to 15 take two more bytes and beyond that four; a message has at most  *)
(* 17 bytes.                                                                 *)
EXTENDS Bridge

(* Frames of opcode op with n bytes of payload. *)
Bytes(n) == [i \in 1..n |-> i % Base]

Header(n) ==
    IF n <= Short THEN <<n, <<>>>>
    ELSE IF n < Power[2] THEN <<Short + 1, Digits(n, 2)>> ELSE <<Short + 2, Digits(n, LongBytes)>>

Sent(op, fin, n) ==
    [fin |-> fin, rsv |-> FALSE, opcode |-> op, masked |-> TRUE,
     len7 |-> Header(n)[1], ext |-> Header(n)[2], payload |-> Bytes(n),
     code |-> 0, utf8 |-> TRUE]

SentClose(n, code, utf8) == [Sent("close", TRUE, n) EXCEPT !.code = code, !.utf8 = utf8]

(* The bridge run: one frame of each kind that the goroutines treat apart. *)
SessionFrames == {Sent("binary", TRUE, 1), Sent("ping", TRUE, 0), Sent("pong", TRUE, 0), Sent("close", TRUE, 0)}

(* The frames run: whole messages and fragments at the edges of the three    *)
(* encodings and of the size limit, frames that break one rule each, and     *)
(* close frames with every kind of payload.                                  *)
StreamFrames ==
    {Sent("binary", TRUE, n) : n \in {0, 15, 16, 18}}
    \cup {Sent("binary", FALSE, n) : n \in {2, 9}}
    \cup {Sent("continuation", TRUE, n) : n \in {8, 9}} \cup {Sent("continuation", FALSE, 3)}
    \cup {Sent("text", TRUE, 1), Sent("ping", TRUE, 2), Sent("ping", FALSE, 0), Sent("pong", TRUE, 3)}
    \cup {[Sent("binary", TRUE, 2) EXCEPT !.rsv = TRUE],
          [Sent("binary", TRUE, 2) EXCEPT !.masked = FALSE],
          [Sent("binary", TRUE, 2) EXCEPT !.opcode = "reserved"],
          [Sent("binary", TRUE, 2) EXCEPT !.len7 = 3, !.ext = Digits(2, 2)],
          [Sent("binary", TRUE, 15) EXCEPT !.len7 = 4, !.ext = Digits(15, 4)],
          [Sent("binary", TRUE, 16) EXCEPT !.ext[1] = 2]}
    \cup {SentClose(0, 0, TRUE), SentClose(1, 0, TRUE), SentClose(2, 1000, FALSE)}
    \cup {SentClose(2, c, TRUE) : c \in {999, 1000, 1006, 1014, 1015, 3000, 5000}}
=============================================================================
