---------------------------- MODULE BridgeProofs ----------------------------
(***************************************************************************)
(* One session, for every set of frames, every number of frames and pings  *)
(* and every size limit.  The heartbeat and the reader share two atomics   *)
(* without a lock: no acknowledgement is lost between them and none is     *)
(* taken for another ping's.  Telegram gets the client's messages whole,   *)
(* no more than maxMessageBytes of one is ever collected, and a stream     *)
(* that breaks the rules ends with the close code that they call for.      *)
(***************************************************************************)
EXTENDS Bridge, SequenceLemmas

-----------------------------------------------------------------------------
(* The heartbeat *)

(* f has the domain S. *)
FunctionOn(f, S) == f = [x \in S |-> f[x]]

(* The inductive invariant.  While the reader acknowledges a pong, the ping  *)
(* is the last one and the heartbeat cannot go on to the next; when it       *)
(* disarms, a newer ping is not confused with the one acknowledged.          *)
PongInv ==
    /\ FunctionOn(step, Goroutines) /\ FunctionOn(job, Writers)
    /\ sequence \in Nat /\ expectedPong \in Nat /\ acknowledgedPong \in Nat
    /\ expectedPong \in {0, sequence} /\ acknowledgedPong <= sequence
    /\ step["reader"] = "ack" => job["reader"].code = sequence /\ acknowledgedPong # sequence
    /\ step["reader"] = "swap" => job["reader"].code = acknowledgedPong
    /\ step["reader"] # "swap" /\ expectedPong # 0 => acknowledgedPong # sequence
    /\ step["heartbeat"] = "ready" => acknowledgedPong = sequence
    /\ step["heartbeat"] \in {"lock", "write", "await"} =>
          expectedPong = sequence \/ acknowledgedPong = sequence

(* Nothing has been sent yet. *)
LEMMA InitPongInv == Init => PongInv
BY DEF Init, PongInv, FunctionOn, Goroutines, Writers

(* A step of the copier or the watchdog, or of the reader or the heartbeat   *)
(* where neither handles a pong or a ping, keeps the invariant.              *)
LEMMA OtherSteps ==
    ASSUME PongInv, UNCHANGED pongs,
           FunctionOn(step', Goroutines), FunctionOn(job', Writers),
           \/ step'["reader"] = step["reader"] /\ job'["reader"] = job["reader"]
           \/ step["reader"] # "swap" /\ step'["reader"] \notin {"ack", "swap"},
           \/ step'["heartbeat"] = step["heartbeat"]
           \/ step'["heartbeat"] \in {"closing", "ended"}
           \/ step["heartbeat"] \in {"lock", "write"} /\ step'["heartbeat"] \in {"write", "await"}
    PROVE  PongInv'
BY DEF PongInv, pongs

(* Goto and Begin change the entries of one goroutine. *)
LEMMA GotoStep ==
    ASSUME PongInv, NEW p \in Goroutines, NEW s, Goto(p, s)
    PROVE  /\ FunctionOn(step', Goroutines)
           /\ step'[p] = s /\ \A q \in Goroutines : q # p => step'[q] = step[q]
BY DEF PongInv, Goto, FunctionOn

(* A goroutine that begins a job changes its own place and job only. *)
LEMMA BeginJob ==
    ASSUME PongInv, NEW p \in Writers, NEW s, NEW j, Begin(p, s, j)
    PROVE  /\ Goto(p, s)
           /\ FunctionOn(job', Writers)
           /\ job'[p] = j /\ \A q \in Writers : q # p => job'[q] = job[q]
BY DEF PongInv, Begin, FunctionOn

(* The goroutines and writers by name. *)
LEMMA Names ==
    /\ {"reader", "heartbeat"} \subseteq Goroutines /\ Writers \subseteq Goroutines
    /\ {"reader", "heartbeat"} \subseteq Writers
BY DEF Goroutines, Writers

(* Every step of the four goroutines keeps PongInv. *)
LEMMA NextPongInv == PongInv /\ [Next]_vars => PongInv'
<1> SUFFICES ASSUME PongInv, [Next]_vars PROVE PongInv'
  OBVIOUS
<1>f. FunctionOn(step, Goroutines) /\ FunctionOn(job, Writers)
  BY DEF PongInv
<1>1. ASSUME NEW p \in Goroutines, closeBoth(p) PROVE PongInv'
  BY <1>1, <1>f, OtherSteps, GotoStep, Names DEF closeBoth
<1>2. CASE disconnect
  BY <1>2, <1>f, OtherSteps DEF disconnect
<1>3. ASSUME NEW p \in Writers, lock(p) PROVE PongInv'
  BY <1>3, <1>f, OtherSteps, GotoStep, Names DEF lock
<1>4. ASSUME NEW p \in Writers, NEW ok \in BOOLEAN, write(p, ok) PROVE PongInv'
  <2> DEFINE s == IF ok THEN AfterWrite(p) ELSE "closing"
  <2>1. PICK j : Begin(p, s, j)
    BY <1>4 DEF write
  <2>2. /\ FunctionOn(step', Goroutines) /\ FunctionOn(job', Writers)
        /\ step'[p] = s /\ \A q \in Goroutines : q # p => step'[q] = step[q]
        /\ \A q \in Writers : q # p => job'[q] = job[q]
    BY <2>1, BeginJob, GotoStep, Names
  <2>3. CASE p = "heartbeat" /\ ~ok
    BY <1>4, <2>2, <2>3, Names DEF write, Disarmed, PongInv
  <2>4. CASE ~(p = "heartbeat" /\ ~ok)
    <3>1. UNCHANGED pongs
      BY <1>4, <2>4 DEF write, pongs
    <3>2. /\ step[p] = "write"
          /\ p = "heartbeat" => s = "await"
          /\ p # "heartbeat" => s \in {"closing", "lock", "read"}
      BY <1>4, <2>4 DEF write, AfterWrite
    <3> QED
      BY <2>2, <3>1, <3>2, OtherSteps, Names
  <2> QED
    BY <2>3, <2>4
<1>5. ASSUME NEW data \in BOOLEAN, NEW err \in Errors, telegramRead(data, err) PROVE PongInv'
  <2>1. PICK j : Begin("copier", "lock", j)
    BY <1>5 DEF telegramRead
  <2>2. "copier" \in Writers
    BY DEF Writers
  <2> QED
    BY <1>5, <2>1, <2>2, BeginJob, GotoStep, OtherSteps, Names DEF telegramRead
<1>6. ASSUME NEW f \in ClientFrames, NEW n \in 0..MaxPings, readFrame(f, n) PROVE PongInv'
  <2> DEFINE ev == nextEvent(frags, f)
  <2>1. step["reader"] = "read" /\ UNCHANGED pongs
    BY <1>6 DEF readFrame
  <2>2. CASE ev.kind = "pong" /\ Acknowledges(n)
    <3> DEFINE j == Work("pong", <<>>, n)
    <3>1. Begin("reader", "ack", j)
      BY <1>6, <2>2 DEF readFrame
    <3>2. j.code = n
      BY DEF Work
    <3> HIDE DEF j
    <3>3. /\ FunctionOn(step', Goroutines) /\ FunctionOn(job', Writers)
          /\ step'["reader"] = "ack" /\ step'["heartbeat"] = step["heartbeat"]
          /\ job'["reader"].code = n
      BY <3>1, <3>2, BeginJob, GotoStep, Names
    <3> QED
      BY <2>1, <2>2, <3>3 DEF Acknowledges, PongInv, pongs
  <2>3. CASE ~(ev.kind = "pong" /\ Acknowledges(n))
    <3>1. \/ UNCHANGED <<step, job>>
          \/ \E s \in {"forward", "lock"}, j \in {Work("message", ev.bytes, 0), Work("pong", <<>>, 0), CloseFor(ev, f)} :
                 Begin("reader", s, j)
      BY <1>6, <2>3 DEF readFrame
    <3>2. CASE UNCHANGED <<step, job>>
      BY <1>f, <2>1, <3>2, OtherSteps
    <3>3. ASSUME NEW s \in {"forward", "lock"}, NEW j, Begin("reader", s, j) PROVE PongInv'
      BY <2>1, <3>3, BeginJob, GotoStep, OtherSteps, Names
    <3> QED
      BY <3>1, <3>2, <3>3
  <2> QED
    BY <2>2, <2>3
<1>7. CASE readFails
  <2>1. Begin("reader", "lock", Close(1002)) /\ step["reader"] = "read" /\ UNCHANGED pongs
    BY <1>7 DEF readFails
  <2> QED
    BY <2>1, BeginJob, GotoStep, OtherSteps, Names
<1>8. ASSUME NEW ok \in BOOLEAN, forward(ok) PROVE PongInv'
  <2>1. PICK s \in {"read", "lock"}, j \in {NoJob, Close(1011)} : Begin("reader", s, j)
    BY <1>8 DEF forward
  <2> QED
    BY <1>8, <2>1, BeginJob, GotoStep, OtherSteps, Names DEF forward
<1>9. CASE acknowledge
  <2>1. /\ FunctionOn(step', Goroutines)
        /\ step'["reader"] = "swap" /\ step'["heartbeat"] = step["heartbeat"]
    BY <1>9, GotoStep, Names DEF acknowledge
  <2> QED
    BY <1>9, <1>f, <2>1 DEF acknowledge, PongInv
<1>10. CASE swap
  <2>1. Begin("reader", "read", NoJob)
    BY <1>10 DEF swap
  <2>2. /\ FunctionOn(step', Goroutines) /\ FunctionOn(job', Writers)
        /\ step'["reader"] = "read" /\ step'["heartbeat"] = step["heartbeat"]
    BY <2>1, BeginJob, GotoStep, Names
  <2> QED
    BY <1>10, <2>2 DEF swap, Swapped, PongInv
<1>11. CASE tick
  <2>1. Begin("heartbeat", "lock", Work("ping", <<>>, 0))
    BY <1>11 DEF tick
  <2>2. /\ FunctionOn(step', Goroutines) /\ FunctionOn(job', Writers)
        /\ step'["heartbeat"] = "lock" /\ step'["reader"] = step["reader"]
        /\ job'["reader"] = job["reader"]
    BY <2>1, BeginJob, GotoStep, Names
  <2> QED
    BY <1>11, <2>2 DEF tick, PongInv
<1>12. CASE pongTimeout
  <2>1. PICK s \in {"ready", "closing"} :
          /\ Goto("heartbeat", s)
          /\ s = "ready" => acknowledgedPong = sequence /\ UNCHANGED expectedPong
          /\ s = "closing" => expectedPong' = Disarmed
    BY <1>12 DEF pongTimeout
  <2>2. /\ FunctionOn(step', Goroutines)
        /\ step'["heartbeat"] = s /\ step'["reader"] = step["reader"]
    BY <2>1, GotoStep, Names
  <2> QED
    BY <1>12, <1>f, <2>1, <2>2 DEF pongTimeout, Disarmed, PongInv
<1>13. ASSUME NEW p \in Goroutines, doneClosed(p) PROVE PongInv'
  BY <1>13, <1>f, GotoStep, OtherSteps, Names DEF doneClosed
<1>14. CASE watch
  <2>1. "watchdog" \in Goroutines
    BY DEF Goroutines
  <2> QED
    BY <1>14, <1>f, <2>1, GotoStep, OtherSteps, Names DEF watch
<1>15. CASE timePasses \/ UNCHANGED vars
  BY <1>15, <1>f, OtherSteps DEF timePasses, vars
<1> QED
  BY <1>1, <1>2, <1>3, <1>4, <1>5, <1>6, <1>7, <1>8, <1>9, <1>10, <1>11, <1>12, <1>13, <1>14, <1>15
     DEF Next

(* A client that answers its pings is not taken for dead. *)
THEOREM BridgeAckNotLost == Spec => []AckNotLost
<1>1. PongInv => AckNotLost
  BY DEF PongInv, AckNotLost
<1> QED
  BY InitPongInv, NextPongInv, <1>1, PTL DEF Spec

(* Only the pong of the last ping is ever recorded. *)
THEOREM BridgeOnlyExpectedPongCounts == Spec => OnlyExpectedPongCounts
<1>1. ASSUME PongInv, [Next]_vars
      PROVE  [acknowledgedPong' # acknowledgedPong => acknowledgedPong' = sequence]_vars
  <2>1. acknowledge => acknowledgedPong' = sequence
    BY <1>1 DEF acknowledge, PongInv
  <2>2. Next => acknowledge \/ UNCHANGED acknowledgedPong
    BY DEF Next, closeBoth, disconnect, lock, write, telegramRead, readFrame, readFails, forward, swap, tick,
           pongTimeout, doneClosed, watch, timePasses, pongs
  <2> QED
    BY <1>1, <2>1, <2>2
<1> QED
  BY InitPongInv, NextPongInv, <1>1, PTL DEF Spec, OnlyExpectedPongCounts
-----------------------------------------------------------------------------
(* Messages of a stream that gets one more frame *)

Pieces(s, i) == [k \in 1..i |-> IF PartOf(s, k, i) THEN s[k].payload ELSE <<>>]

(* A stream with one frame more. *)
LEMMA AppendFrame ==
    ASSUME NEW s \in Seq(Frame), NEW f \in Frame
    PROVE  LET t == Append(s, f)
           IN  /\ t \in Seq(Frame) /\ Len(s) \in Nat /\ Len(t) = Len(s) + 1
               /\ t[Len(s) + 1] = f /\ \A i \in 1..Len(s) : t[i] = s[i]
BY AppendProperties

(* Payloads are sequences of bytes. *)
LEMMA PayloadType == \A f \in Frame : f.payload \in Seq(Nat)
BY DEF Frame

(* The pieces of a message are sequences of bytes. *)
LEMMA PiecesType ==
    ASSUME NEW s \in Seq(Frame), NEW i \in 0..Len(s)
    PROVE  Pieces(s, i) \in Seq(Seq(Nat)) /\ Len(Pieces(s, i)) = i
<1>1. Len(s) \in Nat /\ i \in Nat /\ \A k \in 1..i : s[k] \in Frame
  OBVIOUS
<1>2. \A k \in 1..i : s[k].payload \in Seq(Nat)
  BY <1>1, PayloadType
<1>3. Pieces(s, i) \in [1..i -> Seq(Nat)]
  BY <1>2 DEF Pieces
<1> QED
  BY <1>1, <1>3

(* A message that has ended is not changed by a later frame. *)
LEMMA MessageKept ==
    ASSUME NEW s \in Seq(Frame), NEW f \in Frame, NEW i \in 0..Len(s)
    PROVE  Message(Append(s, f), i) = Message(s, i)
<1> DEFINE t == Append(s, f)
<1>1. Len(s) \in Nat /\ \A k \in 1..i : k \in 1..Len(s) /\ t[k] = s[k]
  BY AppendFrame
<1> HIDE DEF t
<1>2. \A k \in 1..i : PartOf(t, k, i) <=> PartOf(s, k, i)
  <2>1. SUFFICES ASSUME NEW k \in 1..i PROVE PartOf(t, k, i) <=> PartOf(s, k, i)
    OBVIOUS
  <2>2. (\A j \in 1..k : j \in 1..i) /\ \A j \in (k + 1)..i : j \in 1..i
    BY <1>1
  <2> QED
    BY <1>1, <2>2 DEF PartOf
<1>3. Pieces(t, i) = Pieces(s, i)
  BY <1>1, <1>2 DEF Pieces
<1> QED
  BY <1>3 DEF Message, Pieces, t

(* A binary frame begins a message. *)
LEMMA MessageBegins ==
    ASSUME NEW s \in Seq(Frame), NEW f \in Frame, f.opcode = "binary"
    PROVE  Message(Append(s, f), Len(s) + 1) = f.payload
<1> DEFINE t == Append(s, f)
           n == Len(s)
           blank == [k \in 1..n |-> <<>>]
<1>1. n \in Nat /\ t[n + 1] = f /\ n + 1 \in 1..(n + 1) /\ f.payload \in Seq(Nat)
  BY AppendFrame, PayloadType
<1> HIDE DEF t
<1>2. PartOf(t, n + 1, n + 1)
  <2>1. f.opcode \in Data /\ (n + 1) + 1 > n + 1
    BY <1>1 DEF Data
  <2>2. \A j \in ((n + 1) + 1)..(n + 1) : FALSE
    BY <1>1
  <2> QED
    BY <1>1, <2>1, <2>2 DEF PartOf
<1>3. \A k \in 1..n : ~PartOf(t, k, n + 1)
  <2>1. \A k \in 1..n : n + 1 \in (k + 1)..(n + 1)
    BY <1>1
  <2> QED
    BY <1>1, <2>1 DEF PartOf
<1>4. Pieces(t, n + 1) = Append(blank, f.payload)
  <2>1. blank \in Seq(Seq(Nat)) /\ Len(blank) = n
    BY <1>1
  <2>2. Append(blank, f.payload) = [k \in 1..(n + 1) |-> IF k = n + 1 THEN f.payload ELSE <<>>]
    BY <1>1, <2>1, AppendProperties
  <2>3. Pieces(t, n + 1) = [k \in 1..(n + 1) |-> IF k = n + 1 THEN f.payload ELSE <<>>]
    <3>1. \A k \in 1..(n + 1) : k = n + 1 \/ k \in 1..n
      BY <1>1
    <3> QED
      BY <1>1, <1>2, <1>3, <3>1 DEF Pieces
  <2> QED
    BY <2>2, <2>3
<1>5. FlattenSeq(blank) = <<>>
  <2>0. blank \in Seq(Seq(Nat)) /\ Len(blank) = n
    BY <1>1
  <2>1. CASE n = 0
    <3>1. blank = <<>>
      BY <2>0, <2>1
    <3> QED
      BY <3>1, FlattenEmpty
  <2>2. CASE n # 0
    <3>1. \A k \in 1..n : blank[k] = IF k = 1 THEN blank[k] ELSE blank[k - 1] \o blank[k]
      <4>1. SUFFICES ASSUME NEW k \in 1..n, k # 1 PROVE blank[k] = blank[k - 1] \o blank[k]
        OBVIOUS
      <4>2. k - 1 \in 1..n
        BY <4>1, <1>1
      <4>3. <<>> \o <<>> = <<>>
        OBVIOUS
      <4> QED
        BY <4>2, <4>3
    <3>2. blank = [k \in 1..n |-> IF k = 1 THEN blank[k] ELSE blank[k - 1] \o blank[k]]
      BY <3>1
    <3>3. IsFlat(blank, blank)
      <4> HIDE DEF blank
      <4> QED
        BY <2>0, <3>2 DEF IsFlat
    <3>4. blank # <<>> /\ blank[n] = <<>>
      BY <2>0, <2>2, <1>1
    <3> HIDE DEF blank
    <3> QED
      BY <2>0, <3>3, <3>4, FlattenBy
  <2> QED
    BY <2>1, <2>2
<1>6. blank \in Seq(Seq(Nat))
  BY <1>1
<1>7. FlattenSeq(Append(blank, f.payload)) = <<>> \o f.payload
  <2> HIDE DEF blank
  <2> QED
    BY <1>1, <1>5, <1>6, FlattenAppend
<1>8. <<>> \o f.payload = f.payload
  BY <1>1, ConcatEmptySeq
<1> QED
  BY <1>4, <1>7, <1>8 DEF Message, Pieces, t

(* Any other frame goes on with the message, and adds to it if it has data. *)
LEMMA MessageGoesOn ==
    ASSUME NEW s \in Seq(Frame), NEW f \in Frame, f.opcode # "binary",
           \E j \in 1..Len(s) : s[j].opcode = "binary"
    PROVE  /\ Message(s, Len(s)) \in Seq(Nat)
           /\ Message(Append(s, f), Len(s) + 1) =
                 Message(s, Len(s)) \o (IF f.opcode \in Data THEN f.payload ELSE <<>>)
<1> DEFINE t == Append(s, f)
           n == Len(s)
           x == IF f.opcode \in Data THEN f.payload ELSE <<>>
<1>1. /\ n \in Nat /\ t[n + 1] = f /\ n + 1 \in 1..(n + 1) /\ x \in Seq(Nat)
      /\ t \in Seq(Frame) /\ Len(t) = n + 1
      /\ \A k \in 1..n : t[k] = s[k] /\ k \in 1..(n + 1)
  BY AppendFrame, PayloadType
<1> HIDE DEF t
<1>2. PartOf(t, n + 1, n + 1) <=> f.opcode \in Data
  <2>1. \A j \in ((n + 1) + 1)..(n + 1) : FALSE
    BY <1>1
  <2>2. \E j \in 1..(n + 1) : t[j].opcode = "binary"
    BY <1>1
  <2> QED
    BY <1>1, <2>1, <2>2 DEF PartOf
<1>3. \A k \in 1..n : PartOf(t, k, n + 1) <=> PartOf(s, k, n)
  <2>1. SUFFICES ASSUME NEW k \in 1..n PROVE PartOf(t, k, n + 1) <=> PartOf(s, k, n)
    OBVIOUS
  <2>2. /\ \A j \in 1..k : j \in 1..n
        /\ \A j \in (k + 1)..(n + 1) : (j \in 1..n /\ j \in (k + 1)..n) \/ j = n + 1
        /\ \A j \in (k + 1)..n : j \in (k + 1)..(n + 1) /\ j \in 1..n
    BY <1>1
  <2>3. (\E j \in 1..k : t[j].opcode = "binary") <=> \E j \in 1..k : s[j].opcode = "binary"
    BY <1>1, <2>2
  <2>4. (\A j \in (k + 1)..(n + 1) : t[j].opcode # "binary")
        <=> \A j \in (k + 1)..n : s[j].opcode # "binary"
    BY <1>1, <2>2
  <2> QED
    BY <1>1, <2>3, <2>4 DEF PartOf
<1>4. Pieces(s, n) \in Seq(Seq(Nat)) /\ Len(Pieces(s, n)) = n
  <2>1. n \in 0..Len(s)
    BY <1>1
  <2> QED
    BY <2>1, PiecesType
<1>5. Pieces(t, n + 1) = Append(Pieces(s, n), x)
  <2> DEFINE P == Pieces(s, n)
  <2>1. \A k \in 1..n : P[k] = IF PartOf(s, k, n) THEN s[k].payload ELSE <<>>
    BY DEF Pieces
  <2> DEFINE A == Seq(Nat)
  <2>0. P \in Seq(A) /\ Len(P) = n /\ x \in A
    BY <1>1, <1>4
  <2> HIDE DEF P, x, n, A
  <2>2. Append(P, x) = [k \in 1..(n + 1) |-> IF k = n + 1 THEN x ELSE P[k]]
    BY <2>0, AppendAsFunction
  <2> USE DEF x, n
  <2>3. ASSUME NEW k \in 1..(n + 1)
        PROVE  (IF PartOf(t, k, n + 1) THEN t[k].payload ELSE <<>>) = IF k = n + 1 THEN x ELSE P[k]
    <3>1. k = n + 1 \/ k \in 1..n
      BY <1>1
    <3>2. CASE k = n + 1
      BY <1>1, <1>2, <3>2
    <3>3. CASE k \in 1..n
      <4>1. k # n + 1
        BY <3>3, <1>1
      <4> QED
        BY <4>1, <3>3, <1>1, <1>3, <2>1
    <3> QED
      BY <3>1, <3>2, <3>3
  <2> QED
    BY <2>2, <2>3 DEF Pieces, P
<1>6. FlattenSeq(Append(Pieces(s, n), x)) = FlattenSeq(Pieces(s, n)) \o x /\ FlattenSeq(Pieces(s, n)) \in Seq(Nat)
  BY <1>1, <1>4, FlattenAppend, FlattenType
<1> QED
  BY <1>5, <1>6 DEF Message, Pieces, t

(* The complete messages: one more with each final data frame. *)
LEMMA EndsFinite ==
    ASSUME NEW s \in Seq(Frame)
    PROVE  /\ IsFiniteSet(Ends(s)) /\ Cardinality(Ends(s)) \in Nat
           /\ \A i \in Ends(s) : i \in 1..Len(s) /\ i \in Int
<1>1. Len(s) \in Nat /\ IsFiniteSet(1..Len(s))
  BY FS_Interval
<1>2. Ends(s) \in SUBSET (1..Len(s))
  BY DEF Ends
<1> QED
  BY <1>1, <1>2, FS_Subset, FS_CardinalityType

EndOf(s, k) == CHOOSE i \in Ends(s) : PlaceIn(Ends(s), i) = k

(* The k-th end of a message is the one with that place. *)
LEMMA EndOfIs ==
    ASSUME NEW s \in Seq(Frame), NEW i \in Ends(s)
    PROVE  EndOf(s, PlaceIn(Ends(s), i)) = i
<1> DEFINE S == Ends(s)
           k == PlaceIn(S, i)
           e == EndOf(s, k)
<1>1. e \in S /\ PlaceIn(S, e) = k
  BY DEF EndOf
<1>2. IsFiniteSet(S) /\ (\A x \in S : x \in Int)
  BY EndsFinite
<1>3. PlaceIn(S, e) \in Int /\ e \in Int /\ i \in Int
  <2>1. \A x \in S : PlaceIn(S, x) \in 1..Cardinality(S)
    BY <1>2, PlaceInProperties
  <2> QED
    BY <2>1, <1>1, <1>2
<1>4. ~(e < i) /\ ~(i < e)
  <2> HIDE DEF S, e
  <2>1. \A x, y \in S : x < y => PlaceIn(S, x) < PlaceIn(S, y)
    BY <1>2, PlaceInProperties
  <2> QED
    BY <2>1, <1>1, <1>3 DEF S
<1> HIDE DEF e
<1> QED
  BY <1>3, <1>4 DEF e

(* And there is one for each place. *)
LEMMA EndOfType ==
    ASSUME NEW s \in Seq(Frame), NEW k \in 1..Cardinality(Ends(s))
    PROVE  EndOf(s, k) \in Ends(s) /\ PlaceIn(Ends(s), EndOf(s, k)) = k
<1>1. \E i \in Ends(s) : PlaceIn(Ends(s), i) = k
  BY EndsFinite, PlaceInOnto
<1> QED
  BY <1>1 DEF EndOf

(* The messages of a stream, one for each end. *)
LEMMA MessagesAre ==
    ASSUME NEW s \in Seq(Frame)
    PROVE  Messages(s) = [k \in 1..Cardinality(Ends(s)) |-> Message(s, EndOf(s, k))]
BY DEF Messages, EndOf, PlaceIn

Final(f) == f.fin /\ f.opcode \in Data

(* A frame that ends a message adds one message, any other none. *)
LEMMA MessagesAppend ==
    ASSUME NEW s \in Seq(Frame), NEW f \in Frame
    PROVE  Messages(Append(s, f)) =
              IF Final(f) THEN Append(Messages(s), Message(Append(s, f), Len(s) + 1)) ELSE Messages(s)
<1> DEFINE t == Append(s, f)
           n == Len(s)
           S == Ends(s)
           T == Ends(t)
           c == Cardinality(S)
<1>1. /\ t \in Seq(Frame) /\ n \in Nat /\ Len(t) = n + 1 /\ t[n + 1] = f
      /\ \A i \in 1..n : t[i] = s[i]
  BY AppendFrame
<1> HIDE DEF t
<1>2. /\ IsFiniteSet(S) /\ c \in Nat /\ \A i \in S : i \in 1..n /\ i \in Int
      /\ IsFiniteSet(T)
  BY <1>1, EndsFinite
<1>3. CASE ~Final(f)
  <2>1. T = S
    <3>1. \A i \in 1..(n + 1) : i \in 1..n \/ i = n + 1
      BY <1>1
    <3>2. \A i \in 1..n : i \in 1..(n + 1)
      BY <1>1
    <3> QED
      BY <1>1, <1>3, <3>1, <3>2 DEF Ends, Final
  <2>2. \A k \in 1..c : EndOf(t, k) = EndOf(s, k) /\ EndOf(s, k) \in 0..n
    <3>1. \A k \in 1..c : EndOf(s, k) \in S
      BY EndOfType
    <3> QED
      BY <2>1, <3>1, <1>1, <1>2 DEF EndOf
  <2>3. \A k \in 1..c : Message(t, EndOf(t, k)) = Message(s, EndOf(s, k))
    BY <2>2, MessageKept DEF t
  <2>4. Messages(t) = [k \in 1..c |-> Message(s, EndOf(s, k))]
    BY <1>1, <2>1, <2>3, MessagesAre
  <2> QED
    BY <1>3, <2>4, MessagesAre DEF t
<1>4. CASE Final(f)
  <2>1. T = S \cup {n + 1} /\ n + 1 \notin S
    <3>1. \A i \in 1..(n + 1) : i \in 1..n \/ i = n + 1
      BY <1>1
    <3>2. (\A i \in 1..n : i \in 1..(n + 1)) /\ n + 1 \in 1..(n + 1) /\ n + 1 \notin 1..n
      BY <1>1
    <3> QED
      BY <1>1, <1>2, <1>4, <3>1, <3>2 DEF Ends, Final
  <2>2. Cardinality(T) = c + 1
    BY <1>2, <2>1, FS_AddElement
  <2>3. \A i \in S : PlaceIn(T, i) = PlaceIn(S, i)
    <3>1. \A i \in S : {y \in T : y <= i} = {y \in S : y <= i}
      BY <1>1, <1>2, <2>1
    <3> QED
      BY <3>1 DEF PlaceIn
  <2>4. PlaceIn(T, n + 1) = c + 1
    <3>1. {y \in T : y <= n + 1} = T
      BY <1>1, <1>2, <2>1
    <3> QED
      BY <3>1, <2>2 DEF PlaceIn
  <2>5. EndOf(t, c + 1) = n + 1
    BY <1>1, <2>1, <2>4, EndOfIs
  <2>6. ASSUME NEW k \in 1..c PROVE Message(t, EndOf(t, k)) = Message(s, EndOf(s, k))
    <3>1. EndOf(s, k) \in S /\ PlaceIn(S, EndOf(s, k)) = k
      BY EndOfType
    <3>2. EndOf(t, k) = EndOf(s, k)
      BY <3>1, <1>1, <2>1, <2>3, EndOfIs
    <3>3. EndOf(s, k) \in 0..n
      BY <3>1, <1>1, <1>2
    <3> QED
      BY <3>2, <3>3, MessageKept DEF t
  <2> DEFINE M == [k \in 1..c |-> Message(s, EndOf(s, k))]
             m == Message(t, n + 1)
  <2>7. Messages(s) = M
    BY MessagesAre
  <2>8. Messages(t) = [k \in 1..(c + 1) |-> IF k = c + 1 THEN m ELSE M[k]]
    <3>1. \A k \in 1..(c + 1) : k = c + 1 \/ (k \in 1..c /\ k # c + 1)
      BY <1>2
    <3>2. Messages(t) = [k \in 1..(c + 1) |-> Message(t, EndOf(t, k))]
      BY <1>1, <2>2, MessagesAre
    <3>3. \A k \in 1..(c + 1) : Message(t, EndOf(t, k)) = IF k = c + 1 THEN m ELSE M[k]
      BY <3>1, <2>5, <2>6
    <3> HIDE DEF M, m
    <3> QED
      BY <3>2, <3>3
  <2>9. Append(M, m) = [k \in 1..(c + 1) |-> IF k = c + 1 THEN m ELSE M[k]]
    <3> DEFINE A == {M[k] : k \in 1..c} \cup {m}
    <3>1. M \in [1..c -> A] /\ m \in A
      OBVIOUS
    <3> HIDE DEF M, m, A
    <3>2. M \in Seq(A) /\ Len(M) = c
      BY <3>1, <1>2
    <3> QED
      BY <3>1, <3>2, AppendAsFunction
  <2> QED
    BY <1>4, <2>7, <2>8, <2>9 DEF t
<1> QED
  BY <1>3, <1>4
-----------------------------------------------------------------------------
(* The reader *)

(* The reader has not met an error or a close frame, and may read again. *)
Alive ==
    \/ step["reader"] \in {"read", "forward", "ack", "swap"}
    \/ step["reader"] \in {"lock", "write"} /\ job["reader"].kind # "close"

(* The inductive invariant: what the reader has collected is what the stream  *)
(* holds of an unfinished message, and what Telegram has not got yet is the   *)
(* message being forwarded.  After an error nothing is read or forwarded.     *)
MessageInv ==
    /\ FunctionOn(step, Goroutines) /\ FunctionOn(job, Writers)
    /\ log \in Seq(Frame)
    /\ frags \in [open : BOOLEAN, bytes : Seq(Nat)] /\ (~frags.open => frags.bytes = <<>>)
    /\ Len(frags.bytes) <= MaxMessage
    /\ \A p \in Writers : job[p].bytes \in Seq(Nat) /\ Len(job[p].bytes) <= MaxMessage
    /\ forwarded \in Seq(Seq(Nat)) /\ IsPrefix(forwarded, Messages(log))
    /\ Alive => IF step["reader"] = "forward"
                THEN Messages(log) = Append(forwarded, job["reader"].bytes)
                ELSE Messages(log) = forwarded
    /\ Alive /\ frags.open =>
          /\ frags.bytes = Message(log, Len(log))
          /\ \E j \in 1..Len(log) : log[j].opcode = "binary"

(* Goroutines without work, or about to close, hold no bytes. *)
LEMMA NoJobTyped == NoJob.bytes = <<>> /\ NoJob.kind = "none" /\ \A c : Close(c).bytes = <<>> /\ Close(c).kind = "close"
BY DEF NoJob, Close, Work

(* No frame was read and no message collected. *)
LEMMA InitMessageInv == Init => MessageInv
<1> SUFFICES ASSUME Init PROVE MessageInv
  OBVIOUS
<1>1. FunctionOn(step, Goroutines) /\ FunctionOn(job, Writers) /\ step["reader"] = "read"
  BY DEF Init, FunctionOn, Goroutines, Writers
<1>2. log = <<>> /\ log \in Seq(Frame) /\ forwarded = <<>> /\ forwarded \in Seq(Seq(Nat))
  BY DEF Init
<1>3. Messages(<<>>) = <<>>
  <2>1. Ends(<<>>) = {}
    BY DEF Ends
  <2>2. Cardinality(Ends(<<>>)) = 0
    BY <2>1, FS_EmptySet
  <2>3. Messages(<<>>) = [k \in 1..0 |-> Message(<<>>, EndOf(<<>>, k))]
    BY <1>2, <2>2, MessagesAre
  <2>4. \A m : [k \in 1..0 |-> m[k]] = <<>>
    OBVIOUS
  <2>5. Messages(<<>>) = [k \in 1..0 |-> Messages(<<>>)[k]]
    BY <2>3
  <2> QED
    BY <2>4, <2>5
<1>4. IsPrefix(<<>>, <<>>)
  BY DEF IsPrefix
<1>5. frags \in [open : BOOLEAN, bytes : Seq(Nat)] /\ ~frags.open /\ frags.bytes = <<>> /\ Len(frags.bytes) = 0
  BY DEF Init, Started
<1>6. \A p \in Writers : job[p].bytes = <<>>
  BY NoJobTyped DEF Init
<1>7. MaxMessage \in Nat
  BY FrameAssumption
<1> QED
  BY <1>1, <1>2, <1>3, <1>4, <1>5, <1>6, <1>7 DEF MessageInv

(* The empty message is within the limit. *)
LEMMA NothingFits == <<>> \in Seq(Nat) /\ Len(<<>>) <= MaxMessage
<1>1. Len(<<>>) = 0 /\ <<>> \in Seq(Nat)
  OBVIOUS
<1>2. 0 <= MaxMessage
  BY FrameAssumption
<1> QED
  BY <1>1, <1>2

(* A step after which the reader waits, forwards or writes as before, or has  *)
(* stopped, with the same stream.                                             *)
LEMMA ReaderKeeps ==
    ASSUME MessageInv, UNCHANGED <<log, forwarded, frags>>,
           FunctionOn(step', Goroutines), FunctionOn(job', Writers),
           \A p \in Writers : job'[p].bytes = <<>> \/ job'[p] = job[p],
           Alive' => \/ Alive /\ step["reader"] # "forward" /\ step'["reader"] # "forward"
                     \/ Alive /\ step'["reader"] = step["reader"] /\ job'["reader"] = job["reader"]
    PROVE  MessageInv'
<1>1. \A p \in Writers : job[p].bytes \in Seq(Nat) /\ Len(job[p].bytes) <= MaxMessage
  BY DEF MessageInv
<1>2. \A p \in Writers : job'[p].bytes \in Seq(Nat) /\ Len(job'[p].bytes) <= MaxMessage
  BY <1>1, NothingFits
<1> QED
  BY <1>2 DEF MessageInv

(* A goroutine other than the reader does something else. *)
LEMMA OthersWork ==
    ASSUME MessageInv, UNCHANGED <<log, forwarded, frags>>,
           FunctionOn(step', Goroutines), FunctionOn(job', Writers),
           step'["reader"] = step["reader"], job'["reader"] = job["reader"],
           \A p \in Writers : job'[p].bytes = <<>> \/ job'[p] = job[p]
    PROVE  MessageInv'
BY ReaderKeeps DEF Alive

(* A goroutine that goes on changes its own place only. *)
LEMMA GotoMessage ==
    ASSUME MessageInv, NEW p \in Goroutines, NEW s, Goto(p, s)
    PROVE  /\ FunctionOn(step', Goroutines)
           /\ step'[p] = s /\ \A q \in Goroutines : q # p => step'[q] = step[q]
BY DEF MessageInv, Goto, FunctionOn

(* A goroutine that begins a job changes its own place and job only. *)
LEMMA BeginMessage ==
    ASSUME MessageInv, NEW p \in Writers, NEW s, NEW j, Begin(p, s, j)
    PROVE  /\ FunctionOn(step', Goroutines) /\ FunctionOn(job', Writers)
           /\ step'[p] = s /\ \A q \in Goroutines : q # p => step'[q] = step[q]
           /\ job'[p] = j /\ \A q \in Writers : q # p => job'[q] = job[q]
<1>1. FunctionOn(job', Writers) /\ job'[p] = j /\ \A q \in Writers : q # p => job'[q] = job[q]
  BY DEF MessageInv, Begin, FunctionOn
<1> QED
  BY <1>1, GotoMessage, Names DEF Begin

-----------------------------------------------------------------------------
(* What one frame does *)

(* The payload of a frame without an error is the one that was sent, within *)
(* the limit.                                                               *)
LEMMA PayloadWhole ==
    ASSUME NEW f \in ClientFrames, frameError(f) = 0
    PROVE  /\ f \in Frame /\ payload(f) = f.payload /\ f.payload \in Seq(Nat)
           /\ Len(f.payload) <= MaxMessage
<1>1. f \in Frame /\ length(f) = Len(f.payload)
  BY FramesAssumption DEF frameError
<1>2. f.payload \in Seq(Nat)
  BY <1>1, PayloadType
<1>3. ~(length(f) > MaxMessage)
  BY DEF frameError
<1>4. SubSeq(f.payload, 1, Len(f.payload)) = f.payload /\ Len(f.payload) \in Nat
  BY <1>2
<1> QED
  BY <1>1, <1>2, <1>3, <1>4, FrameAssumption DEF payload

(* A data frame without an error: the message so far, within the limit. *)
LEMMA DataFrame ==
    ASSUME MessageInv, Alive, NEW f \in ClientFrames, frameError(f) = 0, f.opcode \notin Control,
           DataError(frags, f) = 0
    PROVE  /\ f.opcode \in Data
           /\ Joined(frags, f) = Message(Append(log, f), Len(log) + 1)
           /\ Joined(frags, f) \in Seq(Nat) /\ Len(Joined(frags, f)) <= MaxMessage
           /\ \E j \in 1..(Len(log) + 1) : Append(log, f)[j].opcode = "binary"
<1>1. /\ f \in Frame /\ payload(f) = f.payload /\ f.payload \in Seq(Nat)
      /\ Len(f.payload) <= MaxMessage /\ Len(f.payload) \in Nat
  BY PayloadWhole
<1>2. f.opcode \in {"binary", "continuation"} /\ f.opcode \in Data
  <2>1. f.opcode # "reserved"
    BY DEF frameError
  <2>2. f.opcode # "text"
    BY DEF DataError
  <2>3. f.opcode \in Opcodes
    BY <1>1 DEF Frame
  <2> QED
    BY <2>1, <2>2, <2>3 DEF Opcodes, Control, Data
<1>3. log \in Seq(Frame) /\ frags.bytes \in Seq(Nat) /\ frags.open \in BOOLEAN
  BY DEF MessageInv
<1>4. Len(log) \in Nat /\ Append(log, f)[Len(log) + 1] = f /\ \A j \in 1..Len(log) : Append(log, f)[j] = log[j]
  BY <1>1, <1>3, AppendFrame
<1>5. CASE f.opcode = "binary"
  <2>1. ~frags.open
    BY <1>3, <1>5 DEF DataError
  <2>2. frags.bytes = <<>>
    BY <2>1 DEF MessageInv
  <2>3. <<>> \o f.payload = f.payload
    BY <1>1, ConcatEmptySeq
  <2>4. Joined(frags, f) = f.payload
    BY <1>1, <2>2, <2>3 DEF Joined
  <2>5. Message(Append(log, f), Len(log) + 1) = f.payload
    BY <1>1, <1>3, <1>5, MessageBegins
  <2>6. Len(log) + 1 \in 1..(Len(log) + 1)
    BY <1>4
  <2> QED
    BY <1>1, <1>2, <1>4, <1>5, <2>4, <2>5, <2>6
<1>6. CASE f.opcode = "continuation"
  <2>1. frags.open /\ ~TooLong(frags, f)
    BY <1>3, <1>6 DEF DataError
  <2>2. frags.bytes = Message(log, Len(log)) /\ \E j \in 1..Len(log) : log[j].opcode = "binary"
    BY <2>1 DEF MessageInv
  <2>3. Message(Append(log, f), Len(log) + 1) = Message(log, Len(log)) \o f.payload
    BY <1>1, <1>2, <1>3, <1>6, <2>2, MessageGoesOn
  <2>4. Joined(frags, f) = Message(Append(log, f), Len(log) + 1)
    BY <1>1, <2>2, <2>3 DEF Joined
  <2>5. /\ frags.bytes \o f.payload \in Seq(Nat)
        /\ Len(frags.bytes \o f.payload) = Len(frags.bytes) + Len(f.payload)
    BY <1>1, <1>3, ConcatProperties
  <2>6. ~(Len(frags.bytes) > MaxMessage - Len(f.payload)) /\ Len(frags.bytes) \in Nat /\ MaxMessage \in Nat
    BY <1>1, <1>3, <2>1, FrameAssumption DEF TooLong
  <2>7. Joined(frags, f) \in Seq(Nat) /\ Len(Joined(frags, f)) <= MaxMessage
    <3>1. Joined(frags, f) = frags.bytes \o f.payload
      BY <1>1 DEF Joined
    <3>2. Len(frags.bytes) + Len(f.payload) <= MaxMessage
      <4>1. \A a, b, m \in Nat : ~(a > m - b) => a + b <= m
        OBVIOUS
      <4>2. Len(f.payload) \in Nat
        BY <1>1
      <4> QED
        BY <2>6, <4>1, <4>2
    <3> QED
      BY <2>5, <3>1, <3>2
  <2>8. \E j \in 1..(Len(log) + 1) : Append(log, f)[j].opcode = "binary"
    <3>1. \A j \in 1..Len(log) : j \in 1..(Len(log) + 1)
      BY <1>4
    <3> QED
      BY <1>4, <2>2, <3>1
  <2> QED
    BY <1>2, <2>4, <2>7, <2>8
<1> QED
  BY <1>2, <1>5, <1>6

(* Reading a frame, whatever it is, keeps messages and fragments right. *)
LEMMA ReadFrameStep ==
    ASSUME MessageInv, NEW f \in ClientFrames, NEW n \in 0..MaxPings, readFrame(f, n),
           log' = Append(log, f)
    PROVE  MessageInv'
<1> DEFINE ev == nextEvent(frags, f)
<1>1. /\ step["reader"] = "read" /\ log' = Append(log, f) /\ frags' = fragments(frags, f)
      /\ forwarded' = forwarded /\ Alive
  BY DEF readFrame, Alive
<1>2. f \in Frame /\ log \in Seq(Frame) /\ log' \in Seq(Frame) /\ Len(log') = Len(log) + 1 /\ Len(log) \in Nat
  BY <1>1, FramesAssumption, AppendFrame DEF MessageInv
<1>3. /\ forwarded \in Seq(Seq(Nat)) /\ Messages(log) = forwarded
      /\ Messages(log') = IF Final(f) THEN Append(forwarded, Message(log', Len(log) + 1)) ELSE forwarded
  BY <1>1, <1>2, MessagesAppend DEF MessageInv
<1>4. IsPrefix(forwarded, Messages(log'))
  <2>1. IsPrefix(forwarded, forwarded)
    <3>1. SubSeq(forwarded, 1, Len(forwarded)) = forwarded /\ Len(forwarded) \in Nat
      BY <1>3
    <3> QED
      BY <3>1 DEF IsPrefix
  <2>2. IsPrefix(forwarded, Append(forwarded, Message(log', Len(log) + 1)))
    <3>1. SubSeq(Append(forwarded, Message(log', Len(log) + 1)), 1, Len(forwarded)) = forwarded
      BY <1>3
    <3>2. Len(Append(forwarded, Message(log', Len(log) + 1))) = Len(forwarded) + 1 /\ Len(forwarded) \in Nat
      BY <1>3
    <3> QED
      BY <3>1, <3>2 DEF IsPrefix
  <2> QED
    BY <1>3, <2>1, <2>2
<1>5. /\ <<>> \in Seq(Nat) /\ Len(<<>>) <= MaxMessage /\ frags \in [open : BOOLEAN, bytes : Seq(Nat)]
      /\ \A p \in Writers : job[p].bytes \in Seq(Nat) /\ Len(job[p].bytes) <= MaxMessage
  BY NothingFits DEF MessageInv
<1>6. CASE frameError(f) = 0 /\ f.opcode \notin Control /\ DataError(frags, f) = 0
  <2> DEFINE J == Joined(frags, f)
  <2>1. /\ f.opcode \in Data /\ J = Message(log', Len(log) + 1)
        /\ J \in Seq(Nat) /\ Len(J) <= MaxMessage
        /\ \E j \in 1..(Len(log) + 1) : log'[j].opcode = "binary"
    BY <1>1, <1>6, DataFrame
  <2> HIDE DEF J
  <2>2. ev = IF f.fin THEN Event("binary", J, 0) ELSE Event("none", <<>>, 0)
    BY <1>6 DEF nextEvent, J
  <2>3. ev.kind = (IF f.fin THEN "binary" ELSE "none") /\ (f.fin => ev.bytes = J)
    BY <2>2 DEF Event
  <2>4. frags' = IF f.fin THEN Started ELSE [open |-> TRUE, bytes |-> J]
    BY <1>1, <2>3 DEF fragments, J
  <2>5. /\ frags' \in [open : BOOLEAN, bytes : Seq(Nat)] /\ (~frags'.open => frags'.bytes = <<>>)
        /\ Len(frags'.bytes) <= MaxMessage /\ (frags'.open => frags'.bytes = J)
    BY <2>1, <2>4, <1>5 DEF Started
  <2>6. frags'.open => /\ frags'.bytes = Message(log', Len(log'))
                       /\ \E j \in 1..Len(log') : log'[j].opcode = "binary"
    BY <2>1, <2>5, <1>2
  <2>7. Final(f) <=> f.fin
    BY <2>1 DEF Final
  <2>8. CASE f.fin
    <3> DEFINE w == Work("message", J, 0)
    <3>1. Begin("reader", "forward", w)
      BY <2>3, <2>8 DEF readFrame
    <3>2. w.bytes = J
      BY DEF Work
    <3> HIDE DEF w
    <3>3. /\ FunctionOn(step', Goroutines) /\ FunctionOn(job', Writers)
          /\ step'["reader"] = "forward" /\ job'["reader"] = w
          /\ \A p \in Writers : p # "reader" => job'[p] = job[p]
      BY <3>1, BeginMessage, Names
    <3>4. \A p \in Writers : job'[p].bytes \in Seq(Nat) /\ Len(job'[p].bytes) <= MaxMessage
      BY <3>2, <3>3, <2>1 DEF MessageInv
    <3>5. Messages(log') = Append(forwarded', job'["reader"].bytes)
      BY <1>1, <1>3, <2>1, <2>7, <2>8, <3>2, <3>3
    <3> QED
      BY <1>1, <1>2, <1>3, <1>4, <2>5, <2>6, <3>3, <3>4, <3>5 DEF MessageInv
  <2>9. CASE ~f.fin
    <3>1. UNCHANGED <<step, job>>
      BY <2>3, <2>9 DEF readFrame
    <3> QED
      BY <1>1, <1>2, <1>3, <1>4, <2>5, <2>6, <2>7, <2>9, <3>1 DEF MessageInv
  <2> QED
    BY <2>8, <2>9
<1>7. CASE ~(frameError(f) = 0 /\ f.opcode \notin Control /\ DataError(frags, f) = 0)
  <2>1. /\ \/ frameError(f) = 0 /\ f.opcode \in Control /\ ev.kind = f.opcode
           \/ ev.kind = "error"
        /\ frags' = frags
    <3>1. \/ frameError(f) = 0 /\ f.opcode \in Control /\ ev.kind = f.opcode
          \/ ev.kind = "error"
      BY <1>7 DEF nextEvent, Event, Failure
    <3> QED
      BY <3>1, <1>1 DEF fragments, Control
  <2>2. CASE ev.kind = "error" \/ ev.kind = "close"
    <3> DEFINE w == CloseFor(ev, f)
    <3>1. Begin("reader", "lock", w)
      BY <2>2 DEF readFrame
    <3>2. w.bytes = <<>> /\ w.kind = "close"
      BY NoJobTyped DEF CloseFor
    <3> HIDE DEF w
    <3>3. /\ FunctionOn(step', Goroutines) /\ FunctionOn(job', Writers)
          /\ step'["reader"] = "lock" /\ job'["reader"] = w
          /\ \A p \in Writers : p # "reader" => job'[p] = job[p]
      BY <3>1, BeginMessage, Names
    <3>4. ~Alive'
      BY <3>2, <3>3 DEF Alive
    <3>5. \A p \in Writers : job'[p].bytes \in Seq(Nat) /\ Len(job'[p].bytes) <= MaxMessage
      BY <3>2, <3>3, <1>5
    <3> QED
      BY <1>1, <1>2, <1>3, <1>4, <2>1, <3>3, <3>4, <3>5 DEF MessageInv
  <2>3. CASE ev.kind \in {"ping", "pong"}
    <3>1. f.opcode \in Control /\ ~Final(f) /\ f.opcode # "binary" /\ f.opcode \notin Data
      BY <2>1, <2>3 DEF Final, Control, Data
    <3>2. PICK s \in {"read", "lock", "ack"} : \E w :
             /\ \/ UNCHANGED <<step, job>> /\ s = "read"
                \/ Begin("reader", s, w) /\ w.bytes = <<>> /\ w.kind = "pong"
      <4>1. \/ UNCHANGED <<step, job>>
            \/ Begin("reader", "lock", Work("pong", <<>>, 0))
            \/ Begin("reader", "ack", Work("pong", <<>>, n))
        BY <2>3 DEF readFrame
      <4>2. \A c : Work("pong", <<>>, c).bytes = <<>> /\ Work("pong", <<>>, c).kind = "pong"
        BY DEF Work
      <4> QED
        BY <4>1, <4>2
    <3>3. /\ FunctionOn(step', Goroutines) /\ FunctionOn(job', Writers)
          /\ step'["reader"] = s
          /\ \A p \in Writers : job'[p] = job[p] \/ job'[p].bytes = <<>>
      <4>1. CASE UNCHANGED <<step, job>> /\ s = "read"
        BY <4>1, <1>1 DEF MessageInv
      <4>2. ASSUME NEW w, Begin("reader", s, w), w.bytes = <<>>, w.kind = "pong"
            PROVE  /\ FunctionOn(step', Goroutines) /\ FunctionOn(job', Writers)
                   /\ step'["reader"] = s
                   /\ \A p \in Writers : job'[p] = job[p] \/ job'[p].bytes = <<>>
        BY <4>2, BeginMessage, Names
      <4> QED
        BY <3>2, <4>1, <4>2
    <3>4. \A p \in Writers : job'[p].bytes \in Seq(Nat) /\ Len(job'[p].bytes) <= MaxMessage
      BY <3>3, <1>5
    <3>5. frags.open => /\ frags.bytes = Message(log', Len(log'))
                        /\ \E j \in 1..Len(log') : log'[j].opcode = "binary"
      <4>1. SUFFICES ASSUME frags.open
                     PROVE  /\ frags.bytes = Message(log', Len(log) + 1)
                            /\ \E j \in 1..(Len(log) + 1) : log'[j].opcode = "binary"
        BY <1>2
      <4>2. frags.bytes = Message(log, Len(log)) /\ \E j \in 1..Len(log) : log[j].opcode = "binary"
        BY <4>1, <1>1 DEF MessageInv
      <4>3. Message(log, Len(log)) \in Seq(Nat) /\ Message(log', Len(log) + 1) = Message(log, Len(log)) \o <<>>
        BY <1>1, <1>2, <3>1, <4>2, MessageGoesOn
      <4>4. Message(log, Len(log)) \o <<>> = Message(log, Len(log))
        BY <4>3, ConcatEmptySeq
      <4>5. \A j \in 1..Len(log) : j \in 1..(Len(log) + 1) /\ log'[j] = log[j]
        BY <1>1, <1>2, AppendFrame
      <4> QED
        BY <4>2, <4>3, <4>4, <4>5
    <3> QED
      BY <1>1, <1>2, <1>3, <1>4, <2>1, <3>1, <3>3, <3>4, <3>5 DEF MessageInv
  <2> QED
    BY <2>1, <2>2, <2>3 DEF Control
<1> QED
  BY <1>6, <1>7

(* A ping or pong that the history has no room for does nothing to the stream. *)
LEMMA UnrecordedFrame ==
    ASSUME MessageInv, NEW f \in ClientFrames, NEW n \in 0..MaxPings, readFrame(f, n),
           log' # Append(log, f)
    PROVE  /\ MessageInv'
           /\ Alive /\ UNCHANGED <<log, frags>>
           /\ step'["reader"] \in {"lock", "ack"} \/ UNCHANGED <<step, job>>
<1> DEFINE ev == nextEvent(frags, f)
<1>1. /\ step["reader"] = "read" /\ ev.kind \in {"ping", "pong"}
      /\ frags' = fragments(frags, f) /\ UNCHANGED <<log, forwarded>> /\ Alive
  BY DEF readFrame, Recorded, Alive
<1>2. frags' = frags
  BY <1>1 DEF fragments
<1>3. \/ UNCHANGED <<step, job>>
      \/ Begin("reader", "lock", Work("pong", <<>>, 0))
      \/ Begin("reader", "ack", Work("pong", <<>>, n))
  BY <1>1 DEF readFrame
<1>4. CASE UNCHANGED <<step, job>>
  BY <1>1, <1>2, <1>4, OthersWork DEF MessageInv
<1>5. ASSUME NEW s \in {"lock", "ack"}, NEW w, Begin("reader", s, w), w.bytes = <<>>
      PROVE  MessageInv' /\ step'["reader"] = s
  <2>1. /\ FunctionOn(step', Goroutines) /\ FunctionOn(job', Writers)
        /\ step'["reader"] = s /\ job'["reader"] = w
        /\ \A p \in Writers : p # "reader" => job'[p] = job[p]
    BY <1>5, BeginMessage, Names
  <2>2. \A p \in Writers : job'[p].bytes = <<>> \/ job'[p] = job[p]
    BY <1>5, <2>1
  <2> QED
    BY <1>1, <1>2, <2>1, <2>2, ReaderKeeps
<1>6. \A c : Work("pong", <<>>, c).bytes = <<>>
  BY DEF Work
<1> QED
  BY <1>1, <1>2, <1>3, <1>4, <1>5, <1>6

(* Every step of the four goroutines keeps MessageInv. *)
LEMMA NextMessageInv == MessageInv /\ [Next]_vars => MessageInv'
<1> SUFFICES ASSUME MessageInv, [Next]_vars PROVE MessageInv'
  OBVIOUS
<1>f. FunctionOn(step, Goroutines) /\ FunctionOn(job, Writers)
  BY DEF MessageInv
<1>1. ASSUME NEW p \in Goroutines, closeBoth(p) PROVE MessageInv'
  <2>1. step[p] = "closing" /\ UNCHANGED <<job, log, forwarded, frags>> /\ Goto(p, "ended")
    BY <1>1 DEF closeBoth, hist
  <2>2. /\ FunctionOn(step', Goroutines)
        /\ step'[p] = "ended" /\ \A q \in Goroutines : q # p => step'[q] = step[q]
    BY <2>1, GotoMessage
  <2>3. CASE p = "reader"
    BY <1>f, <2>1, <2>2, <2>3, ReaderKeeps DEF Alive
  <2>4. CASE p # "reader"
    BY <1>f, <2>1, <2>2, <2>4, OthersWork, Names
  <2> QED
    BY <2>3, <2>4
<1>2. CASE UNCHANGED <<step, job, log, forwarded, frags>>
  BY <1>f, <1>2, OthersWork
<1>3. CASE disconnect
  BY <1>2, <1>3 DEF disconnect, hist
<1>4. ASSUME NEW p \in Writers, lock(p) PROVE MessageInv'
  <2>1. step[p] = "lock" /\ UNCHANGED <<job, log, forwarded, frags>> /\ Goto(p, "write")
    BY <1>4 DEF lock, hist
  <2>2. /\ FunctionOn(step', Goroutines)
        /\ step'[p] = "write" /\ \A q \in Goroutines : q # p => step'[q] = step[q]
    BY <2>1, GotoMessage, Names
  <2>3. CASE p = "reader"
    <3>1. Alive' => Alive /\ step["reader"] # "forward" /\ step'["reader"] # "forward"
      BY <2>1, <2>2, <2>3 DEF Alive
    <3> QED
      BY <1>f, <2>1, <2>2, <3>1, ReaderKeeps
  <2>4. CASE p # "reader"
    BY <1>f, <2>1, <2>2, <2>4, OthersWork, Names
  <2> QED
    BY <2>3, <2>4
<1>5. ASSUME NEW p \in Writers, NEW ok \in BOOLEAN, write(p, ok) PROVE MessageInv'
  <2>1. PICK s, j :
          /\ Begin(p, s, j) /\ j.bytes = <<>>
          /\ p = "reader" => s # "forward" /\ (s \in {"read", "ack", "swap"} => job[p].kind # "close")
                             /\ (s \in {"lock", "write"} => j.kind = "close")
    <3> DEFINE s == IF ok THEN AfterWrite(p) ELSE "closing"
               j == IF ok /\ AfterWrite(p) = "lock" THEN Close(job[p].code) ELSE NoJob
    <3>1. Begin(p, s, j)
      BY <1>5 DEF write
    <3>2. j.bytes = <<>> /\ (s = "lock" => j.kind = "close")
      BY NoJobTyped
    <3>3. p = "reader" => /\ s \in {"closing", "lock", "read"}
                          /\ s = "read" => job[p].kind # "close"
      BY DEF AfterWrite
    <3> HIDE DEF s, j
    <3> QED
      BY <3>1, <3>2, <3>3
  <2>2. /\ FunctionOn(step', Goroutines) /\ FunctionOn(job', Writers)
        /\ step'[p] = s /\ \A q \in Goroutines : q # p => step'[q] = step[q]
        /\ job'[p] = j /\ \A q \in Writers : q # p => job'[q] = job[q]
    BY <2>1, BeginMessage
  <2>3. step[p] = "write" /\ UNCHANGED <<log, forwarded, frags>>
    BY <1>5 DEF write, hist
  <2>4. CASE p = "reader"
    <3>1. Alive' => Alive /\ step["reader"] # "forward" /\ step'["reader"] # "forward"
      BY <2>1, <2>2, <2>3, <2>4 DEF Alive
    <3> QED
      BY <2>1, <2>2, <2>3, <2>4, <3>1, ReaderKeeps
  <2>5. CASE p # "reader"
    BY <2>1, <2>2, <2>3, <2>5, OthersWork, Names
  <2> QED
    BY <2>4, <2>5
<1>6. ASSUME NEW p \in Writers, p # "reader", NEW s, NEW j, Begin(p, s, j), j.bytes = <<>>,
             UNCHANGED <<log, forwarded, frags>>
      PROVE  MessageInv'
  <2>1. /\ FunctionOn(step', Goroutines) /\ FunctionOn(job', Writers)
        /\ step'[p] = s /\ \A q \in Goroutines : q # p => step'[q] = step[q]
        /\ job'[p] = j /\ \A q \in Writers : q # p => job'[q] = job[q]
    BY <1>6, BeginMessage
  <2> QED
    BY <1>6, <2>1, OthersWork, Names
<1>7. ASSUME NEW data \in BOOLEAN, NEW err \in Errors, telegramRead(data, err) PROVE MessageInv'
  <2> DEFINE j == Work(IF data THEN "data" ELSE "close", <<>>, ReadCode(err))
  <2>1. Begin("copier", "lock", j) /\ UNCHANGED <<log, forwarded, frags>>
    BY <1>7 DEF telegramRead, hist
  <2>2. j.bytes = <<>>
    BY DEF Work
  <2>3. "copier" \in Writers
    BY DEF Writers
  <2> HIDE DEF j
  <2> QED
    BY <1>6, <2>1, <2>2, <2>3
<1>8. ASSUME NEW f \in ClientFrames, NEW n \in 0..MaxPings, readFrame(f, n) PROVE MessageInv'
  BY <1>8, ReadFrameStep, UnrecordedFrame
<1>9. CASE readFails
  <2>1. Begin("reader", "lock", Close(1002)) /\ UNCHANGED <<log, forwarded, frags>>
    BY <1>9 DEF readFails, hist
  <2>2. /\ FunctionOn(step', Goroutines) /\ FunctionOn(job', Writers)
        /\ step'["reader"] = "lock" /\ job'["reader"] = Close(1002)
        /\ \A q \in Writers : q # "reader" => job'[q] = job[q]
    BY <2>1, BeginMessage, Names
  <2> QED
    BY <2>1, <2>2, ReaderKeeps, NoJobTyped DEF Alive
<1>10. ASSUME NEW ok \in BOOLEAN, forward(ok) PROVE MessageInv'
  <2>1. /\ step["reader"] = "forward" /\ UNCHANGED <<log, frags>>
        /\ forwarded' = IF ok THEN Append(forwarded, job["reader"].bytes) ELSE forwarded
        /\ Begin("reader", IF ok THEN "read" ELSE "lock", IF ok THEN NoJob ELSE Close(1011))
    BY <1>10 DEF forward
  <2>2. Alive /\ Messages(log) = Append(forwarded, job["reader"].bytes)
    BY <2>1 DEF Alive, MessageInv
  <2>3. CASE ok
    <3>1. /\ FunctionOn(step', Goroutines) /\ FunctionOn(job', Writers)
          /\ step'["reader"] = "read" /\ job'["reader"] = NoJob
          /\ \A q \in Writers : q # "reader" => job'[q] = job[q]
      BY <2>1, <2>3, BeginMessage, Names
    <3>2. /\ \A p \in Writers : job[p].bytes \in Seq(Nat) /\ Len(job[p].bytes) <= MaxMessage
          /\ forwarded \in Seq(Seq(Nat))
      BY DEF MessageInv
    <3>3. \A p \in Writers : job'[p].bytes \in Seq(Nat) /\ Len(job'[p].bytes) <= MaxMessage
      BY <3>1, <3>2, NothingFits, NoJobTyped
    <3>4. forwarded' \in Seq(Seq(Nat)) /\ Messages(log') = forwarded'
      BY <2>1, <2>2, <2>3, <3>2, Names
    <3>5. IsPrefix(forwarded', forwarded')
      <4>1. SubSeq(forwarded', 1, Len(forwarded')) = forwarded' /\ Len(forwarded') \in Nat
        BY <3>4
      <4> QED
        BY <4>1 DEF IsPrefix
    <3> QED
      BY <2>1, <2>2, <3>1, <3>3, <3>4, <3>5 DEF MessageInv
  <2>4. CASE ~ok
    <3>1. /\ FunctionOn(step', Goroutines) /\ FunctionOn(job', Writers)
          /\ step'["reader"] = "lock" /\ job'["reader"] = Close(1011)
          /\ \A q \in Writers : q # "reader" => job'[q] = job[q]
      BY <2>1, <2>4, BeginMessage, Names
    <3> QED
      BY <2>1, <2>4, <3>1, ReaderKeeps, NoJobTyped DEF Alive
  <2> QED
    BY <2>3, <2>4
<1>11. CASE acknowledge
  <2>1. step["reader"] = "ack" /\ Goto("reader", "swap") /\ UNCHANGED <<job, log, forwarded, frags>>
    BY <1>11 DEF acknowledge, hist
  <2>2. FunctionOn(step', Goroutines) /\ step'["reader"] = "swap"
    BY <2>1, GotoMessage, Names
  <2>3. Alive' => Alive /\ step["reader"] # "forward" /\ step'["reader"] # "forward"
    BY <2>1, <2>2 DEF Alive
  <2> QED
    BY <1>f, <2>1, <2>2, <2>3, ReaderKeeps
<1>12. CASE swap
  <2>1. step["reader"] = "swap" /\ Begin("reader", "read", NoJob) /\ UNCHANGED <<log, forwarded, frags>>
    BY <1>12 DEF swap, hist
  <2>2. /\ FunctionOn(step', Goroutines) /\ FunctionOn(job', Writers)
        /\ step'["reader"] = "read" /\ job'["reader"] = NoJob
        /\ \A q \in Writers : q # "reader" => job'[q] = job[q]
    BY <2>1, BeginMessage, Names
  <2>3. Alive' => Alive /\ step["reader"] # "forward" /\ step'["reader"] # "forward"
    BY <2>1, <2>2 DEF Alive
  <2>4. \A p \in Writers : job'[p].bytes = <<>> \/ job'[p] = job[p]
    BY <2>2, NoJobTyped
  <2> QED
    BY <2>1, <2>2, <2>3, <2>4, ReaderKeeps
<1>13. CASE tick
  <2> DEFINE j == Work("ping", <<>>, 0)
  <2>1. Begin("heartbeat", "lock", j) /\ UNCHANGED <<log, forwarded, frags>>
    BY <1>13 DEF tick, hist
  <2>2. j.bytes = <<>>
    BY DEF Work
  <2> HIDE DEF j
  <2> QED
    BY <1>6, <2>1, <2>2, Names
<1>14. ASSUME NEW p \in Goroutines, p # "reader", NEW s, Goto(p, s), UNCHANGED <<job, log, forwarded, frags>>
       PROVE  MessageInv'
  <2>1. FunctionOn(step', Goroutines) /\ step'["reader"] = step["reader"]
    BY <1>14, GotoMessage, Names
  <2> QED
    BY <1>f, <1>14, <2>1, OthersWork
<1>15. CASE pongTimeout
  <2>1. PICK s : Goto("heartbeat", s) /\ UNCHANGED <<job, log, forwarded, frags>>
    BY <1>15 DEF pongTimeout, hist
  <2> QED
    BY <1>14, <2>1, Names
<1>16. ASSUME NEW p \in Goroutines, doneClosed(p) PROVE MessageInv'
  BY <1>14, <1>16 DEF doneClosed, hist
<1>17. CASE watch
  <2>1. "watchdog" \in Goroutines
    BY DEF Goroutines
  <2> QED
    BY <1>14, <1>17, <2>1 DEF watch, hist
<1>18. CASE timePasses \/ UNCHANGED vars
  <2>1. UNCHANGED <<step, job, log, forwarded, frags>>
    BY <1>18 DEF timePasses, vars, hist
  <2> QED
    BY <1>2, <2>1
<1> QED
  BY <1>1, <1>3, <1>4, <1>5, <1>7, <1>8, <1>9, <1>10, <1>11, <1>12, <1>13, <1>15, <1>16, <1>17, <1>18 DEF Next

(* Telegram gets the client's messages whole, in order and once, for every    *)
(* way of cutting them into frames and mixing them with control frames.       *)
THEOREM BridgeMessagesIntact == Spec => []MessagesIntact
<1>1. MessageInv => MessagesIntact
  BY DEF MessageInv, MessagesIntact, Alive
<1> QED
  BY <1>1, InitMessageInv, NextMessageInv, PTL DEF Spec

(* What a session collects of a message, and hands on, is within the limit.   *)
THEOREM BridgeFragmentsBounded == Spec => []FragmentsBounded
<1>1. MessageInv => FragmentsBounded
  BY DEF MessageInv, FragmentsBounded
<1> QED
  BY <1>1, InitMessageInv, NextMessageInv, PTL DEF Spec
-----------------------------------------------------------------------------
(* The lengths of frames *)

(* The powers of the base, as a loop computes them. *)
LEMMA PowerIs ==
    /\ Base \in Nat /\ Base > 1 /\ LongBytes \in Nat /\ LongBytes > 2
    /\ \A i \in 0..LongBytes : Power[i] \in Nat /\ Power[i] > 0
    /\ Power[0] = 1 /\ \A i \in 1..LongBytes : i - 1 \in 0..LongBytes /\ Power[i] = Base * Power[i - 1]
<1> DEFINE N == LongBytes
           F == [i \in 1..N |-> [x \in Nat |-> Base * x]]
           IsPower(g) == g = [n \in 0..N |-> IF n = 0 THEN 1 ELSE Base * g[n - 1]]
<1>1. Base \in Nat \ {0} /\ N \in Nat
  BY FrameAssumption
<1>2. \E g : IsPower(g)
  <2>1. IsStep(F, N, Nat)
    BY <1>1 DEF IsStep
  <2>4. PICK g : Iterates(g, F, N, Nat, 1)
    <3> HIDE DEF F, N
    <3>1. 1 \in Nat
      OBVIOUS
    <3> QED
      BY <1>1, <2>1, <3>1, IterationExists
  <2>2. g \in [0..N -> Nat] /\ g[0] = 1 /\ \A i \in 1..N : g[i] = F[i][g[i - 1]]
    BY <2>4 DEF Iterates
  <2>3. \A i \in 1..N : g[i] = Base * g[i - 1]
    <3>1. \A i \in 1..N : i - 1 \in 0..N
      BY <1>1
    <3> QED
      BY <2>2, <3>1
  <2>5. IsPower(g)
    BY <1>1, <2>2, <2>3
  <2> QED
    BY <2>5
<1>3. IsPower(Power)
  BY <1>2 DEF Power
<1>4. Power[0] = 1 /\ \A i \in 1..N : Power[i] = Base * Power[i - 1]
  BY <1>1, <1>3
<1>5. \A i \in 0..N : Power[i] \in Nat \ {0}
  <2> DEFINE T == {i \in 0..N : Power[i] \notin Nat \ {0}}
  <2>1. SUFFICES ASSUME T # {} PROVE FALSE
    OBVIOUS
  <2>2. PICK m \in T : \A n \in T : m <= n
    <3>1. T \subseteq Nat
      BY <1>1
    <3> QED
      BY <2>1, <3>1, LeastNumber
  <2>3. m \in 1..N /\ m - 1 \in 0..N /\ m - 1 \notin T
    BY <1>1, <1>4, <2>2
  <2>4. Power[m - 1] \in Nat \ {0} /\ Power[m] = Base * Power[m - 1]
    BY <1>4, <2>3
  <2>5. Power[m] \in Nat \ {0}
    BY <1>1, <2>4
  <2> QED
    BY <2>2, <2>5
<1>6. \A i \in 1..N : i - 1 \in 0..N
  BY <1>1
<1> QED
  BY <1>4, <1>5, <1>6, FrameAssumption

(* Dividing by a power is dividing by the base and by the power below it. *)
LEMMA DivPower ==
    ASSUME NEW a \in Nat, NEW i \in 1..LongBytes
    PROVE  /\ a \div Power[i] = (a \div Base) \div Power[i - 1]
           /\ a \div Power[i] = (a \div Power[i - 1]) \div Base
<1>1. /\ i - 1 \in 0..LongBytes /\ Base \in Nat /\ Base > 0
      /\ Power[i - 1] \in Nat /\ Power[i - 1] > 0 /\ Power[i] = Base * Power[i - 1]
  BY PowerIs
<1>2. Power[i] = Power[i - 1] * Base
  BY <1>1
<1> QED
  BY <1>1, <1>2, DivDiv

(* Powers multiply. *)
LEMMA PowerSplit ==
    ASSUME NEW i \in 0..LongBytes
    PROVE  LongBytes - i \in 0..LongBytes /\ Power[LongBytes] = Power[i] * Power[LongBytes - i]
<1> DEFINE N == LongBytes
           T == {k \in 0..N : Power[N] # Power[k] * Power[N - k]}
<1>0. N \in Nat /\ \A k \in 0..N : N - k \in 0..N
  BY PowerIs
<1>1. T = {}
  <2>1. SUFFICES ASSUME T # {} PROVE FALSE
    OBVIOUS
  <2>2. PICK m \in T : \A k \in T : m <= k
    <3>1. T \subseteq Nat
      BY <1>0
    <3> QED
      BY <2>1, <3>1, LeastNumber
  <2>3. m # 0
    <3>1. Power[0] = 1 /\ N - 0 = N /\ Power[N] \in Nat
      BY <1>0, PowerIs
    <3> QED
      BY <2>2, <3>1
  <2>4. m \in 1..N /\ m - 1 \in 0..N /\ m - 1 \notin T
    BY <1>0, <2>2, <2>3
  <2>5. N - (m - 1) \in 1..N /\ N - (m - 1) - 1 = N - m
    BY <1>0, <2>4
  <2>6. Power[N] = Power[m - 1] * Power[N - (m - 1)]
    BY <2>4
  <2>7. Power[N - (m - 1)] = Base * Power[N - m] /\ Power[m] = Base * Power[m - 1]
    BY <2>4, <2>5, PowerIs
  <2>8. Power[m - 1] \in Nat /\ Power[N - m] \in Nat /\ Base \in Nat
    BY <1>0, <2>2, <2>4, PowerIs
  <2>9. Power[N] = Power[m] * Power[N - m]
    BY <2>6, <2>7, <2>8
  <2> QED
    BY <2>2, <2>9
<1> QED
  BY <1>0, <1>1

(* The loop of readClientFrame, from the field value 127 to the length. *)
LEMMA LongLengthIs ==
    ASSUME NEW f \in Frame, Len(f.ext) = LongBytes
    PROVE  \E n \in [0..LongBytes -> Nat] :
              /\ n[0] = f.len7 /\ LongLength(f) = n[LongBytes]
              /\ \A i \in 1..LongBytes : n[i] = (n[i - 1] * Base + f.ext[i]) % Power[LongBytes]
<1> DEFINE N == LongBytes
           W == Power[N]
           e == f.ext
           F == [i \in 1..N |-> [x \in Nat |-> (x * Base + e[i]) % W]]
           IsLoop(g) == g = [i \in 0..N |-> IF i = 0 THEN f.len7 ELSE (g[i - 1] * Base + e[i]) % W]
           loop == CHOOSE g : IsLoop(g)
<1>1. Base \in Nat \ {0} /\ N \in Nat /\ W \in Nat \ {0} /\ f.len7 \in Nat
      /\ \A i \in 1..N : e[i] \in Nat
  <2>1. e \in Seq(Byte) /\ Len(e) = N /\ f.len7 \in 0..(Short + 2) /\ Short \in Nat
    BY FrameAssumption DEF Frame
  <2>2. \A i \in 1..N : e[i] \in Byte
    BY <2>1
  <2>3. N \in 0..N /\ Base \in Nat /\ Base > 1 /\ N \in Nat
    BY PowerIs
  <2> QED
    BY <2>1, <2>2, <2>3, PowerIs DEF Byte
<1> HIDE DEF W, e
<1>2. \A x \in Nat : \A i \in 1..N : (x * Base + e[i]) % W \in Nat
  <2>1. \A x \in Nat : \A i \in 1..N : x * Base + e[i] \in Nat
    BY <1>1
  <2> QED
    BY <1>1, <2>1, DivMod
<1>3. \E g : IsLoop(g)
  <2>1. IsStep(F, N, Nat)
    BY <1>2 DEF IsStep
  <2>4. PICK g : Iterates(g, F, N, Nat, f.len7)
    <3> HIDE DEF F, N
    <3> QED
      BY <1>1, <2>1, IterationExists
  <2>2. g \in [0..N -> Nat] /\ g[0] = f.len7 /\ \A i \in 1..N : g[i] = F[i][g[i - 1]]
    BY <2>4 DEF Iterates
  <2>3. \A i \in 1..N : g[i] = (g[i - 1] * Base + e[i]) % W
    <3>1. \A i \in 1..N : i - 1 \in 0..N
      BY <1>1
    <3> QED
      BY <2>2, <3>1
  <2>5. IsLoop(g)
    BY <1>1, <2>2, <2>3
  <2> QED
    BY <2>5
<1>4. IsLoop(loop)
  BY <1>3
<1>5. LongLength(f) = loop[N]
  BY DEF LongLength, W, e
<1> HIDE DEF loop
<1>6. loop[0] = f.len7 /\ \A i \in 1..N : loop[i] = (loop[i - 1] * Base + e[i]) % W
  BY <1>1, <1>4
<1>7. \A i \in 0..N : loop[i] \in Nat
  <2> DEFINE T == {i \in 0..N : loop[i] \notin Nat}
  <2>1. SUFFICES ASSUME T # {} PROVE FALSE
    OBVIOUS
  <2>2. PICK m \in T : \A n \in T : m <= n
    <3>1. T \subseteq Nat
      BY <1>1
    <3> QED
      BY <2>1, <3>1, LeastNumber
  <2>3. m \in 1..N /\ m - 1 \in 0..N /\ m - 1 \notin T
    BY <1>1, <1>6, <2>2
  <2>4. loop[m] \in Nat
    BY <1>2, <1>6, <2>3
  <2> QED
    BY <2>2, <2>4
<1> QED
  BY <1>4, <1>5, <1>6, <1>7 DEF W, e

(* The first i bytes of e are the digits of x. *)
IsDigits(e, i, x) == \A j \in 1..i : e[j] = (x \div Power[i - j]) % Base

(* The digits of a number are those of its leading part, and the last one.   *)
LEMMA DigitsStep ==
    ASSUME NEW e, NEW i \in 1..LongBytes, NEW x \in Nat
    PROVE  IsDigits(e, i, x) <=> IsDigits(e, i - 1, x \div Base) /\ e[i] = x % Base
<1>1. /\ i \in Nat /\ i - 1 \in Nat /\ Power[0] = 1 /\ Base \in Nat /\ Base > 0
      /\ x \div Base \in Nat
  <2>1. Base \in Nat /\ Base > 0 /\ Power[0] = 1 /\ LongBytes \in Nat
    BY PowerIs
  <2> QED
    BY <2>1, DivMod
<1>2. \A j \in 1..(i - 1) : (x \div Power[i - j]) % Base = ((x \div Base) \div Power[i - 1 - j]) % Base
  <2>1. \A j \in 1..(i - 1) : i - j \in 1..LongBytes /\ (i - j) - 1 = i - 1 - j
    BY <1>1, PowerIs
  <2> QED
    BY <2>1, DivPower
<1>3. (x \div Power[i - i]) % Base = x % Base
  <2>1. i - i = 0 /\ x \div 1 = x
    BY <1>1
  <2> QED
    BY <1>1, <2>1
<1>4. \A j \in 1..i : j = i \/ j \in 1..(i - 1)
  BY <1>1
<1>5. i \in 1..i /\ 1..(i - 1) \subseteq 1..i
  BY <1>1
<1> QED
  BY <1>2, <1>3, <1>4, <1>5 DEF IsDigits

(* Any bytes are the digits of a number. *)
LEMMA DigitsOf ==
    ASSUME NEW e, \A i \in 1..LongBytes : e[i] \in Byte, NEW i \in 0..LongBytes
    PROVE  \E x \in 0..(Power[i] - 1) : IsDigits(e, i, x)
<1> DEFINE Has(k) == \E x \in 0..(Power[k] - 1) : IsDigits(e, k, x)
           T == {k \in 0..LongBytes : ~Has(k)}
<1>0. Base \in Nat /\ Base > 1 /\ LongBytes \in Nat
  BY FrameAssumption
<1>1. SUFFICES ASSUME T # {} PROVE FALSE
  OBVIOUS
<1>2. PICK m \in T : \A n \in T : m <= n
  <2>1. T \subseteq Nat
    BY <1>0
  <2> QED
    BY <1>1, <2>1, LeastNumber
<1>3. m # 0
  <2>1. Power[0] = 1 /\ 0 \in 0..(1 - 1) /\ IsDigits(e, 0, 0)
    BY PowerIs DEF IsDigits
  <2>2. Has(0)
    BY <2>1
  <2> QED
    BY <1>2, <2>2
<1>4. m \in 1..LongBytes /\ m - 1 \in 0..LongBytes /\ m - 1 \notin T
  BY <1>0, <1>2, <1>3
<1>5. PICK x \in 0..(Power[m - 1] - 1) : IsDigits(e, m - 1, x)
  BY <1>4
<1> DEFINE y == Base * x + e[m]
<1>6. e[m] \in 0..(Base - 1) /\ Power[m] = Base * Power[m - 1] /\ Power[m - 1] \in Nat
  BY <1>4, PowerIs DEF Byte
<1>7. y \in 0..(Power[m] - 1)
  <2>1. x + 1 <= Power[m - 1] /\ x \in Nat
    BY <1>6
  <2>2. Base * (x + 1) <= Base * Power[m - 1]
    BY <1>0, <1>6, <2>1
  <2> QED
    BY <1>0, <1>6, <2>1, <2>2
<1>8. y \in Nat /\ y \div Base = x /\ y % Base = e[m]
  <2>1. x \in Nat /\ y \in Nat
    BY <1>0, <1>6
  <2> QED
    BY <1>0, <1>6, <2>1, DivUnique
<1> HIDE DEF y
<1>9. IsDigits(e, m, y)
  BY <1>4, <1>5, <1>8, DigitsStep
<1> QED
  BY <1>2, <1>7, <1>9

(* The loop ends with the number whose digits it reads: the field value it   *)
(* starts from is shifted out.                                               *)
LEMMA LoopReads ==
    ASSUME NEW f \in Frame, Len(f.ext) = LongBytes,
           NEW x \in 0..(Power[LongBytes] - 1), IsDigits(f.ext, LongBytes, x)
    PROVE  LongLength(f) = x
<1> DEFINE N == LongBytes
           W == Power[N]
           e == f.ext
           top(i) == x \div Power[N - i]
<1>0. Base \in Nat /\ Base > 1 /\ N \in Nat /\ N > 2 /\ W \in Nat /\ W > 0 /\ x \in Nat /\ x < W
      /\ \A i \in 1..N : e[i] \in Nat
  <2>1. e \in Seq(Byte) /\ Len(e) = N
    BY DEF Frame
  <2>2. \A i \in 1..N : e[i] \in Byte
    BY <2>1
  <2>3. N \in 0..N /\ Base \in Nat /\ Base > 1 /\ N \in Nat /\ N > 2
    BY PowerIs
  <2>4. W \in Nat /\ W > 0
    BY <2>3, PowerIs
  <2> QED
    BY <2>2, <2>3, <2>4 DEF Byte
<1>1. PICK n \in [0..N -> Nat] :
         /\ n[0] = f.len7 /\ LongLength(f) = n[N]
         /\ \A i \in 1..N : n[i] = (n[i - 1] * Base + e[i]) % W
  BY LongLengthIs
<1>2. \A i \in 0..N : N - i \in 0..N /\ Power[N - i] \in Nat /\ Power[N - i] > 0 /\ top(i) \in Nat
  <2>1. \A i \in 0..N : N - i \in 0..N
    BY <1>0
  <2>2. \A i \in 0..N : Power[N - i] \in Nat /\ Power[N - i] > 0
    BY <2>1, PowerIs
  <2> QED
    BY <1>0, <2>1, <2>2, DivMod
<1>3. \A i \in 1..N : top(i) = Base * top(i - 1) + e[i]
  <2> SUFFICES ASSUME NEW i \in 1..N PROVE top(i) = Base * top(i - 1) + e[i]
    OBVIOUS
  <2>1. N - (i - 1) \in 1..N /\ N - (i - 1) - 1 = N - i /\ i \in 0..N /\ i - 1 \in 0..N
    BY <1>0
  <2>2. top(i - 1) = top(i) \div Base
    BY <1>0, <2>1, DivPower
  <2>3. e[i] = top(i) % Base
    BY DEF IsDigits
  <2>4. top(i) \in Nat
    BY <1>2, <2>1
  <2>5. top(i) = Base * (top(i) \div Base) + (top(i) % Base)
    <3> DEFINE t == top(i)
    <3>1. t \in Nat /\ Base \in Nat /\ Base > 0
      BY <1>0, <2>4
    <3> HIDE DEF t
    <3>2. t = Base * (t \div Base) + (t % Base)
      BY <3>1, DivMod
    <3> QED
      BY <3>2 DEF t
  <2> QED
    BY <2>2, <2>3, <2>5
<1>4. top(0) = 0 /\ top(N) = x
  <2>1. N - 0 = N /\ N - N = 0 /\ Power[0] = 1 /\ x = W * 0 + x
    BY <1>0, PowerIs
  <2>2. x \div W = 0 /\ x \div 1 = x
    BY <1>0, <2>1, DivUnique
  <2> QED
    BY <2>1, <2>2
<1> HIDE DEF top, e, W
<1> DEFINE Reads(i) == \E c \in Nat : n[i] = c * Power[i] + top(i)
           T == {i \in 0..N : ~Reads(i)}
<1>5. \A i \in 0..N : Reads(i)
  <2>1. SUFFICES ASSUME T # {} PROVE FALSE
    OBVIOUS
  <2>2. PICK m \in T : \A k \in T : m <= k
    <3>1. T \subseteq Nat
      BY <1>0
    <3> QED
      BY <2>1, <3>1, LeastNumber
  <2>3. m # 0
    <3>1. Power[0] = 1 /\ 0 \in 0..N
      BY <1>0, PowerIs
    <3>3. n[0] \in Nat
      BY <1>1, <3>1
    <3>4. n[0] = n[0] * 1 + 0
      BY <3>3
    <3>2. Reads(0)
      BY <1>4, <3>1, <3>3, <3>4
    <3> QED
      BY <2>2, <3>2
  <2>4. m \in 1..N /\ m \in 0..N /\ m - 1 \in 0..N /\ m - 1 \notin T
    BY <1>0, <2>2, <2>3
  <2>5. PICK c \in Nat : n[m - 1] = c * Power[m - 1] + top(m - 1)
    BY <2>4
  <2> DEFINE P == Power[m]
             R == Power[N - m]
             t == top(m)
  <2>6. /\ P \in Nat /\ P > 0 /\ R \in Nat /\ R > 0 /\ W = P * R /\ P = Base * Power[m - 1]
        /\ Power[m - 1] \in Nat /\ t \in Nat /\ top(m - 1) \in Nat /\ e[m] \in Nat
        /\ t = Base * top(m - 1) + e[m]
    BY <1>0, <1>2, <1>3, <2>4, PowerIs, PowerSplit DEF W
  <2>7. t \in 0..(P - 1)
    <3>1. t = x \div R
      BY DEF top
    <3> HIDE DEF t, P, R
    <3>3. x \in Nat /\ P \in Nat /\ R \in Nat /\ R > 0 /\ x < P * R
      BY <1>0, <2>6
    <3>4. x \div R \in Nat /\ x \div R < P
      BY <3>3, DivBelow
    <3>2. t \in Nat /\ t < P
      BY <3>1, <3>4
    <3> QED
      BY <2>6, <3>2
  <2>8. n[m - 1] * Base + e[m] = c * P + t
    <3> DEFINE p == Power[m - 1]
               u == top(m - 1)
               d == e[m]
    <3>1. n[m - 1] = c * p + u
      BY <2>5
    <3>2. p \in Nat /\ u \in Nat /\ d \in Nat /\ P = Base * p /\ t = Base * u + d
      BY <2>6
    <3> HIDE DEF p, u, d, t, P
    <3>3. (c * p + u) * Base + d = c * (Base * p) + (Base * u + d)
      BY <1>0, <3>2
    <3>4. n[m - 1] * Base + d = c * P + t
      BY <3>1, <3>2, <3>3
    <3> QED
      BY <3>4 DEF d
  <2>9. n[m] = (c * P + t) % (P * R)
    BY <1>1, <2>4, <2>6, <2>8
  <2> HIDE DEF t, P, R
  <2>10. \E d \in Nat : (c * P + t) % (P * R) = d * P + t
    <3>1. c \in Nat /\ P \in Nat /\ R \in Nat /\ R > 0
      BY <2>5, <2>6
    <3> QED
      BY <2>7, <3>1, ModProduct, Zenon
  <2>11. Reads(m)
    BY <2>9, <2>10 DEF P, t
  <2> QED
    BY <2>2, <2>11
<1>6. PICK c \in Nat : n[N] = c * W + x
  BY <1>0, <1>4, <1>5 DEF W
<1>7. n[N] \in 0..(W - 1)
  <2>1. N \in 1..N /\ N - 1 \in 0..N
    BY <1>0
  <2>2. n[N - 1] \in Nat /\ e[N] \in Nat
    BY <1>0, <1>1, <2>1
  <2> DEFINE y == n[N - 1] * Base + e[N]
  <2>3. y \in Nat /\ n[N] = y % W
    <3> DEFINE u == n[N - 1]
               d == e[N]
    <3>1. u \in Nat /\ d \in Nat /\ Base \in Nat
      BY <1>0, <2>2
    <3> HIDE DEF u, d
    <3>2. u * Base + d \in Nat
      BY <3>1
    <3> QED
      BY <1>1, <2>1, <3>2 DEF u, d
  <2> HIDE DEF y
  <2> QED
    BY <1>0, <2>3, DivMod
<1>8. c = 0
  <2> DEFINE y == n[N]
  <2>1. y \in 0..(W - 1) /\ y = c * W + x
    BY <1>6, <1>7
  <2> HIDE DEF y
  <2>2. c >= 1 => c * W >= W
    BY <1>0
  <2>3. c * W \in Nat
    BY <1>0
  <2> QED
    <3>1. c \in Nat /\ W \in Nat /\ x \in Nat
      BY <1>0, <1>6
    <3>2. ~(c >= 1)
      BY <2>1, <2>2, <2>3, <3>1
    <3> QED
      BY <3>1, <3>2
<1> QED
  BY <1>0, <1>1, <1>6, <1>8

(* A quotient reaches h when the number reaches h times the divisor. *)
LEMMA QuotientAtLeast ==
    ASSUME NEW a \in Nat, NEW b \in Nat, b > 0, NEW h \in Nat
    PROVE  a \div b >= h <=> a >= h * b
<1> DEFINE t == a \div b
<1>1. t \in Nat /\ a % b \in 0..(b - 1) /\ a = b * t + (a % b)
  BY DivMod
<1> HIDE DEF t
<1>2. t >= h => b * t >= b * h
  BY <1>1
<1>3. t + 1 <= h => b * (t + 1) <= b * h
  BY <1>1
<1>4. b * h = h * b /\ b * h \in Nat
  OBVIOUS
<1>5. t >= h <=> a >= h * b
  BY <1>1, <1>2, <1>3, <1>4
<1> QED
  BY <1>5 DEF t

(* The two shorter encodings. *)
LEMMA SmallPowers ==
    /\ 0 \in 0..LongBytes /\ 1 \in 0..LongBytes /\ 2 \in 0..LongBytes
    /\ Power[1] = Base /\ Power[2] = Base * Base /\ Short \in Nat /\ Short < Power[2]
<1>1. /\ Base \in Nat /\ Base > 1 /\ Short \in Nat /\ Short < Base
      /\ LongBytes \in Nat /\ LongBytes > 2
  BY FrameAssumption
<1>2. 1 \in 1..LongBytes /\ 2 \in 1..LongBytes /\ 0 \in 0..LongBytes /\ 1 \in 0..LongBytes /\ 2 \in 0..LongBytes
  BY <1>1
<1>3. Power[1] = Base * Power[1 - 1] /\ Power[2] = Base * Power[2 - 1] /\ Power[0] = 1
  BY <1>2, PowerIs
<1>4. 1 - 1 = 0 /\ 2 - 1 = 1 /\ Base * 1 = Base
  BY <1>1
<1>5. Base <= Base * Base
  BY <1>1
<1> QED
  BY <1>1, <1>2, <1>3, <1>4, <1>5

(* WellEncoded, by the field value. *)
LEMMA WellEncodedIs ==
    ASSUME NEW f \in Frame
    PROVE  LET n == Len(f.payload)
           IN  WellEncoded(f) <=>
                  \/ f.len7 = n /\ n <= Short /\ f.ext = <<>>
                  \/ f.len7 = Short + 1 /\ n > Short /\ n < Power[2] /\ f.ext = Digits(n, 2)
                  \/ /\ f.len7 = Short + 2 /\ n >= Power[2] /\ f.ext = Digits(n, LongBytes)
                     /\ n < (Base \div 2) * Power[LongBytes - 1]
<1> DEFINE n == Len(f.payload)
<1>1. n \in Nat /\ f.len7 \in Nat
  BY SmallPowers DEF Frame
<1>2. Short \in Nat /\ Short < Power[2] /\ Power[2] \in Nat
  BY SmallPowers, PowerIs
<1> HIDE DEF n
<1>3. CASE n <= Short
  <2>1. n <= Short /\ n \notin (Short + 1)..(Power[2] - 1)
    BY <1>1, <1>2, <1>3
  <2>2. WellEncoded(f) <=> f.len7 = n /\ f.ext = <<>>
    BY <2>1 DEF WellEncoded, n
  <2> QED
    BY <1>1, <1>2, <1>3, <2>2 DEF n
<1>4. CASE n > Short /\ n < Power[2]
  <2>1. ~(n <= Short) /\ n \in (Short + 1)..(Power[2] - 1)
    BY <1>1, <1>2, <1>4
  <2>2. WellEncoded(f) <=> f.len7 = Short + 1 /\ f.ext = Digits(n, 2)
    BY <2>1 DEF WellEncoded, n
  <2> QED
    BY <1>1, <1>2, <1>4, <2>1, <2>2 DEF n
<1>5. CASE n >= Power[2]
  <2>1. ~(n <= Short) /\ n \notin (Short + 1)..(Power[2] - 1)
    BY <1>1, <1>2, <1>5
  <2>2. WellEncoded(f) <=> /\ f.len7 = Short + 2 /\ f.ext = Digits(n, LongBytes)
                           /\ n < (Base \div 2) * Power[LongBytes - 1]
    BY <2>1 DEF WellEncoded, n
  <2> QED
    BY <1>1, <1>2, <1>5, <2>1, <2>2 DEF n
<1> QED
  BY <1>1, <1>2, <1>3, <1>4, <1>5

(* A length in two bytes. *)
LEMMA TwoBytes ==
    ASSUME NEW f \in Frame, f.len7 = Short + 1, Len(f.ext) = 2, NEW n \in Nat
    PROVE  /\ length(f) \in Nat /\ length(f) < Power[2]
           /\ n < Power[2] => (f.ext = Digits(n, 2) <=> length(f) = n)
<1> DEFINE a == f.ext[1]
           b == f.ext[2]
           B == Base
<1>1. /\ B \in Nat /\ B > 1 /\ Power[0] = 1 /\ Power[1] = B /\ Power[2] = B * B
      /\ a \in 0..(B - 1) /\ b \in 0..(B - 1)
  <2>1. f.ext \in Seq(Byte) /\ 1 \in 1..Len(f.ext) /\ 2 \in 1..Len(f.ext)
    BY DEF Frame
  <2>2. a \in Byte /\ b \in Byte
    BY <2>1
  <2> QED
    BY <2>2, PowerIs, SmallPowers DEF Byte
<1>2. length(f) = a * B + b
  BY DEF length
<1> HIDE DEF B
<1>3. length(f) \in Nat /\ length(f) < Power[2]
  <2>1. a + 1 <= B
    BY <1>1
  <2> HIDE DEF a, b
  <2>2. (a + 1) * B <= B * B
    BY <1>1, <2>1
  <2> QED
    BY <1>1, <1>2, <2>2
<1>4. f.ext = Digits(n, 2) <=> a = (n \div B) % B /\ b = n % B
  <2>1. Digits(n, 2) = <<(n \div B) % B, n % B>>
    <3>1. Digits(n, 2) = [i \in 1..2 |-> (n \div Power[2 - i]) % B]
      BY DEF Digits, B
    <3>2. (n \div Power[2 - 1]) % B = (n \div B) % B
      BY <1>1
    <3>3. n \div 1 = n /\ Power[2 - 2] = 1
      BY <1>1
    <3>4. (n \div Power[2 - 2]) % B = n % B
      BY <3>3
    <3> DEFINE g(i) == (n \div Power[2 - i]) % B
    <3>5. [i \in 1..2 |-> g(i)] = <<g(1), g(2)>>
      <4> HIDE DEF g
      <4> QED
        OBVIOUS
    <3> QED
      BY <3>1, <3>2, <3>4, <3>5
  <2>2. f.ext = <<a, b>>
    BY DEF Frame
  <2> HIDE DEF a, b
  <2> QED
    BY <2>1, <2>2
<1>5. ASSUME length(f) = n PROVE f.ext = Digits(n, 2)
  <2> HIDE DEF a, b
  <2>1. n = B * a + b
    BY <1>1, <1>2, <1>5
  <2>2. n \div B = a /\ n % B = b
    BY <1>1, <2>1, DivUnique
  <2>3. a = B * 0 + a
    BY <1>1
  <2>4. a % B = a
    BY <1>1, <2>3, DivUnique
  <2> QED
    BY <1>4, <2>2, <2>4
<1>6. ASSUME n < Power[2], f.ext = Digits(n, 2) PROVE length(f) = n
  <2> HIDE DEF a, b
  <2> DEFINE q == n \div B
  <2>1. q \in Nat /\ q < B
    <3>1. n < B * B /\ B > 0
      BY <1>1, <1>6
    <3> QED
      BY <1>1, <3>1, DivBelow
  <2>2. n = B * q + (n % B)
    BY <1>1, DivMod
  <2>3. a = q % B /\ b = n % B
    BY <1>4, <1>6
  <2> HIDE DEF q
  <2>4. q = B * 0 + q /\ q \in 0..(B - 1)
    BY <1>1, <2>1
  <2>5. q % B = q
    BY <1>1, <2>4, DivUnique
  <2> QED
    BY <1>1, <1>2, <2>2, <2>3, <2>5
<1> QED
  BY <1>3, <1>5, <1>6

(* A length in eight bytes, or whatever LongBytes is. *)
LEMMA ManyBytes ==
    ASSUME NEW f \in Frame, f.len7 = Short + 2, Len(f.ext) = LongBytes, NEW n \in Nat
    PROVE  /\ length(f) \in Nat
           /\ f.ext[1] >= Base \div 2 <=> length(f) >= (Base \div 2) * Power[LongBytes - 1]
           /\ n < (Base \div 2) * Power[LongBytes - 1] => (f.ext = Digits(n, LongBytes) <=> length(f) = n)
<1> DEFINE N == LongBytes
           W == Power[N]
           P == Power[N - 1]
           h == Base \div 2
           e == f.ext
<1>1. /\ Base \in Nat /\ Base > 1 /\ N \in Nat /\ N > 2 /\ W \in Nat /\ W > 0
      /\ P \in Nat /\ P > 0 /\ W = Base * P /\ \A i \in 1..N : e[i] \in Byte
  <2>1. N \in 1..N /\ N \in 0..N /\ Base \in Nat /\ Base > 1 /\ N \in Nat /\ N > 2
    BY PowerIs
  <2>2. N - 1 \in 0..N /\ W = Base * P /\ W \in Nat /\ W > 0
    BY <2>1, PowerIs
  <2>3. P \in Nat /\ P > 0
    BY <2>2, PowerIs
  <2>4. e \in Seq(Byte) /\ Len(e) = N
    BY DEF Frame
  <2> QED
    BY <2>1, <2>2, <2>3, <2>4
<1>2. \A x : e = Digits(x, N) <=> IsDigits(e, N, x)
  <2>1. e = [i \in 1..N |-> e[i]]
    <3>1. e \in Seq(Byte) /\ Len(e) = N
      BY DEF Frame
    <3> HIDE DEF e
    <3> QED
      BY <3>1
  <2> SUFFICES ASSUME NEW x PROVE e = Digits(x, N) <=> IsDigits(e, N, x)
    OBVIOUS
  <2>2. Digits(x, N) = [i \in 1..N |-> (x \div Power[N - i]) % Base]
    BY DEF Digits
  <2> HIDE DEF e
  <2> QED
    BY <2>1, <2>2 DEF IsDigits
<1>3. length(f) = LongLength(f)
  <2>1. Short + 2 # Short + 1
    BY SmallPowers
  <2> QED
    BY <2>1 DEF length
<1>4. PICK x \in 0..(W - 1) : IsDigits(e, N, x)
  <2>1. N \in 0..N
    BY <1>1
  <2> QED
    BY <1>1, <2>1, DigitsOf
<1>5. length(f) = x /\ x \in Nat /\ x < W
  BY <1>1, <1>3, <1>4, LoopReads
<1>6. h \in Nat /\ h * P \in Nat /\ h * P <= W
  <2>1. h \in Nat /\ h <= Base
    BY <1>1
  <2> HIDE DEF h, P, W
  <2> QED
    BY <1>1, <2>1
<1>7. e[1] = x \div P
  <2>1. 1 \in 1..N
    BY <1>1
  <2>2. e[1] = (x \div P) % Base
    BY <1>4, <2>1 DEF IsDigits
  <2> HIDE DEF P, W, e
  <2> DEFINE q == x \div P
  <2>3. q \in Nat /\ q < Base
    BY <1>1, <1>5, DivBelow
  <2> HIDE DEF q
  <2>4. q = Base * 0 + q /\ q \in 0..(Base - 1)
    BY <1>1, <2>3
  <2>5. q % Base = q
    BY <1>1, <2>4, DivUnique
  <2> QED
    BY <2>2, <2>5 DEF q
<1>8. e[1] >= h <=> x >= h * P
  <2> HIDE DEF P, h, e
  <2> QED
    BY <1>1, <1>5, <1>6, <1>7, QuotientAtLeast
<1>9. ASSUME n < h * P, e = Digits(n, N) PROVE length(f) = n
  <2>1. n \in 0..(W - 1) /\ IsDigits(e, N, n)
    <3>1. IsDigits(e, N, n)
      BY <1>2, <1>9
    <3> HIDE DEF h, P, W
    <3> QED
      BY <1>1, <1>6, <1>9, <3>1
  <2> QED
    BY <1>3, <2>1, LoopReads
<1>10. length(f) = n => e = Digits(n, N)
  BY <1>2, <1>4, <1>5
<1> QED
  BY <1>5, <1>8, <1>9, <1>10

(* The reader takes exactly the shortest encodings, whatever the payload of  *)
(* the others.                                                               *)
LEMMA EncodingIs ==
    ASSUME NEW f \in ClientFrames PROVE WellEncoded(f) <=> ~NonMinimal(f)
<1> DEFINE n == Len(f.payload)
           h == Base \div 2
           P == Power[LongBytes - 1]
<1>1. f \in Frame /\ Len(f.ext) = ExtBytes(f) /\ (NonMinimal(f) \/ length(f) = n)
  BY FramesAssumption
<1>2. /\ n \in Nat /\ Short \in Nat /\ f.len7 \in 0..(Short + 2) /\ f.ext \in Seq(Byte)
      /\ Power[2] \in Nat /\ Short < Power[2] /\ Power[2] = Base * Base
  BY <1>1, SmallPowers, PowerIs DEF Frame
<1>3. WellEncoded(f) <=>
          \/ f.len7 = n /\ n <= Short /\ f.ext = <<>>
          \/ f.len7 = Short + 1 /\ n > Short /\ n < Power[2] /\ f.ext = Digits(n, 2)
          \/ /\ f.len7 = Short + 2 /\ n >= Power[2] /\ f.ext = Digits(n, LongBytes)
             /\ n < h * P
  BY <1>1, WellEncodedIs
<1> HIDE DEF n, h, P
<1>4. CASE f.len7 \in 0..Short
  <2>1. f.len7 # Short + 1 /\ f.len7 # Short + 2
    BY <1>2, <1>4
  <2>2. length(f) = f.len7 /\ ~NonMinimal(f)
    BY <2>1 DEF length, NonMinimal
  <2>3. f.ext = <<>>
    BY <1>1, <1>2, <2>1 DEF ExtBytes
  <2> QED
    BY <1>1, <1>2, <1>3, <1>4, <2>2, <2>3
<1>5. CASE f.len7 = Short + 1
  <2>1. Short + 1 # Short + 2 /\ ~(Short + 1 <= Short)
    BY <1>2
  <2>2. Len(f.ext) = 2
    BY <1>1, <1>5 DEF ExtBytes
  <2>3. NonMinimal(f) <=> length(f) <= Short
    BY <1>5, <2>1 DEF NonMinimal
  <2>4. /\ length(f) \in Nat /\ length(f) < Power[2]
        /\ n < Power[2] => (f.ext = Digits(n, 2) <=> length(f) = n)
    BY <1>1, <1>2, <1>5, <2>2, TwoBytes
  <2>5. WellEncoded(f) <=> n > Short /\ n < Power[2] /\ f.ext = Digits(n, 2)
    BY <1>2, <1>3, <1>5, <2>1
  <2> QED
    BY <1>1, <1>2, <2>3, <2>4, <2>5
<1>6. CASE f.len7 = Short + 2
  <2>1. Short + 2 # Short + 1 /\ ~(Short + 2 <= Short)
    BY <1>2
  <2>2. Len(f.ext) = LongBytes
    BY <1>1, <1>6, <2>1 DEF ExtBytes
  <2>3. NonMinimal(f) <=> f.ext[1] >= h \/ length(f) < Power[2]
    BY <1>6, <2>1 DEF NonMinimal, h
  <2>4. /\ length(f) \in Nat
        /\ f.ext[1] >= h <=> length(f) >= h * P
        /\ n < h * P => (f.ext = Digits(n, LongBytes) <=> length(f) = n)
    BY <1>1, <1>2, <1>6, <2>2, ManyBytes DEF h, P
  <2>5. WellEncoded(f) <=> n >= Power[2] /\ f.ext = Digits(n, LongBytes) /\ n < h * P
    BY <1>2, <1>3, <1>6, <2>1
  <2>6. h * P \in Nat
    <3>1. h \in Nat
      BY PowerIs DEF h
    <3>2. P \in Nat
      BY PowerIs DEF P
    <3> QED
      BY <3>1, <3>2
  <2> QED
    BY <1>1, <1>2, <2>3, <2>4, <2>5, <2>6
<1> QED
  BY <1>2, <1>4, <1>5, <1>6
-----------------------------------------------------------------------------
(* The close codes *)

(* A message is begun by a fragment and kept open by all but a final one. *)
LEMMA UnfinishedAppend ==
    ASSUME NEW s \in Seq(Frame), NEW f \in Frame
    PROVE  Unfinished(Append(s, f)) <=>
              \/ f.opcode = "binary" /\ ~f.fin
              \/ Unfinished(s) /\ ~Final(f)
<1> DEFINE t == Append(s, f)
           n == Len(s)
           Open(u, i) == /\ u[i].opcode = "binary" /\ ~u[i].fin
                         /\ \A j \in i..Len(u) : u[j].opcode \in Data => ~u[j].fin
<1>1. /\ n \in Nat /\ Len(t) = n + 1 /\ t[n + 1] = f /\ \A i \in 1..n : t[i] = s[i]
      /\ DOMAIN t = 1..(n + 1) /\ DOMAIN s = 1..n
  BY AppendFrame
<1> HIDE DEF t
<1>2. Open(t, n + 1) <=> f.opcode = "binary" /\ ~f.fin
  <2>1. \A j \in (n + 1)..Len(t) : j = n + 1
    BY <1>1
  <2>2. n + 1 \in (n + 1)..Len(t)
    BY <1>1
  <2> QED
    BY <1>1, <2>1, <2>2
<1>3. \A i \in 1..n : Open(t, i) <=> Open(s, i) /\ ~Final(f)
  <2>1. SUFFICES ASSUME NEW i \in 1..n PROVE Open(t, i) <=> Open(s, i) /\ ~Final(f)
    OBVIOUS
  <2>2. /\ \A j \in i..Len(t) : (j \in i..n /\ j \in 1..n) \/ j = n + 1
        /\ \A j \in i..n : j \in i..Len(t) /\ j \in 1..n
        /\ n + 1 \in i..Len(t)
    BY <1>1
  <2>3. (\A j \in i..Len(t) : t[j].opcode \in Data => ~t[j].fin)
        <=> (\A j \in i..n : s[j].opcode \in Data => ~s[j].fin) /\ ~Final(f)
    BY <1>1, <2>2 DEF Final
  <2> QED
    BY <1>1, <2>3
<1>4. Unfinished(t) <=> \E i \in 1..(n + 1) : Open(t, i)
  BY <1>1 DEF Unfinished
<1>5. Unfinished(s) <=> \E i \in 1..n : Open(s, i)
  BY <1>1 DEF Unfinished
<1> HIDE DEF Open
<1>6. (\E i \in 1..(n + 1) : Open(t, i)) <=> Open(t, n + 1) \/ \E i \in 1..n : Open(t, i)
  <2>1. (\A i \in 1..(n + 1) : i = n + 1 \/ i \in 1..n) /\ n + 1 \in 1..(n + 1) /\ \A i \in 1..n : i \in 1..(n + 1)
    BY <1>1
  <2> QED
    BY <2>1
<1> QED
  BY <1>2, <1>3, <1>4, <1>5, <1>6 DEF t

(* The header is refused with 1002 if it is malformed, else with 1009 if it   *)
(* announces more than a message may hold; a control frame never does.        *)
LEMMA FrameErrorIs ==
    ASSUME NEW f \in ClientFrames
    PROVE  frameError(f) = IF ~WellFormed(f) THEN 1002
                           ELSE IF f.opcode \notin Control /\ Len(f.payload) > MaxMessage THEN 1009 ELSE 0
<1>1. f \in Frame /\ (NonMinimal(f) \/ length(f) = Len(f.payload)) /\ (WellEncoded(f) <=> ~NonMinimal(f))
  BY FramesAssumption, EncodingIs
<1>2. Len(f.payload) \in Nat /\ Short \in Nat /\ MaxMessage \in Nat /\ Short <= MaxMessage
  BY <1>1, PayloadType, FrameAssumption
<1>3. f.rsv \in BOOLEAN /\ f.masked \in BOOLEAN /\ f.fin \in BOOLEAN
  BY <1>1 DEF Frame
<1>4. CASE NonMinimal(f)
  BY <1>1, <1>4 DEF frameError, WellFormed
<1>5. CASE ~NonMinimal(f)
  <2>1. length(f) = Len(f.payload) /\ (f.opcode \in Control /\ ~(Len(f.payload) > Short) => ~(Len(f.payload) > MaxMessage))
        /\ (Len(f.payload) <= Short <=> ~(Len(f.payload) > Short))
    BY <1>1, <1>2, <1>5
  <2> QED
    BY <1>1, <1>3, <1>5, <2>1 DEF frameError, WellFormed
<1> QED
  BY <1>4, <1>5

(* The code answers close frames so. *)
LEMMA CloseAnswerIs ==
    ASSUME NEW f \in Frame, payload(f) = f.payload
    PROVE  closeAnswer(f) = CloseVerdict(f) /\ closeAnswer(f) \in {0, 1002, 1007}
<1>1. f.payload \in Seq(Nat) /\ f.code \in Nat /\ f.utf8 \in BOOLEAN
  BY DEF Frame
<1>2. Len(f.payload) \in Nat /\ (Len(f.payload) = 0 <=> f.payload = <<>>)
  BY <1>1
<1> DEFINE Allowed(c) == c \in (1000..1003) \cup (1007..1014) \cup (3000..4999)
<1>3. validCloseCode(f.code) <=> Allowed(f.code)
  <2>1. \A c \in Nat : validCloseCode(c) <=> Allowed(c)
    BY DEF validCloseCode
  <2> HIDE DEF Allowed
  <2> QED
    BY <1>1, <2>1
<1>4. closeAnswer(f) = IF Len(f.payload) = 0 THEN 0
                       ELSE IF Len(f.payload) = 1 THEN 1002
                       ELSE IF ~validCloseCode(f.code) THEN 1002 ELSE IF ~f.utf8 THEN 1007 ELSE 0
  <2>1. CASE Len(f.payload) = 0
    BY <2>1 DEF closeAnswer
  <2>2. CASE Len(f.payload) = 1
    BY <2>2 DEF closeAnswer
  <2>3. CASE Len(f.payload) # 0 /\ Len(f.payload) # 1
    BY <2>3 DEF closeAnswer
  <2> QED
    BY <2>1, <2>2, <2>3
<1> QED
  BY <1>1, <1>2, <1>3, <1>4 DEF CloseVerdict

(* The code that a frame calls for, after the messages of log and with the    *)
(* reader's knowledge of them, by the event that the frame is.                *)
LEMMA VerdictIs ==
    ASSUME MessageInv, Alive, frags.open <=> Unfinished(log), NEW f \in ClientFrames
    PROVE  LET ev == nextEvent(frags, f)
           IN  /\ ev.kind = "error" => ev.code \in {1002, 1009} /\ Verdict(Append(log, f)) = ev.code
               /\ ev.kind = "close" => /\ closeAnswer(f) \in {0, 1002, 1007}
                                       /\ Verdict(Append(log, f)) = closeAnswer(f)
               /\ ev.kind \notin {"error", "close"} => Verdict(Append(log, f)) = NoClose
<1> DEFINE ev == nextEvent(frags, f)
           s == Append(log, f)
           size == Len(f.payload)
           Improper == f.opcode = "text" \/ (f.opcode = "binary" <=> Unfinished(log))
           whole == Len(Message(s, Len(log) + 1))
<1>1. f \in Frame /\ log \in Seq(Frame) /\ size \in Nat /\ f.payload \in Seq(Nat)
  BY FramesAssumption, PayloadType DEF MessageInv
<1>2. Last(s) = f /\ Front(s) = log /\ Len(s) = Len(log) + 1
  <2>1. Len(log) \in Nat /\ Len(s) = Len(log) + 1 /\ s[Len(log) + 1] = f
    BY <1>1, AppendFrame
  <2>2. SubSeq(s, 1, Len(log)) = log
    BY <1>1
  <2>3. Len(s) - 1 = Len(log)
    BY <2>1
  <2> QED
    BY <2>1, <2>2, <2>3 DEF Last, Front
<1>3. Verdict(s) = IF ~WellFormed(f) THEN 1002
                   ELSE IF f.opcode = "close" THEN CloseVerdict(f)
                   ELSE IF f.opcode \in Control THEN NoClose
                   ELSE IF size > MaxMessage THEN 1009
                   ELSE IF Improper THEN 1002
                   ELSE IF whole > MaxMessage THEN 1009 ELSE NoClose
  BY <1>2 DEF Verdict
<1>4. frameError(f) = IF ~WellFormed(f) THEN 1002
                      ELSE IF f.opcode \notin Control /\ size > MaxMessage THEN 1009 ELSE 0
  BY FrameErrorIs
<1> HIDE DEF size, whole, s
<1>5. CASE frameError(f) # 0
  <2>1. ev.kind = "error" /\ ev.code = frameError(f)
    BY <1>5 DEF nextEvent, Failure, Event
  <2>2. frameError(f) \in {1002, 1009}
    BY <1>4, <1>5
  <2>3. Verdict(s) = frameError(f)
    BY <1>3, <1>4, <1>5 DEF Control
  <2> HIDE DEF ev
  <2> QED
    BY <2>1, <2>2, <2>3 DEF s, ev
<1>6. CASE frameError(f) = 0
  <2>0. WellFormed(f) /\ (f.opcode \in Control \/ ~(size > MaxMessage))
    BY <1>4, <1>6
  <2>1. CASE f.opcode \in Control
    <3>1. ev.kind = f.opcode
      BY <1>6, <2>1 DEF nextEvent, Event
    <3>2. Verdict(s) = IF f.opcode = "close" THEN CloseVerdict(f) ELSE NoClose
      BY <1>3, <2>0, <2>1
    <3>3. closeAnswer(f) = CloseVerdict(f) /\ closeAnswer(f) \in {0, 1002, 1007}
      BY <1>6, PayloadWhole, CloseAnswerIs
    <3>4. f.opcode # "error"
      BY <2>1 DEF Control
    <3> HIDE DEF ev
    <3> QED
      BY <3>1, <3>2, <3>3, <3>4 DEF s, ev
  <2>2. CASE f.opcode \notin Control
    <3>1. Verdict(s) = IF DataError(frags, f) # 0 THEN DataError(frags, f) ELSE NoClose
      <4>1. frags.open \in BOOLEAN /\ frags.bytes \in Seq(Nat) /\ Len(frags.bytes) \in Nat /\ MaxMessage \in Nat
        BY FrameAssumption DEF MessageInv
      <4>2. Verdict(s) = IF Improper THEN 1002 ELSE IF whole > MaxMessage THEN 1009 ELSE NoClose
        BY <1>3, <2>0, <2>2 DEF Control
      <4>3. CASE Improper
        <5>1. DataError(frags, f) = 1002
          BY <4>1, <4>3 DEF DataError
        <5> QED
          BY <4>2, <4>3, <5>1
      <4>4. CASE ~Improper /\ DataError(frags, f) = 0
        <5>1. whole <= MaxMessage /\ whole \in Nat
          BY <1>1, <1>6, <2>2, <4>4, DataFrame DEF whole, s
        <5> QED
          BY <4>1, <4>2, <4>4, <5>1
      <4>5. CASE ~Improper /\ DataError(frags, f) # 0
        <5>1. /\ f.opcode = "continuation" /\ frags.open /\ DataError(frags, f) = 1009
              /\ Len(frags.bytes) > MaxMessage - Len(payload(f))
          BY <4>1, <4>5 DEF DataError, TooLong
        <5>2. frags.bytes = Message(log, Len(log)) /\ \E j \in 1..Len(log) : log[j].opcode = "binary"
          BY <5>1 DEF MessageInv
        <5>3. Message(Append(log, f), Len(log) + 1) = frags.bytes \o f.payload
          BY <1>1, <5>1, <5>2, MessageGoesOn DEF Data
        <5>4. whole = Len(frags.bytes) + size
          BY <1>1, <4>1, <5>3, ConcatProperties DEF whole, size, s
        <5>5. size = Len(payload(f))
          BY <1>6, PayloadWhole DEF size
        <5>6. whole > MaxMessage
          <6>1. \A a, b, m \in Nat : a > m - b => a + b > m
            OBVIOUS
          <6>2. Len(frags.bytes) > MaxMessage - size
            BY <5>1, <5>5
          <6> QED
            BY <1>1, <4>1, <5>4, <6>1, <6>2 DEF size
        <5> QED
          BY <4>2, <4>5, <5>1, <5>6
      <4> QED
        BY <4>3, <4>4, <4>5
    <3>2. DataError(frags, f) \in {0, 1002, 1009}
      BY DEF DataError
    <3>3. IF DataError(frags, f) # 0 THEN ev.kind = "error" /\ ev.code = DataError(frags, f)
          ELSE ev.kind \in {"binary", "none"}
      BY <1>6, <2>2 DEF nextEvent, Failure, Event
    <3> HIDE DEF ev
    <3> QED
      BY <3>1, <3>2, <3>3 DEF s, ev
  <2> QED
    BY <2>1, <2>2
<1> QED
  BY <1>5, <1>6

(* The inductive invariant besides MessageInv: a reader that waits has nothing *)
(* to write, and it knows whether the stream is within a message.              *)
ReaderInv ==
    /\ step["reader"] = "read" => job["reader"] = NoJob
    /\ Alive => (frags.open <=> Unfinished(log))

(* No message was begun. *)
LEMMA InitReaderInv == Init => ReaderInv
<1> SUFFICES ASSUME Init PROVE ReaderInv
  OBVIOUS
<1>1. job["reader"] = NoJob /\ ~frags.open
  BY Names DEF Init, Started
<1>2. ~Unfinished(log)
  BY DEF Init, Unfinished
<1> QED
  BY <1>1, <1>2 DEF ReaderInv

(* A step other than the reading of a frame leaves the stream alone; the      *)
(* reader does not start again, and waits only when its work is done.         *)
ReaderGoesOn ==
    /\ UNCHANGED <<log, frags>>
    /\ Alive' => Alive
    /\ \/ step'["reader"] # "read" \/ job'["reader"] = NoJob
       \/ step'["reader"] = step["reader"] /\ job'["reader"] = job["reader"]

(* Every step but the reading of a frame is such a step. *)
LEMMA NotReadFrame ==
    ASSUME MessageInv, [Next]_vars
    PROVE  ReaderGoesOn \/ \E f \in ClientFrames, n \in 0..MaxPings : readFrame(f, n)
<1> SUFFICES ASSUME ~\E f \in ClientFrames, n \in 0..MaxPings : readFrame(f, n) PROVE ReaderGoesOn
  OBVIOUS
<1>1. ASSUME NEW p \in Goroutines, NEW s, Goto(p, s), UNCHANGED <<job, log, frags>>,
             p = "reader" => \/ s \in {"closing", "ended"}
                             \/ s = "write" /\ step[p] = "lock"
                             \/ s = "swap" /\ step[p] = "ack"
      PROVE  ReaderGoesOn
  <2>1. step'[p] = s /\ \A q \in Goroutines : q # p => step'[q] = step[q]
    BY <1>1, GotoMessage
  <2> QED
    BY <1>1, <2>1, Names DEF ReaderGoesOn, Alive
<1>2. ASSUME NEW p \in Writers, NEW s, NEW j, Begin(p, s, j), UNCHANGED <<log, frags>>,
             p = "reader" => \/ s = "read" /\ j = NoJob /\ Alive
                             \/ s = "closing"
                             \/ s = "lock" /\ j.kind = "close"
      PROVE  ReaderGoesOn
  <2>1. /\ step'[p] = s /\ \A q \in Goroutines : q # p => step'[q] = step[q]
        /\ job'[p] = j /\ \A q \in Writers : q # p => job'[q] = job[q]
    BY <1>2, BeginMessage
  <2> QED
    BY <1>2, <2>1, Names DEF ReaderGoesOn, Alive
<1>3. CASE UNCHANGED <<step, job, log, frags>>
  BY <1>3 DEF ReaderGoesOn, Alive
<1>4. ASSUME NEW p \in Goroutines, closeBoth(p) PROVE ReaderGoesOn
  <2>1. Goto(p, "ended") /\ UNCHANGED <<job, log, frags>>
    BY <1>4 DEF closeBoth, hist
  <2> QED
    BY <1>1, <2>1
<1>5. CASE disconnect
  BY <1>3, <1>5 DEF disconnect, hist
<1>6. ASSUME NEW p \in Writers, lock(p) PROVE ReaderGoesOn
  <2>1. Goto(p, "write") /\ step[p] = "lock" /\ UNCHANGED <<job, log, frags>> /\ p \in Goroutines
    BY <1>6, Names DEF lock, hist
  <2> QED
    BY <1>1, <2>1
<1>7. ASSUME NEW p \in Writers, NEW ok \in BOOLEAN, write(p, ok) PROVE ReaderGoesOn
  <2> DEFINE s == IF ok THEN AfterWrite(p) ELSE "closing"
             j == IF ok /\ AfterWrite(p) = "lock" THEN Close(job[p].code) ELSE NoJob
  <2>1. Begin(p, s, j) /\ step[p] = "write" /\ UNCHANGED <<log, frags>>
    BY <1>7 DEF write, hist
  <2>2. p = "reader" => \/ s = "read" /\ j = NoJob /\ job[p].kind # "close"
                        \/ s = "closing"
                        \/ s = "lock" /\ j.kind = "close"
    BY NoJobTyped DEF AfterWrite
  <2> HIDE DEF s, j
  <2>3. p = "reader" /\ job[p].kind # "close" => Alive
    BY <2>1 DEF Alive
  <2> QED
    BY <1>2, <2>1, <2>2, <2>3
<1>8. ASSUME NEW data \in BOOLEAN, NEW err \in Errors, telegramRead(data, err) PROVE ReaderGoesOn
  <2>1. PICK j : Begin("copier", "lock", j) /\ UNCHANGED <<log, frags>>
    BY <1>8 DEF telegramRead, hist
  <2>2. "copier" \in Writers
    BY DEF Writers
  <2> QED
    BY <1>2, <2>1, <2>2
<1>9. CASE readFails
  <2>1. Begin("reader", "lock", Close(1002)) /\ UNCHANGED <<log, frags>>
    BY <1>9 DEF readFails, hist
  <2> QED
    BY <1>2, <2>1, NoJobTyped, Names
<1>10. ASSUME NEW ok \in BOOLEAN, forward(ok) PROVE ReaderGoesOn
  <2>1. /\ step["reader"] = "forward" /\ UNCHANGED <<log, frags>>
        /\ Begin("reader", "read", NoJob) \/ Begin("reader", "lock", Close(1011))
    BY <1>10 DEF forward
  <2> QED
    BY <1>2, <2>1, NoJobTyped, Names DEF Alive
<1>11. CASE acknowledge
  <2>1. step["reader"] = "ack" /\ Goto("reader", "swap") /\ UNCHANGED <<job, log, frags>>
    BY <1>11 DEF acknowledge, hist
  <2> QED
    BY <1>1, <2>1, Names DEF Alive
<1>12. CASE swap
  <2>1. step["reader"] = "swap" /\ Begin("reader", "read", NoJob) /\ UNCHANGED <<log, frags>>
    BY <1>12 DEF swap, hist
  <2> QED
    BY <1>2, <2>1, Names DEF Alive
<1>13. CASE tick
  <2>1. PICK j : Begin("heartbeat", "lock", j) /\ UNCHANGED <<log, frags>>
    BY <1>13 DEF tick, hist
  <2> QED
    BY <1>2, <2>1, Names
<1>14. CASE pongTimeout
  <2>1. PICK s : Goto("heartbeat", s) /\ UNCHANGED <<job, log, frags>>
    BY <1>14 DEF pongTimeout, hist
  <2> QED
    BY <1>1, <2>1, Names
<1>15. ASSUME NEW p \in Goroutines, doneClosed(p) PROVE ReaderGoesOn
  BY <1>1, <1>15 DEF doneClosed, hist
<1>16. CASE watch
  <2>1. Goto("watchdog", "closing") /\ UNCHANGED <<job, log, frags>> /\ "watchdog" \in Goroutines
    BY <1>16 DEF watch, hist, Goroutines
  <2> QED
    BY <1>1, <2>1
<1>17. CASE timePasses \/ UNCHANGED vars
  BY <1>3, <1>17 DEF timePasses, vars, hist
<1> QED
  BY <1>4, <1>5, <1>6, <1>7, <1>8, <1>9, <1>10, <1>11, <1>12, <1>13, <1>14, <1>15, <1>16, <1>17 DEF Next

(* Reading a frame: the reader closes as the stream calls for, and knows on.  *)
LEMMA ReadFrameCloses ==
    ASSUME MessageInv, ReaderInv, NEW f \in ClientFrames, NEW n \in 0..MaxPings, readFrame(f, n),
           log' = Append(log, f)
    PROVE  /\ ReaderInv'
           /\ IF Verdict(log') = NoClose THEN job'["reader"].kind # "close"
              ELSE job'["reader"] = Close(Verdict(log'))
<1> DEFINE ev == nextEvent(frags, f)
<1>1. /\ step["reader"] = "read" /\ Alive /\ job["reader"] = NoJob
      /\ log' = Append(log, f) /\ frags' = fragments(frags, f)
      /\ log \in Seq(Frame) /\ f \in Frame /\ (frags.open <=> Unfinished(log))
      /\ f.fin \in BOOLEAN /\ frags.open \in BOOLEAN
  BY FramesAssumption DEF readFrame, Alive, ReaderInv, MessageInv, Frame
<1>2. Unfinished(log') <=> (f.opcode = "binary" /\ ~f.fin) \/ (Unfinished(log) /\ ~Final(f))
  BY <1>1, UnfinishedAppend
<1>3. /\ ev.kind = "error" => ev.code \in {1002, 1009} /\ Verdict(log') = ev.code
      /\ ev.kind = "close" => closeAnswer(f) \in {0, 1002, 1007} /\ Verdict(log') = closeAnswer(f)
      /\ ev.kind \notin {"error", "close"} => Verdict(log') = NoClose
  BY <1>1, VerdictIs
<1>4. NoClose \notin {0, 1002, 1007, 1009}
  BY DEF NoClose
<1>5. CASE ev.kind \in {"error", "close"}
  <2>1. Begin("reader", "lock", CloseFor(ev, f))
    BY <1>5 DEF readFrame
  <2>2. CloseFor(ev, f) = Close(Verdict(log')) /\ Verdict(log') # NoClose
    BY <1>3, <1>4, <1>5 DEF CloseFor
  <2>3. step'["reader"] = "lock" /\ job'["reader"] = Close(Verdict(log'))
    BY <2>1, <2>2, BeginMessage, Names
  <2>4. ~Alive'
    BY <2>3, NoJobTyped DEF Alive
  <2> QED
    BY <2>2, <2>3, <2>4 DEF ReaderInv
<1>6. CASE ev.kind \notin {"error", "close"}
  <2>1. \/ frameError(f) = 0 /\ f.opcode \in {"ping", "pong"} /\ ev.kind = f.opcode
        \/ /\ frameError(f) = 0 /\ f.opcode \notin Control /\ DataError(frags, f) = 0
           /\ ev.kind = IF f.fin THEN "binary" ELSE "none"
    BY <1>6 DEF nextEvent, Failure, Event, Control
  <2>2. frags'.open <=> Unfinished(log')
    <3>1. CASE f.opcode \in {"ping", "pong"} /\ ev.kind = f.opcode
      <4>1. frags' = frags /\ ~Final(f) /\ f.opcode # "binary"
        BY <1>1, <3>1 DEF fragments, Final, Data
      <4> QED
        BY <1>1, <1>2, <4>1
    <3>2. CASE /\ frameError(f) = 0 /\ f.opcode \notin Control /\ DataError(frags, f) = 0
               /\ ev.kind = IF f.fin THEN "binary" ELSE "none"
      <4>1. f.opcode \in Data
        BY <1>1, <3>2, DataFrame
      <4>2. frags'.open <=> ~f.fin
        BY <1>1, <3>2 DEF fragments, Started
      <4>3. f.opcode = "continuation" => Unfinished(log)
        BY <1>1, <3>2 DEF DataError
      <4> QED
        BY <1>1, <1>2, <4>1, <4>2, <4>3 DEF Final, Data
    <3> QED
      BY <2>1, <3>1, <3>2
  <2>3. \/ UNCHANGED <<step, job>>
        \/ \E s \in {"forward", "lock", "ack"}, kind \in {"message", "pong"} : \E bytes, c :
              Begin("reader", s, Work(kind, bytes, c))
    BY <1>6, <2>1 DEF readFrame
  <2>4. job'["reader"].kind # "close" /\ (step'["reader"] = "read" => job'["reader"] = NoJob)
    <3>1. CASE UNCHANGED <<step, job>>
      BY <1>1, <3>1, NoJobTyped
    <3>2. ASSUME NEW s \in {"forward", "lock", "ack"}, NEW j, j.kind # "close", Begin("reader", s, j)
          PROVE  job'["reader"].kind # "close" /\ (step'["reader"] = "read" => job'["reader"] = NoJob)
      BY <3>2, BeginMessage, Names
    <3>3. \A kind \in {"message", "pong"} : \A bytes, c : Work(kind, bytes, c).kind # "close"
      BY DEF Work
    <3> QED
      BY <2>3, <3>1, <3>2, <3>3
  <2> QED
    BY <1>3, <1>6, <2>2, <2>4 DEF ReaderInv
<1> QED
  BY <1>5, <1>6

(* Every step keeps ReaderInv, and a frame makes the reader close only as the *)
(* stream calls for.                                                          *)
LEMMA NextReaderInv ==
    ASSUME MessageInv, ReaderInv, [Next]_vars
    PROVE  /\ ReaderInv'
           /\ log' # log => IF Verdict(log') = NoClose THEN job'["reader"].kind # "close"
                            ELSE job'["reader"] = Close(Verdict(log'))
<1>1. ReaderGoesOn => ReaderInv' /\ log' = log
  BY DEF ReaderGoesOn, ReaderInv
<1>2. ASSUME NEW f \in ClientFrames, NEW n \in 0..MaxPings, readFrame(f, n), log' # Append(log, f)
      PROVE  ReaderGoesOn
  BY <1>2, UnrecordedFrame DEF ReaderGoesOn
<1> QED
  BY <1>1, <1>2, NotReadFrame, ReadFrameCloses

(* The close code is the right one for every stream of frames: a client that  *)
(* breaks a rule is told which, and one that breaks none is not cut off.      *)
THEOREM BridgeRightCloseCode == Spec => RightCloseCode
<1>1. MessageInv /\ ReaderInv /\ [Next]_vars => MessageInv' /\ ReaderInv'
  BY NextMessageInv, NextReaderInv
<1>2. ASSUME MessageInv, ReaderInv, [Next]_vars
      PROVE  [log' # log => IF Verdict(log') = NoClose THEN job'["reader"].kind # "close"
                            ELSE job'["reader"] = Close(Verdict(log'))]_vars
  BY <1>2, NextReaderInv
<1> QED
  BY <1>1, <1>2, InitMessageInv, InitReaderInv, PTL DEF Spec, RightCloseCode
=============================================================================
