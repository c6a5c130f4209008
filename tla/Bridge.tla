------------------------------- MODULE Bridge -------------------------------
(***************************************************************************)
(* One session between a client's WebSocket and Telegram (bridgeWebSocket, *)
(* heartbeatLoop, idleWatchdog and websocketWriter in                      *)
(* internal/relay/websocket.go): four goroutines that share two            *)
(* connections, a writer with a mutex, two atomics of the heartbeat, the   *)
(* time of the last activity and the channel `done`.                       *)
(*                                                                         *)
(* What the peers send is chosen when it is read.  The payload of a pong   *)
(* is its sequence number; frames of Telegram's data are not told apart.   *)
(* Operators named Mut... are variants of the operator after them with a   *)
(* plausible bug: they show that the properties can fail.                  *)
(***************************************************************************)
EXTENDS FrameReader

CONSTANTS
    ClientFrames,    \* the frames the client may send
    IdleTimeouts,    \* the configured idleTimeout, 0 for none
    Chunks,          \* bound: reads of Telegram's connection
    MaxFrames,       \* bound: frames the history keeps
    MaxPings         \* bound: pings of the heartbeat

ASSUME BoundsAssumption == Chunks \in Nat /\ MaxFrames \in Nat /\ MaxPings \in Nat

(* io.ReadFull returns only with all the bytes it was asked for: a frame     *)
(* that is cut off is no frame but readFails.  The payload is what the header *)
(* announces; where that is no length, it is never read.                     *)
ExtBytes(f) == IF f.len7 = Short + 1 THEN 2 ELSE IF f.len7 = Short + 2 THEN LongBytes ELSE 0

ASSUME FramesAssumption ==
    \A f \in ClientFrames :
        f \in Frame /\ Len(f.ext) = ExtBytes(f) /\ (NonMinimal(f) \/ length(f) = Len(f.payload))

VARIABLES
    step,        \* where each goroutine is
    idle,        \* bridgeSettings.idleTimeout
    done,        \* whether `done` is closed
    client,      \* whether the relay still has the client's connection open
    telegram,    \* the same for Telegram's
    mu,          \* who holds websocketWriter.mu
    frags,       \* clientFrameReader.fragmented
    job,         \* what each writer is about to write
    sequence, expectedPong, acknowledgedPong,
    age,         \* the time since lastApplicationActivity
    chunks,      \* reads of Telegram's connection so far
    log,         \* history: the frames read, up to MaxFrames
    forwarded    \* history: the messages written to Telegram

pongs == <<sequence, expectedPong, acknowledgedPong>>
conns == <<done, client, telegram>>
hist  == <<log, forwarded>>
vars  == <<step, idle, conns, mu, frags, job, pongs, age, chunks, hist>>

Goroutines == {"reader", "copier", "heartbeat", "watchdog"}
Writers    == {"reader", "copier", "heartbeat"}
Nobody     == "nobody"

StepsOf(p) ==
    {"closing", "ended"} \cup
    CASE p = "reader"    -> {"read", "forward", "lock", "write", "ack", "swap"}
      [] p = "copier"    -> {"read", "lock", "write"}
      [] p = "heartbeat" -> {"ready", "lock", "write", "await"}
      [] p = "watchdog"  -> {"ready"}

(* `bytes` for a message to Telegram; `code` for a close frame (0: the       *)
(* client's own payload), for a pong that is being acknowledged, and for     *)
(* data whose Read also failed (0: it did not).                              *)
Job == [kind : {"none", "message", "data", "ping", "pong", "close"}, bytes : Seq(Nat), code : Nat]

Work(kind, bytes, code) == [kind |-> kind, bytes |-> bytes, code |-> code]
NoJob == Work("none", <<>>, 0)
Close(code) == Work("close", <<>>, code)

TypeOK ==
    /\ DOMAIN step = Goroutines /\ \A p \in Goroutines : step[p] \in StepsOf(p)
    /\ idle \in IdleTimeouts
    /\ done \in BOOLEAN /\ client \in BOOLEAN /\ telegram \in BOOLEAN
    /\ mu \in Writers \cup {Nobody}
    /\ frags.open \in BOOLEAN /\ frags.bytes \in Seq(Nat)
    /\ job \in [Writers -> Job]
    /\ sequence \in 0..MaxPings
    /\ expectedPong \in 0..MaxPings /\ acknowledgedPong \in 0..MaxPings
    /\ age \in 0..idle
    /\ chunks \in 0..Chunks
    /\ Len(log) <= MaxFrames /\ forwarded \in Seq(Seq(Nat))

(* The watchdog is started only when there is a timeout. *)
Init ==
    /\ idle \in IdleTimeouts
    /\ step = [reader |-> "read", copier |-> "read", heartbeat |-> "ready",
               watchdog |-> IF idle > 0 THEN "ready" ELSE "ended"]
    /\ done = FALSE /\ client = TRUE /\ telegram = TRUE
    /\ mu = Nobody
    /\ frags = Started /\ job = [p \in Writers |-> NoJob]
    /\ sequence = 0 /\ expectedPong = 0 /\ acknowledgedPong = 0
    /\ age = 0 /\ chunks = 0
    /\ log = <<>> /\ forwarded = <<>>

Goto(p, s) == step' = [step EXCEPT ![p] = s]

(* A goroutine goes on to step s with something to do. *)
Begin(p, s, j) == Goto(p, s) /\ job' = [job EXCEPT ![p] = j]

AllEnded == step = [p \in Goroutines |-> "ended"]

-----------------------------------------------------------------------------
MutHangUp == done' = TRUE /\ client' = FALSE /\ UNCHANGED telegram

HangUp == done' = TRUE /\ client' = FALSE /\ telegram' = FALSE

(* closeBoth: whoever ends does it, once.  Only the heartbeat and the       *)
(* watchdog may also end because `done` is closed.                          *)
closeBoth(p) ==
    /\ step[p] = "closing"
    /\ Goto(p, "ended")
    /\ IF done THEN UNCHANGED conns
       ELSE HangUp
    /\ UNCHANGED <<idle, mu, frags, job, pongs, age, chunks, hist>>

(* The close function that registerSession was given: it closes the two     *)
(* connections, but not `done`.                                             *)
disconnect ==
    /\ client \/ telegram
    /\ client' = FALSE /\ telegram' = FALSE
    /\ UNCHANGED <<step, idle, done, mu, frags, job, pongs, age, chunks, hist>>

-----------------------------------------------------------------------------
(* websocketWriter: a frame is written under the mutex and a deadline.      *)

lock(p) ==
    /\ step[p] = "lock" /\ mu = Nobody
    /\ mu' = p
    /\ Goto(p, "write")
    /\ UNCHANGED <<idle, conns, frags, job, pongs, age, chunks, hist>>

(* CompareAndSwap(sequence, 0) of the heartbeat. *)
Disarmed == IF expectedPong = sequence THEN 0 ELSE expectedPong

(* The step after a frame that was written whole. *)
AfterWrite(p) ==
    CASE p = "heartbeat" -> "await"
      [] p # "heartbeat" /\ job[p].kind = "close" -> "closing"
      [] OTHER -> IF job[p].code # 0 THEN "lock" ELSE "read"

(* The write succeeds only on an open connection; it fails at the deadline   *)
(* at the latest.  A copier whose Read brought data and an error goes on to  *)
(* the close frame.                                                          *)
write(p, ok) ==
    /\ step[p] = "write"
    /\ ok => client
    /\ mu' = Nobody
    /\ Begin(p, IF ok THEN AfterWrite(p) ELSE "closing",
                IF ok /\ AfterWrite(p) = "lock" THEN Close(job[p].code) ELSE NoJob)
    /\ expectedPong' = IF ~ok /\ p = "heartbeat" THEN Disarmed ELSE expectedPong
    /\ UNCHANGED <<idle, conns, frags, sequence, acknowledgedPong, age, chunks, hist>>

-----------------------------------------------------------------------------
(* The copier: Telegram to client. *)

(* What Telegram's Read failed with, as a close code. *)
ReadCode(err) == CASE err = "none" -> 0 [] err = "EOF" -> 1000 [] OTHER -> 1011

telegramRead(data, err) ==
    /\ step["copier"] = "read"
    /\ IF telegram THEN data \/ err # "none" ELSE ~data /\ err = "error"
    /\ data => chunks < Chunks
    /\ chunks' = IF data THEN chunks + 1 ELSE chunks
    /\ age' = IF data THEN 0 ELSE age
    /\ Begin("copier", "lock", Work(IF data THEN "data" ELSE "close", <<>>, ReadCode(err)))
    /\ UNCHANGED <<idle, conns, mu, frags, pongs, hist>>

-----------------------------------------------------------------------------
(* The reader: client to Telegram. *)

(* The answer to a close frame, or the end of a stream that breaks the rules. *)
CloseFor(ev, f) == Close(IF ev.kind = "close" THEN closeAnswer(f) ELSE ev.code)

MutAnyPong(n) == n # 0

(* A pong of eight bytes with the number of the outstanding ping. *)
Acknowledges(n) == n # 0 /\ expectedPong = n

MutIsActivity(ev) == ev.kind \in {"binary", "pong"}

(* lastApplicationActivity counts whole messages, no control frames. *)
IsActivity(ev) == ev.kind = "binary"

(* A full history takes no more frames but pings and pongs, which it does not *)
(* keep: they may go on for ever.                                             *)
Recorded(ev, f) ==
    \/ Len(log) < MaxFrames /\ log' = Append(log, f)
    \/ Len(log) >= MaxFrames /\ ev.kind \in {"ping", "pong"} /\ UNCHANGED log

(* The event of a frame; n is the number a pong carries. *)
readFrame(f, n) ==
    LET ev == nextEvent(frags, f)
    IN  /\ step["reader"] = "read"
        /\ ev.kind # "pong" => n = 0
        /\ Recorded(ev, f)
        /\ frags' = fragments(frags, f)
        /\ age' = IF IsActivity(ev) THEN 0 ELSE age
        /\ CASE ev.kind = "none"   -> UNCHANGED <<step, job>>
             [] ev.kind = "binary" -> Begin("reader", "forward", Work("message", ev.bytes, 0))
             [] ev.kind = "ping"   -> Begin("reader", "lock", Work("pong", <<>>, 0))
             [] ev.kind = "pong"   -> IF Acknowledges(n) THEN Begin("reader", "ack", Work("pong", <<>>, n))
                                      ELSE UNCHANGED <<step, job>>
             [] OTHER              -> Begin("reader", "lock", CloseFor(ev, f))
        /\ UNCHANGED <<idle, conns, mu, pongs, chunks, forwarded>>

(* The stream ends, within a frame or between two: always "protocol error". *)
readFails ==
    /\ step["reader"] = "read"
    /\ Begin("reader", "lock", Close(1002))
    /\ UNCHANGED <<idle, conns, mu, frags, pongs, age, chunks, hist>>

(* writeAll to Telegram under its own deadline. *)
forward(ok) ==
    /\ step["reader"] = "forward"
    /\ ok => telegram
    /\ forwarded' = IF ok THEN Append(forwarded, job["reader"].bytes) ELSE forwarded
    /\ IF ok THEN Begin("reader", "read", NoJob) ELSE Begin("reader", "lock", Close(1011))
    /\ UNCHANGED <<idle, conns, mu, frags, pongs, age, chunks, log>>

acknowledge ==
    /\ step["reader"] = "ack"
    /\ acknowledgedPong' = job["reader"].code
    /\ Goto("reader", "swap")
    /\ UNCHANGED <<idle, conns, mu, frags, job, sequence, expectedPong, age, chunks, hist>>

MutSwapped(n) == 0

(* CompareAndSwap(n, 0) of the reader. *)
Swapped(n) == IF expectedPong = n THEN 0 ELSE expectedPong

swap ==
    /\ step["reader"] = "swap"
    /\ expectedPong' = Swapped(job["reader"].code)
    /\ Begin("reader", "read", NoJob)
    /\ UNCHANGED <<idle, conns, mu, frags, sequence, acknowledgedPong, age, chunks, hist>>

-----------------------------------------------------------------------------
(* heartbeatLoop *)

tick ==
    /\ step["heartbeat"] = "ready" /\ sequence < MaxPings
    /\ sequence' = sequence + 1
    /\ expectedPong' = sequence + 1
    /\ Begin("heartbeat", "lock", Work("ping", <<>>, 0))
    /\ UNCHANGED <<idle, conns, mu, frags, acknowledgedPong, age, chunks, hist>>

(* pongTimeout after the ping was written. *)
pongTimeout ==
    /\ step["heartbeat"] = "await"
    /\ IF acknowledgedPong = sequence
       THEN Goto("heartbeat", "ready") /\ UNCHANGED expectedPong
       ELSE Goto("heartbeat", "closing") /\ expectedPong' = Disarmed
    /\ UNCHANGED <<idle, conns, mu, frags, job, sequence, acknowledgedPong, age, chunks, hist>>

(* <-done, which the heartbeat and the watchdog also select on. *)
doneClosed(p) ==
    /\ p \in {"heartbeat", "watchdog"}
    /\ step[p] \in {"ready", "await"} /\ done
    /\ Goto(p, "ended")
    /\ UNCHANGED <<idle, conns, mu, frags, job, pongs, age, chunks, hist>>

-----------------------------------------------------------------------------
(* idleWatchdog: a ticker that looks at the age of the last activity. *)

IsIdle == age >= idle

watch ==
    /\ step["watchdog"] = "ready" /\ IsIdle
    /\ Goto("watchdog", "closing")
    /\ UNCHANGED <<idle, conns, mu, frags, job, pongs, age, chunks, hist>>

timePasses ==
    /\ age < idle
    /\ age' = age + 1
    /\ UNCHANGED <<step, idle, conns, mu, frags, job, pongs, chunks, hist>>

-----------------------------------------------------------------------------
Errors == {"none", "EOF", "error"}

Next ==
    \/ \E p \in Goroutines : closeBoth(p)
    \/ disconnect
    \/ \E p \in Writers : lock(p)
    \/ \E p \in Writers, ok \in BOOLEAN : write(p, ok)
    \/ \E data \in BOOLEAN, err \in Errors : telegramRead(data, err)
    \/ \E f \in ClientFrames, n \in 0..MaxPings : readFrame(f, n)
    \/ readFails
    \/ \E ok \in BOOLEAN : forward(ok)
    \/ acknowledge
    \/ swap
    \/ tick
    \/ pongTimeout
    \/ \E p \in Goroutines : doneClosed(p)
    \/ watch
    \/ timePasses

Spec == Init /\ [][Next]_vars

(* The peers owe nothing, but a Read on a closed connection returns, writes  *)
(* end at their deadline, timers fire, Go's mutex starves nobody.            *)
FairSpec ==
    /\ Spec
    /\ \A p \in Writers : SF_vars(lock(p)) /\ WF_vars(\E ok \in BOOLEAN : write(p, ok))
    /\ \A p \in Goroutines : WF_vars(closeBoth(p)) /\ WF_vars(doneClosed(p))
    /\ WF_vars(~client /\ readFails) /\ WF_vars(~telegram /\ telegramRead(FALSE, "error"))
    /\ WF_vars(\E ok \in BOOLEAN : forward(ok)) /\ WF_vars(acknowledge) /\ WF_vars(swap)
    /\ WF_vars(pongTimeout) /\ WF_vars(watch) /\ WF_vars(timePasses)

-----------------------------------------------------------------------------
(* A pong that the reader has taken is never lost between the two atomics:   *)
(* while the heartbeat waits, the pong of its ping is still expected or has  *)
(* been acknowledged, so a client that answers is not taken for dead.        *)
AckNotLost ==
    step["heartbeat"] = "await" =>
        expectedPong = sequence \/ acknowledgedPong = sequence

(* "A foreign or stale pong no longer hides a channel that hangs" (CHANGELOG *)
(* 1.0.5): only the pong of the ping that is outstanding counts.             *)
OnlyExpectedPongCounts ==
    [][acknowledgedPong' # acknowledgedPong => acknowledgedPong' = sequence]_vars

(* When any goroutine ends, or the owner's close function runs, all of them  *)
(* end and both connections are closed, wherever each of them is: in a read, *)
(* in a write, waiting for the writer's mutex or for a timer.                *)
BridgeEnds == done \/ ~client \/ ~telegram ~> AllEnded /\ done /\ ~client /\ ~telegram

(* With an idle timeout a tunnel that carries no more data ends, although    *)
(* pings and pongs go on for ever: they do not count as activity.  (In the   *)
(* model the data run out, with Chunks and MaxFrames; the client's pings and *)
(* pongs do not.)                                                            *)
IdleTunnelEnds == idle > 0 ~> AllEnded
-----------------------------------------------------------------------------
(* What RFC 6455 makes of a stream, as a reference for the frame reader.     *)

Digits(n, width) == [i \in 1..width |-> (n \div Power[width - i]) % Base]

(* The shortest header for a payload, the only one that is allowed; the most *)
(* significant bit of a long length is 0.                                    *)
WellEncoded(f) ==
    LET n == Len(f.payload)
    IN  CASE n <= Short    -> f.len7 = n /\ f.ext = <<>>
          [] n \in (Short + 1)..(Power[2] - 1) -> f.len7 = Short + 1 /\ f.ext = Digits(n, 2)
          [] OTHER -> /\ f.len7 = Short + 2 /\ f.ext = Digits(n, LongBytes)
                      /\ n < (Base \div 2) * Power[LongBytes - 1]

WellFormed(f) ==
    /\ WellEncoded(f) /\ f.masked /\ ~f.rsv /\ f.opcode # "reserved"
    /\ f.opcode \in Control => f.fin /\ Len(f.payload) <= Short

Data == {"binary", "continuation"}

(* Frame k carries a part of the message that frame i belongs to. *)
PartOf(s, k, i) ==
    /\ s[k].opcode \in Data
    /\ \E j \in 1..k : s[j].opcode = "binary"
    /\ \A j \in (k + 1)..i : s[j].opcode # "binary"

Message(s, i) == FlattenSeq([k \in 1..i |-> IF PartOf(s, k, i) THEN s[k].payload ELSE <<>>])

(* The complete messages of a stream without errors: the k-th one ends with  *)
(* the k-th final data frame.                                                *)
Ends(s) == {i \in 1..Len(s) : s[i].fin /\ s[i].opcode \in Data}

Messages(s) ==
    LET end(k) == CHOOSE i \in Ends(s) : Cardinality({j \in Ends(s) : j <= i}) = k
    IN  [k \in 1..Cardinality(Ends(s)) |-> Message(s, end(k))]

Unfinished(s) ==
    \E i \in DOMAIN s :
        /\ s[i].opcode = "binary" /\ ~s[i].fin
        /\ \A j \in i..Len(s) : s[j].opcode \in Data => ~s[j].fin

(* The close code that a close frame calls for; 0 stands for the client's own *)
(* payload, sent back.                                                        *)
CloseVerdict(f) ==
    IF f.payload = <<>> THEN 0
    ELSE IF Len(f.payload) = 1 \/ f.code \notin (1000..1003) \cup (1007..1014) \cup (3000..4999) THEN 1002
    ELSE IF f.utf8 THEN 0 ELSE 1007

(* The close code that the last frame of the stream calls for.               *)
NoClose == 1

Verdict(s) ==
    LET f == Last(s)
    IN  IF ~WellFormed(f) THEN 1002
        ELSE IF f.opcode = "close" THEN CloseVerdict(f)
        ELSE IF f.opcode \in Control THEN NoClose
        ELSE IF Len(f.payload) > MaxMessage THEN 1009
        ELSE IF f.opcode = "text" \/ (f.opcode = "binary" <=> Unfinished(Front(s))) THEN 1002
        ELSE IF Len(Message(s, Len(s))) > MaxMessage THEN 1009 ELSE NoClose

(* Telegram gets the client's messages whole, in order and once, however     *)
(* they were cut into fragments, encoded and mixed with control frames: all  *)
(* of them whenever the reader waits for the next frame.                     *)
MessagesIntact ==
    /\ IsPrefix(forwarded, Messages(log))
    /\ step["reader"] = "read" => forwarded = Messages(log)

(* "Protocol, UTF-8 and size errors end with the correct close codes 1002,   *)
(* 1007 and 1009; malformed and non-minimal frames are rejected" (CHANGELOG  *)
(* 1.0.4): a frame makes the reader close exactly when, and with the code    *)
(* that, the stream calls for.                                               *)
RightCloseCode ==
    [][log' # log =>
          IF Verdict(log') = NoClose THEN job'["reader"].kind # "close"
          ELSE job'["reader"] = Close(Verdict(log'))]_vars

(* A message is never collected beyond maxMessageBytes, one fragment at a    *)
(* time or in one frame, so what a session may hold is bounded.              *)
FragmentsBounded ==
    /\ Len(frags.bytes) <= MaxMessage
    /\ \A p \in Writers : Len(job[p].bytes) <= MaxMessage
=============================================================================
