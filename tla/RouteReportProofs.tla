------------------------- MODULE RouteReportProofs --------------------------
(***************************************************************************)
(* The route report for every config file, set of bundles, request and     *)
(* number of workers.                                                      *)
(***************************************************************************)
EXTENDS RouteReport, SequenceLemmas

(* A result of a route that was not tried yet, and of one that was. *)
Untouched(i, s) == <<i, s>> \notin failed /\ <<dcs[i], s>> \notin reached
Decided(i, s)   == <<i, s>> \in failed <=> <<dcs[i], s>> \notin reached

Types ==
    /\ dcs \in Seq(Int) /\ next \in 1..(Len(dcs) + 1)
    /\ \A i, j \in Indexes : dcs[i] = dcs[j] => i = j
    /\ step \in [Workers -> {"select", "look", "dial", "ended"}]
    /\ index \in [Workers -> [i : Nat, scope : Scopes]]
    /\ failed \subseteq Indexes \X Scopes /\ completed \subseteq Indexes
    /\ reached \subseteq ToSet(dcs) \X Scopes
    /\ dispatcher \in {"dispatch", "wait", "gaveUp", "done"}

(* Who is responsible for the results of each index: the dispatcher for those *)
(* it has not handed out, one worker for each that is being checked, nobody   *)
(* for those that are completed.                                              *)
Shares ==
    /\ \A v, w \in Busy : v # w => index[v].i # index[w].i
    /\ \A w \in Busy : index[w].i \in Indexes /\ index[w].i < next /\ index[w].i \notin completed
    /\ \A i \in Indexes : i < next => i \in completed \/ \E w \in Busy : index[w].i = i
    /\ dispatcher = "dispatch" => \A i \in completed : i < next
    /\ dispatcher # "dispatch" => \A i \in Indexes : i >= next => i \in completed
    /\ dispatcher = "done" => Busy = {}

Results ==
    /\ \A i \in completed : \A s \in Scopes : Decided(i, s)
    /\ \A i \in Indexes \ completed : i >= next => \A s \in Scopes : Untouched(i, s)
    /\ \A w \in Busy :
          /\ Untouched(index[w].i, "media")
          /\ IF index[w].scope = "main" THEN Untouched(index[w].i, "main")
             ELSE Decided(index[w].i, "main")

ReportInv == Types /\ Shares /\ Results

-----------------------------------------------------------------------------
(* sortedDCS returns the DCs of a request, each once. *)
LEMMA SortedDCS ==
    ASSUME NEW items \in Seq(Int)
    PROVE  LET s == sortedDCS(items)
           IN  /\ s \in Seq(Int) /\ ToSet(s) = ToSet(items)
               /\ \A i, j \in 1..Len(s) : s[i] = s[j] => i = j
<1> DEFINE S == ToSet(items)
           n == Cardinality(S)
           s == sortedDCS(items)
<1>1. (\A x \in S : x \in Int) /\ IsFiniteSet(S)
  <2>1. S = {items[i] : i \in 1..Len(items)}
    BY DEF ToSet
  <2>2. IsFiniteSet(1..Len(items))
    BY FS_Interval
  <2>3. items \in Surjection(1..Len(items), S)
    BY <2>1 DEF Surjection
  <2> QED
    BY <2>1, <2>2, <2>3, FS_Surjection
<1> HIDE DEF S
<1>2. n \in Nat
  BY <1>1, FS_CardinalityType
<1>3. PICK t \in [1..n -> S] : Increasing(t)
  BY <1>1, InOrderExists
<1>4. \A i, j \in 1..n : i < j => t[i] < t[j]
  BY <1>3 DEF Increasing
<1>5. s \in [1..n -> S] /\ \A i, j \in 1..n : i < j => s[i] < s[j]
  BY <1>4 DEF sortedDCS, S
<1> HIDE DEF s
<1>6. Increasing(s)
  BY <1>5 DEF Increasing
<1>7. /\ \A i, j \in DOMAIN s : s[i] = s[j] => i = j
      /\ \A x \in S : \E i \in DOMAIN s : s[i] = x
      /\ s \in Seq(S) /\ Len(s) = n
  BY <1>1, <1>5, <1>6, InOrderProperties
<1>8. DOMAIN s = 1..Len(s)
  BY <1>7
<1>9. s \in Seq(Int)
  BY <1>1, <1>7
<1>10. ToSet(s) = S
  BY <1>5, <1>7 DEF ToSet
<1> QED
  BY <1>7, <1>8, <1>9, <1>10 DEF s, S

(* The inductive invariant holds initially ... *)
LEMMA ReportInvInit == Init => ReportInv
<1> SUFFICES ASSUME Init PROVE ReportInv
  OBVIOUS
<1>1. PICK items \in Requests : /\ Len(items) \in 1..MaxRequested
                                /\ dcs = sortedDCS(items)
                                /\ step = [w \in Workers |-> IF w \in Started(items) THEN "select" ELSE "ended"]
  BY DEF Init
<1>2. dcs \in Seq(Int) /\ \A i, j \in Indexes : dcs[i] = dcs[j] => i = j
  BY <1>1, SortedDCS, RequestsAssumption DEF Indexes
<1>3. Len(dcs) \in Nat /\ \A i \in Indexes : i >= 1 /\ ~(i < 1)
  BY <1>2 DEF Indexes
<1>4. step \in [Workers -> {"select", "look", "dial", "ended"}] /\ Busy = {}
  BY <1>1 DEF Busy
<1>5. next = 1 /\ failed = {} /\ completed = {} /\ reached = {} /\ dispatcher = "dispatch"
      /\ index = [w \in Workers |-> [i |-> 0, scope |-> "main"]]
  BY DEF Init
<1>6. Types
  BY <1>2, <1>3, <1>4, <1>5 DEF Types, Scopes
<1>7. Shares
  BY <1>3, <1>4, <1>5 DEF Shares
<1>8. Results
  BY <1>4, <1>5 DEF Results, Untouched
<1> QED
  BY <1>6, <1>7, <1>8 DEF ReportInv

(* ... and every step keeps it.  The outcome of a route is stored by Finish.   *)
LEMMA FinishKeepsReportInv ==
    ASSUME ReportInv, NEW w \in Busy, NEW ok \in BOOLEAN, Finish(w, ok),
           reached' = IF ok THEN reached \cup {<<dcs[index[w].i], index[w].scope>>} ELSE reached,
           UNCHANGED <<dcs, next, dispatcher>>
    PROVE  ReportInv'
<1>0. PICK job : job = index[w]
  OBVIOUS
<1>1. /\ w \in Workers /\ job = index[w] /\ job \in [i : Nat, scope : Scopes] /\ job.i \in Indexes /\ job.i < next
      /\ job.i \notin completed /\ Len(dcs) \in Nat /\ dcs \in Seq(Int)
      /\ dcs[job.i] \in ToSet(dcs) /\ job.scope \in Scopes
  BY <1>0 DEF ReportInv, Types, Shares, Busy, Indexes, ToSet
<1>2. failed' = IF ok THEN failed ELSE failed \cup {<<job.i, job.scope>>}
  BY <1>0 DEF Finish
<1>3. /\ Indexes' = Indexes
      /\ \A i \in Indexes : \A s \in Scopes : ~(i = job.i /\ s = job.scope) =>
            /\ Untouched(i, s) => Untouched(i, s)'
            /\ Decided(i, s) <=> Decided(i, s)'
  <2>1. Indexes' = Indexes
    BY DEF Indexes
  <2>2. \A i, j \in Indexes : dcs[i] = dcs[j] => i = j
    BY DEF ReportInv, Types
  <2> QED
    BY <2>1, <2>2, <1>1, <1>2 DEF Untouched, Decided
<1>4. Untouched(job.i, job.scope) => Decided(job.i, job.scope)'
  BY <1>1, <1>2 DEF Untouched, Decided
<1>5. CASE job.scope = "main"
  <2>1. /\ index' = [index EXCEPT ![w].scope = "media"] /\ step' = [step EXCEPT ![w] = "look"]
        /\ completed' = completed
    BY <1>1, <1>5 DEF Finish, Goto
  <2>2. /\ index' \in [Workers -> [i : Nat, scope : Scopes]] /\ Busy' = Busy
        /\ \A v \in Workers : index'[v].i = index[v].i /\ (v # w => index'[v] = index[v])
        /\ index'[w].scope = "media"
        /\ step' \in [Workers -> {"select", "look", "dial", "ended"}]
    <3>1. index \in [Workers -> [i : Nat, scope : Scopes]]
      BY DEF ReportInv, Types
    <3>2. step \in [Workers -> {"select", "look", "dial", "ended"}]
      BY DEF ReportInv, Types
    <3>3. \A v \in Workers : index'[v] = IF v = w THEN [index[v] EXCEPT !.scope = "media"] ELSE index[v]
      BY <2>1, <3>1
    <3>4. index' \in [Workers -> [i : Nat, scope : Scopes]]
      BY <2>1, <3>1, <1>1 DEF Scopes
    <3>5. Busy' = Busy
      BY <2>1, <3>2, <1>1 DEF Busy
    <3> QED
      BY <2>1, <3>1, <3>2, <3>3, <3>4, <3>5, <1>1
  <2>3. Types'
    BY <2>1, <2>2, <1>1, <1>2, <1>3 DEF ReportInv, Types
  <2>4. Shares'
    <3>1. \A v \in Busy : v \in Workers
      BY DEF Busy
    <3> QED
      BY <2>1, <2>2, <3>1, <1>3 DEF ReportInv, Shares
  <2>5. Results'
    <3>1. \A i \in completed' : \A s \in Scopes : Decided(i, s)'
      BY <2>1, <1>1, <1>3 DEF ReportInv, Results, Types
    <3>2. \A i \in Indexes' \ completed' : i >= next' => \A s \in Scopes : Untouched(i, s)'
      <4>1. \A i \in Indexes \ completed : i >= next => i # job.i /\ \A s \in Scopes : Untouched(i, s)
        BY <1>1 DEF ReportInv, Results, Types
      <4> QED
        BY <4>1, <2>1, <1>3 DEF Untouched
    <3>3. ASSUME NEW v \in Busy'
          PROVE  /\ Untouched(index[v].i, "media")'
                 /\ IF index'[v].scope = "main" THEN Untouched(index[v].i, "main")'
                    ELSE Decided(index[v].i, "main")'
      <4>1. v \in Busy /\ v \in Workers
        BY <2>2 DEF Busy
      <4>0. PICK j : j = index[v].i
        OBVIOUS
      <4>4. j \in Indexes /\ index[v].i = j /\ index'[v].i = j /\ (v # w => j # job.i)
        BY <4>0, <4>1, <2>2, <1>1 DEF ReportInv, Shares
      <4>2. CASE v = w
        <5>1. Untouched(job.i, "media") /\ Untouched(job.i, "main")
          BY <1>1, <4>2, <1>5 DEF ReportInv, Results
        <5>2. Untouched(job.i, "media")'
          BY <5>1, <1>1, <1>3, <1>5, <2>2 DEF Untouched, Scopes
        <5>3. Decided(job.i, "main")'
          BY <5>1, <1>4, <1>5
        <5> QED
          BY <1>1, <4>1, <4>2, <4>4, <5>2, <5>3, <2>2 DEF Untouched, Decided
      <4>3. CASE v # w
        <5>1. Untouched(j, "media") /\ IF index[v].scope = "main" THEN Untouched(j, "main") ELSE Decided(j, "main")
          BY <4>1, <4>4 DEF ReportInv, Results
        <5>2. Untouched(j, "media")' /\ IF index[v].scope = "main" THEN Untouched(j, "main")' ELSE Decided(j, "main")'
          BY <5>1, <4>3, <4>4, <1>3 DEF Scopes
        <5>3. index'[v].i = j /\ index'[v].scope = index[v].scope
          BY <4>1, <4>3, <4>4, <2>2
        <5> QED
          BY <5>2, <5>3 DEF Untouched, Decided
      <4> QED
        BY <4>2, <4>3
    <3> QED
      BY <3>1, <3>2, <3>3 DEF Results
  <2> QED
    BY <2>3, <2>4, <2>5 DEF ReportInv
<1>6. CASE job.scope # "main"
  <2>0. job.scope = "media"
    BY <1>6, <1>1 DEF Scopes
  <2>1. /\ index' = index /\ step' = [step EXCEPT ![w] = "select"]
        /\ completed' = completed \cup {job.i}
    BY <1>1, <1>6 DEF Finish, Goto
  <2>2. /\ Busy' = Busy \ {w}
        /\ step' \in [Workers -> {"select", "look", "dial", "ended"}]
    BY <2>1, <1>1 DEF Busy, ReportInv, Types
  <2>3. Types'
    BY <2>1, <2>2, <1>1, <1>2, <1>3 DEF ReportInv, Types
  <2>4. Shares'
    BY <2>1, <2>2, <1>1, <1>3 DEF ReportInv, Shares
  <2>5. Results'
    <3>1. \A i \in completed' : \A s \in Scopes : Decided(i, s)'
      <4>1. Decided(job.i, "main")' /\ Decided(job.i, "media")'
        <5>1. Untouched(job.i, "media") /\ Decided(job.i, "main")
          BY <1>1, <1>6 DEF ReportInv, Results
        <5> QED
          BY <5>1, <1>1, <1>3, <1>4, <2>0 DEF Scopes
      <4>2. \A i \in completed : i \in Indexes /\ \A s \in Scopes : Decided(i, s)
        BY DEF ReportInv, Results, Types
      <4> QED
        BY <4>1, <4>2, <2>1, <1>1, <1>3 DEF Scopes
    <3>2. \A i \in Indexes' \ completed' : i >= next' => \A s \in Scopes : Untouched(i, s)'
      <4>1. \A i \in Indexes \ completed : i >= next => i # job.i /\ \A s \in Scopes : Untouched(i, s)
        BY <1>1 DEF ReportInv, Results, Types
      <4> QED
        BY <4>1, <2>1, <1>3 DEF Untouched
    <3>3. ASSUME NEW v \in Busy'
          PROVE  /\ Untouched(index[v].i, "media")'
                 /\ IF index'[v].scope = "main" THEN Untouched(index[v].i, "main")'
                    ELSE Decided(index[v].i, "main")'
      <4>1. v \in Busy /\ v # w
        BY <2>2
      <4>0. PICK j : j = index[v].i
        OBVIOUS
      <4>4. j \in Indexes /\ index[v].i = j /\ index'[v] = index[v] /\ j # job.i
        BY <4>0, <4>1, <2>1, <1>1 DEF ReportInv, Shares
      <4>5. Untouched(j, "media") /\ IF index[v].scope = "main" THEN Untouched(j, "main") ELSE Decided(j, "main")
        BY <4>1, <4>4 DEF ReportInv, Results
      <4>6. Untouched(j, "media")' /\ IF index[v].scope = "main" THEN Untouched(j, "main")' ELSE Decided(j, "main")'
        BY <4>5, <4>4, <1>3 DEF Scopes
      <4> QED
        BY <4>6, <4>4 DEF Untouched, Decided
    <3> QED
      BY <3>1, <3>2, <3>3 DEF Results
  <2> QED
    BY <2>3, <2>4, <2>5 DEF ReportInv
<1> QED
  BY <1>5, <1>6

(* Every step of dispatcher and workers keeps the invariant. *)
LEMMA ReportInvStep == ReportInv /\ [Next]_reportVars => ReportInv'
<1> SUFFICES ASSUME ReportInv, [Next]_reportVars PROVE ReportInv'
  OBVIOUS
<1> USE DEF reportVars, requestVars, serverVars, workerVars, resultVars
<1>0. /\ Len(dcs) \in Nat /\ next \in Int /\ \A i \in Indexes : i \in Int
  BY DEF ReportInv, Types, Indexes
<1>1. CASE UNCHANGED <<dcs, dispatcher, next, workerVars, resultVars>>
  BY <1>1 DEF ReportInv, Types, Shares, Results, Indexes, Busy, Untouched, Decided
<1>2. ASSUME NEW b \in Bundles, refresh(b) PROVE ReportInv'
  BY <1>1, <1>2 DEF refresh
<1>3. CASE contextEnds
  BY <1>1, <1>3 DEF contextEnds
<1>4. CASE giveUp
  <2>1. /\ dispatcher = "dispatch" /\ dispatcher' = "gaveUp"
        /\ failed' = failed \cup (Pending \X Scopes) /\ completed' = completed \cup Pending
        /\ UNCHANGED <<dcs, next, step, index, reached>>
    BY <1>4 DEF giveUp
  <2>2. \A i \in Indexes : i \in Pending <=> i >= next
    BY <1>0 DEF Pending, Indexes
  <2>3. Pending \subseteq Indexes
    BY <1>0 DEF Pending, Indexes, ReportInv, Types
  <2>4. Types'
    BY <2>1, <2>3 DEF ReportInv, Types, Indexes
  <2>5. Shares'
    <3>1. \A w \in Busy : index[w].i \in Indexes /\ ~(index[w].i >= next)
      BY <1>0 DEF ReportInv, Shares
    <3>2. \A w \in Busy : index[w].i \notin completed'
      BY <3>1, <2>1, <2>2 DEF ReportInv, Shares
    <3> QED
      BY <2>1, <2>2, <3>2 DEF ReportInv, Shares, Indexes, Busy
  <2>6. \A i \in Indexes : i \notin Pending => \A s \in Scopes :
           /\ Untouched(i, s) => Untouched(i, s)'
           /\ Decided(i, s) => Decided(i, s)'
    BY <2>1 DEF Untouched, Decided
  <2>7. \A i \in Pending : i \notin completed /\ \A s \in Scopes : Untouched(i, s)
    BY <2>1, <2>2, <2>3, <1>0 DEF ReportInv, Shares, Results
  <2>8. \A i \in Pending : \A s \in Scopes : Decided(i, s)'
    BY <2>1, <2>7 DEF Untouched, Decided
  <2>9. Results'
    <3>1. \A i \in completed' : \A s \in Scopes : Decided(i, s)'
      <4>1. \A i \in completed : i \in Indexes /\ \A s \in Scopes : Decided(i, s)
        BY DEF ReportInv, Results, Types
      <4> QED
        BY <4>1, <2>1, <2>6, <2>8
    <3>2. \A i \in Indexes' \ completed' : i >= next' => \A s \in Scopes : Untouched(i, s)'
      BY <2>1, <2>2 DEF Indexes
    <3>3. ASSUME NEW w \in Busy'
          PROVE  /\ Untouched(index[w].i, "media")'
                 /\ IF index'[w].scope = "main" THEN Untouched(index[w].i, "main")'
                    ELSE Decided(index[w].i, "main")'
      <4>1. w \in Busy
        BY <2>1 DEF Busy
      <4>2. PICK j : j = index[w].i
        OBVIOUS
      <4>3. j \in Indexes /\ j \notin Pending
        BY <4>1, <4>2, <2>2, <1>0 DEF ReportInv, Shares
      <4>4. Untouched(j, "media") /\ IF index[w].scope = "main" THEN Untouched(j, "main") ELSE Decided(j, "main")
        BY <4>1, <4>2 DEF ReportInv, Results
      <4>5. Untouched(j, "media")' /\ IF index[w].scope = "main" THEN Untouched(j, "main")' ELSE Decided(j, "main")'
        BY <4>3, <4>4, <2>6 DEF Scopes
      <4> QED
        BY <4>5, <4>2, <2>1 DEF Untouched, Decided
    <3> QED
      BY <3>1, <3>2, <3>3 DEF Results
  <2> QED
    BY <2>4, <2>5, <2>9 DEF ReportInv
<1>5. CASE closeJobs
  <2>1. /\ dispatcher = "dispatch" /\ dispatcher' = "wait" /\ next > Len(dcs)
        /\ UNCHANGED <<dcs, next, step, index, left, resultVars>>
    BY <1>5 DEF closeJobs
  <2>2. \A i \in Indexes : ~(i >= next)
    BY <2>1, <1>0 DEF Indexes
  <2> QED
    BY <2>1, <2>2 DEF ReportInv, Types, Shares, Results, Indexes, Busy, Untouched, Decided
<1>6. CASE format
  <2>1. /\ dispatcher \in {"wait", "gaveUp"} /\ dispatcher' = "done" /\ Busy = {}
        /\ UNCHANGED <<dcs, next, step, index, left, completed, reached>>
    BY <1>6 DEF format, Busy
  <2>2. Indexes \ completed = {}
    BY <2>1, <1>0 DEF ReportInv, Shares
  <2>3. failed' = failed
    BY <2>2, <1>6 DEF format
  <2> QED
    BY <2>1, <2>3 DEF ReportInv, Types, Shares, Results, Indexes, Busy, Untouched, Decided
<1>7. ASSUME NEW w \in Workers, handOut(w) PROVE ReportInv'
  <2>1. /\ next \in Indexes /\ step[w] = "select" /\ next' = next + 1
        /\ index' = [index EXCEPT ![w] = [i |-> next, scope |-> "main"]]
        /\ step' = [step EXCEPT ![w] = "look"] /\ dispatcher = "dispatch"
        /\ UNCHANGED <<dcs, dispatcher, failed, completed, reached>>
    BY <1>7 DEF handOut, Goto
  <2>2. PICK n : n = next
    OBVIOUS
  <2>3. n \in Nat /\ n \in Indexes /\ Indexes' = Indexes
    BY <2>1, <2>2, <1>0 DEF Indexes
  <2>4. /\ index' \in [Workers -> [i : Nat, scope : Scopes]] /\ index'[w] = [i |-> n, scope |-> "main"]
        /\ step' \in [Workers -> {"select", "look", "dial", "ended"}]
        /\ Busy' = Busy \cup {w} /\ w \notin Busy
        /\ \A v \in Busy : v # w /\ index'[v] = index[v]
    BY <2>1, <2>2, <2>3 DEF ReportInv, Types, Scopes, Busy
  <2>5. next' \in 1..(Len(dcs) + 1)
    BY <2>1, <1>0 DEF Indexes
  <2>6. Types'
    BY <2>1, <2>3, <2>4, <2>5 DEF ReportInv, Types
  <2>7. n \notin completed /\ (\A s \in Scopes : Untouched(n, s)) /\ ~(n < n) /\ n < n + 1
    BY <2>1, <2>2, <2>3, <1>0 DEF ReportInv, Shares, Results
  <2>8. Shares'
    <3>1. \A i \in Indexes : (i < next' <=> i < next \/ i = n) /\ (i < next => i < next')
      BY <2>1, <2>2, <1>0
    <3>2. \A v \in Busy : index[v].i # n /\ index[v].i < next'
      BY <2>7, <2>2, <3>1 DEF ReportInv, Shares
    <3>3. \A i \in Indexes : i < next' => i \in completed' \/ \E v \in Busy' : index'[v].i = i
      <4>1. ASSUME NEW i \in Indexes, i < next, i \notin completed PROVE \E v \in Busy' : index'[v].i = i
        BY <4>1, <2>4 DEF ReportInv, Shares
      <4> QED
        BY <4>1, <3>1, <2>1, <2>4
    <3> QED
      BY <2>1, <2>2, <2>3, <2>4, <2>7, <3>1, <3>2, <3>3 DEF ReportInv, Shares, Types
  <2>9. Results'
    <3>1. \A i \in completed' : \A s \in Scopes : Decided(i, s)'
      BY <2>1 DEF ReportInv, Results, Decided
    <3>2. \A i \in Indexes' \ completed' : i >= next' => \A s \in Scopes : Untouched(i, s)'
      <4>1. \A i \in Indexes : i >= next' => i >= next
        BY <2>1, <1>0
      <4> QED
        BY <4>1, <2>1, <2>3 DEF ReportInv, Results, Untouched
    <3>3. ASSUME NEW v \in Busy'
          PROVE  /\ Untouched(index[v].i, "media")'
                 /\ IF index'[v].scope = "main" THEN Untouched(index[v].i, "main")'
                    ELSE Decided(index[v].i, "main")'
      <4>1. CASE v = w
        BY <4>1, <2>1, <2>4, <2>7 DEF Scopes, Untouched, Decided
      <4>2. CASE v # w
        <5>1. v \in Busy /\ index'[v] = index[v]
          BY <4>2, <2>4
        <5> QED
          BY <5>1, <2>1 DEF ReportInv, Results, Untouched, Decided
      <4> QED
        BY <4>1, <4>2
    <3> QED
      BY <3>1, <3>2, <3>3 DEF Results
  <2> QED
    BY <2>6, <2>8, <2>9 DEF ReportInv
<1>8. ASSUME NEW w \in Workers, stops(w) PROVE ReportInv'
  <2>1. /\ step' = [step EXCEPT ![w] = "ended"] /\ step[w] = "select"
        /\ UNCHANGED <<dcs, dispatcher, next, index, left, resultVars>>
    BY <1>8 DEF stops, Goto
  <2>2. Busy' = Busy /\ step' \in [Workers -> {"select", "look", "dial", "ended"}]
    BY <2>1 DEF Busy, ReportInv, Types
  <2> QED
    BY <2>1, <2>2 DEF ReportInv, Types, Shares, Results, Indexes, Untouched, Decided
<1>9. ASSUME NEW w \in Workers, step[w] \in {"look", "dial"}, step' = [step EXCEPT ![w] = "dial"],
             UNCHANGED <<dcs, dispatcher, next, index, resultVars>>
      PROVE  ReportInv'
  <2>1. Busy' = Busy /\ step' \in [Workers -> {"select", "look", "dial", "ended"}]
    BY <1>9 DEF Busy, ReportInv, Types
  <2> QED
    BY <1>9, <2>1 DEF ReportInv, Types, Shares, Results, Indexes, Untouched, Decided
<1>10. ASSUME NEW w \in Workers, look(w) PROVE ReportInv'
  <2>1. step[w] = "look" /\ UNCHANGED <<dcs, dispatcher, next, reached>> /\ w \in Busy
    BY <1>10 DEF look, Busy
  <2>2. CASE Finish(w, FALSE)
    BY <2>1, <2>2, FinishKeepsReportInv
  <2>3. CASE Goto(w, "dial") /\ UNCHANGED <<index, failed, completed>>
    BY <2>1, <2>3, <1>9 DEF Goto
  <2> QED
    BY <1>10, <2>2, <2>3 DEF look, UnknownOK
<1>11. ASSUME NEW w \in Workers, NEW ok \in BOOLEAN, dial(w, ok) PROVE ReportInv'
  <2>1. /\ step[w] = "dial" /\ UNCHANGED <<dcs, dispatcher, next>> /\ w \in Busy
        /\ reached' = IF ok THEN reached \cup {<<dcs[index[w].i], index[w].scope>>} ELSE reached
    BY <1>11 DEF dial, Busy
  <2>2. CASE Finish(w, ok)
    BY <2>1, <2>2, FinishKeepsReportInv
  <2>3. CASE ~ok /\ UNCHANGED <<step, index, failed, completed>>
    BY <2>1, <2>3, <1>1, <1>11 DEF ReportInv, Types, Shares, Results, Indexes, Busy, Untouched, Decided
  <2> QED
    BY <1>11, <2>2, <2>3 DEF dial
<1>12. CASE UNCHANGED reportVars
  BY <1>1, <1>12
<1> QED
  BY <1>2, <1>3, <1>4, <1>5, <1>6, <1>7, <1>8, <1>10, <1>11, <1>12 DEF Next, WorkerStep

(* The invariant of the report: each index is at most one worker's, and its *)
(* results are written once, by that worker, to what its dials came to.     *)
THEOREM RouteReportInvariant == Spec => []ReportInv
<1>1. Init => ReportInv
  BY ReportInvInit
<1>2. ReportInv /\ [Next]_reportVars => ReportInv'
  BY ReportInvStep
<1> QED
  BY <1>1, <1>2, PTL DEF Spec

(* No two workers hold the same index, and none that the dispatcher marks: the *)
(* unlocked writes to errorsByIndex and completedByIndex never collide.        *)
THEOREM RouteReportResultsNotShared == Spec => []ResultsNotShared
<1>1. ReportInv => ResultsNotShared
  BY DEF ReportInv, Shares, ResultsNotShared
<1> QED
  BY <1>1, RouteReportInvariant, PTL

(* Whatever the deadline interrupts and a refresh replaces, the report says OK *)
(* of exactly the routes an address of which was reached.                      *)
THEOREM RouteReportTrue == Spec => []ReportTrue
<1>1. ReportInv => ReportTrue
  <2> SUFFICES ASSUME ReportInv, dispatcher = "done"
               PROVE  /\ \A i \in Indexes, s \in Scopes : <<i, s>> \in failed <=> <<dcs[i], s>> \notin reached
                      /\ AllAvailable <=> reached = ToSet(dcs) \X Scopes
    BY DEF ReportTrue
  <2>0. next \in Int /\ \A i \in Indexes : i \in Int
    BY DEF ReportInv, Types, Indexes
  <2>1. \A i \in Indexes : i \in completed
    BY <2>0 DEF ReportInv, Shares
  <2>2. \A i \in Indexes, s \in Scopes : <<i, s>> \in failed <=> <<dcs[i], s>> \notin reached
    BY <2>1 DEF ReportInv, Results, Decided
  <2>3. ToSet(dcs) = {dcs[i] : i \in Indexes}
    BY DEF ToSet, Indexes, ReportInv, Types
  <2>4. failed \subseteq Indexes \X Scopes /\ reached \subseteq ToSet(dcs) \X Scopes
    BY DEF ReportInv, Types
  <2>5. failed = {} => reached = ToSet(dcs) \X Scopes
    BY <2>2, <2>3, <2>4
  <2>6. reached = ToSet(dcs) \X Scopes => failed = {}
    <3>1. SUFFICES ASSUME reached = ToSet(dcs) \X Scopes, NEW x \in failed PROVE FALSE
      OBVIOUS
    <3>2. PICK i \in Indexes, t \in Scopes : x = <<i, t>>
      BY <2>4
    <3>3. <<dcs[i], t>> \in ToSet(dcs) \X Scopes
      BY <2>3
    <3> QED
      BY <2>2, <3>1, <3>2, <3>3
  <2> QED
    BY <2>2, <2>5, <2>6 DEF AllAvailable
<1> QED
  BY <1>1, RouteReportInvariant, PTL

-----------------------------------------------------------------------------
(* The addresses of a route. *)

(* appendRole adds the addresses of a role behind the list, none twice. *)
Addressed(endpoints, role, k) ==
    {endpoints[n].address : n \in {n \in 1..k : endpoints[n].role = role}}

Extends(r, list, more) ==
    /\ r \in Seq(Addresses) /\ IsInjective(r)
    /\ Len(list) <= Len(r) /\ \A i \in 1..Len(list) : r[i] = list[i]
    /\ ToSet(r) = ToSet(list) \cup more

(* One address more keeps a list that extends another one such a list. *)
LEMMA ExtendsOnce ==
    ASSUME NEW list, Len(list) \in Nat, NEW r, NEW more, Extends(r, list, more), NEW a \in Addresses
    PROVE  Extends(AddOnce(r, a), list, more \cup {a})
<1>1. ToSet(r) = {r[i] : i \in 1..Len(r)} /\ Len(r) \in Nat
  BY DEF Extends, ToSet
<1>2. CASE Contains(r, a)
  <2>1. a \in ToSet(r)
    BY <1>1, <1>2 DEF Contains
  <2> QED
    BY <1>2, <2>1 DEF Extends, AddOnce
<1>3. CASE ~Contains(r, a)
  <2> DEFINE t == Append(r, a)
  <2>1. /\ t \in Seq(Addresses) /\ Len(t) = Len(r) + 1 /\ DOMAIN t = 1..(Len(r) + 1)
        /\ t[Len(r) + 1] = a /\ \A i \in 1..Len(r) : t[i] = r[i]
    BY AppendProperties DEF Extends
  <2> HIDE DEF t
  <2>2. \A i \in 1..Len(r) : r[i] # a
    BY <1>3 DEF Contains
  <2>3. \A i \in DOMAIN t : i \in 1..Len(r) \/ i = Len(r) + 1
    BY <2>1, <1>1
  <2>4. IsInjective(t)
    BY <2>1, <2>2, <2>3 DEF Extends, IsInjective
  <2>5. ToSet(t) = ToSet(r) \cup {a}
    <3>1. ToSet(t) = {t[i] : i \in DOMAIN t} /\ \A i \in 1..Len(r) : i \in DOMAIN t
      BY <2>1, <1>1 DEF ToSet
    <3>2. Len(r) + 1 \in DOMAIN t
      BY <2>1, <1>1
    <3> QED
      BY <3>1, <3>2, <1>1, <2>1, <2>3
  <2>6. Len(list) <= Len(t) /\ \A i \in 1..Len(list) : t[i] = list[i]
    BY <1>1, <2>1 DEF Extends
  <2> QED
    BY <1>3, <2>1, <2>4, <2>5, <2>6 DEF Extends, AddOnce, t
<1> QED
  BY <1>2, <1>3

(* appendRole (config.go) adds the addresses of the endpoints of a role to a *)
(* list, each once, behind what is there.                                    *)
LEMMA AppendRole ==
    ASSUME NEW list \in Seq(Addresses), IsInjective(list), NEW endpoints \in Seq(Endpoints), NEW role
    PROVE  Extends(appendRole(list, endpoints, role), list, Addressed(endpoints, role, Len(endpoints)))
<1> DEFINE N == Len(endpoints)
           After(l, n) == IF endpoints[n].role = role THEN AddOnce(l, endpoints[n].address) ELSE l
           Upto(g, k) == \A n \in 0..k : /\ g[n] = IF n = 0 THEN list ELSE After(g[n - 1], n)
                                         /\ Extends(g[n], list, Addressed(endpoints, role, n))
           T == {k \in 0..N : ~\E g : DOMAIN g = 0..k /\ Upto(g, k)}
<1>0. N \in Nat /\ Len(list) \in Nat /\ \A n \in 1..N : endpoints[n].address \in Addresses
  <2>1. N \in Nat /\ Len(list) \in Nat /\ \A n \in 1..N : endpoints[n] \in Endpoints
    OBVIOUS
  <2>2. \A e \in Endpoints : e.address \in Addresses
    BY DEF Endpoints
  <2> QED
    BY <2>1, <2>2
<1>1. Extends(list, list, {}) /\ Addressed(endpoints, role, 0) = {}
  BY DEF Extends, Addressed
<1>2. ASSUME NEW n \in 1..N, NEW l, Extends(l, list, Addressed(endpoints, role, n - 1))
      PROVE  Extends(After(l, n), list, Addressed(endpoints, role, n))
  <2>1. \A m \in 1..n : m \in 1..(n - 1) \/ m = n
    BY <1>0
  <2>2. n \in 1..n /\ \A m \in 1..(n - 1) : m \in 1..n
    BY <1>0
  <2>3. CASE endpoints[n].role = role
    <3>1. Addressed(endpoints, role, n) = Addressed(endpoints, role, n - 1) \cup {endpoints[n].address}
      BY <2>1, <2>2, <2>3 DEF Addressed
    <3> QED
      BY <1>0, <1>2, <2>3, <3>1, ExtendsOnce
  <2>4. CASE endpoints[n].role # role
    <3>1. Addressed(endpoints, role, n) = Addressed(endpoints, role, n - 1)
      BY <2>1, <2>2, <2>4 DEF Addressed
    <3> QED
      BY <1>2, <2>4, <3>1
  <2> QED
    BY <2>3, <2>4
<1>3. T = {}
  <2>1. SUFFICES ASSUME T # {} PROVE FALSE
    OBVIOUS
  <2>2. \A k \in T : k \in Nat
    OBVIOUS
  <2>3. PICK m \in T : \A k \in T : m <= k
    <3>1. T \subseteq Nat
      BY <2>2
    <3> HIDE DEF T
    <3> QED
      BY <2>1, <3>1, LeastNumber
  <2>4. m \in 0..N /\ ~\E g : DOMAIN g = 0..m /\ Upto(g, m)
    OBVIOUS
  <2> HIDE DEF T, After
  <2>5. m # 0
    <3> DEFINE g == [n \in 0..0 |-> list]
    <3>1. g[0] = list /\ DOMAIN g = 0..0 /\ \A n \in 0..0 : n = 0
      OBVIOUS
    <3> HIDE DEF g
    <3>2. Upto(g, 0)
      BY <3>1, <1>1
    <3> QED
      BY <3>1, <3>2, <2>4
  <2>6. m \in 1..N /\ m - 1 \in 0..N /\ ~(m <= m - 1)
    BY <2>4, <2>5, <1>0
  <2>7. PICK g : DOMAIN g = 0..(m - 1) /\ Upto(g, m - 1)
    BY <2>3, <2>6 DEF T
  <2> DEFINE h == [n \in 0..m |-> IF n = m THEN After(g[m - 1], m) ELSE g[n]]
  <2>8. ASSUME NEW n \in 0..m
        PROVE  /\ h[n] = IF n = 0 THEN list ELSE After(h[n - 1], n)
               /\ Extends(h[n], list, Addressed(endpoints, role, n))
    <3>1. CASE n = m
      <4>1. m - 1 \in 0..m /\ m - 1 \in 0..(m - 1) /\ m - 1 # m
        BY <2>6
      <4>2. h[m] = After(g[m - 1], m) /\ h[m - 1] = g[m - 1]
        BY <4>1, <2>6
      <4>3. Extends(g[m - 1], list, Addressed(endpoints, role, m - 1))
        BY <4>1, <2>7
      <4> HIDE DEF h
      <4> QED
        BY <4>2, <4>3, <3>1, <2>5, <2>6, <1>2
    <3>2. CASE n # m
      <4>1. n \in 0..(m - 1) /\ (n # 0 => n - 1 \in 0..m /\ n - 1 # m)
        BY <3>2, <2>6
      <4>2. h[n] = g[n] /\ (n # 0 => h[n - 1] = g[n - 1])
        BY <4>1, <3>2
      <4>3. /\ g[n] = IF n = 0 THEN list ELSE After(g[n - 1], n)
            /\ Extends(g[n], list, Addressed(endpoints, role, n))
        BY <4>1, <2>7
      <4> HIDE DEF h
      <4> QED
        BY <4>2, <4>3
    <3> QED
      BY <3>1, <3>2
  <2>9. DOMAIN h = 0..m
    OBVIOUS
  <2> HIDE DEF h
  <2> QED
    BY <2>4, <2>8, <2>9
<1>4. PICK g : DOMAIN g = 0..N /\ Upto(g, N)
  BY <1>0, <1>3
<1> DEFINE IsUpTo(f) == f = [n \in 0..N |-> IF n = 0 THEN list ELSE After(f[n - 1], n)]
           f == CHOOSE f : IsUpTo(f)
<1>5. \A n \in 0..N : Extends(f[n], list, Addressed(endpoints, role, n))
  <2>1. SUFFICES ASSUME {n \in 0..N : ~Extends(f[n], list, Addressed(endpoints, role, n))} # {} PROVE FALSE
    OBVIOUS
  <2> HIDE DEF After
  <2>2. \E e : IsUpTo(e)
    <3> DEFINE e == [n \in 0..N |-> g[n]]
    <3>1. ASSUME NEW n \in 0..N PROVE e[n] = IF n = 0 THEN list ELSE After(e[n - 1], n)
      <4>1. n # 0 => n - 1 \in 0..N
        BY <1>0
      <4> QED
        BY <4>1, <1>4
    <3>2. e = [n \in 0..N |-> e[n]]
      OBVIOUS
    <3> HIDE DEF e
    <3>3. IsUpTo(e)
      BY <3>1, <3>2
    <3> QED
      BY <3>3
  <2>3. IsUpTo(f)
    BY <2>2
  <2> HIDE DEF f
  <2> DEFINE U == {n \in 0..N : ~Extends(f[n], list, Addressed(endpoints, role, n))}
  <2>4. U # {} /\ \A n \in U : n \in Nat
    BY <2>1
  <2>5. PICK m \in U : \A n \in U : m <= n
    <3>1. U \subseteq Nat
      BY <2>4
    <3> HIDE DEF U
    <3> QED
      BY <2>4, <3>1, LeastNumber
  <2>6. m \in 0..N /\ ~Extends(f[m], list, Addressed(endpoints, role, m))
    OBVIOUS
  <2>7. f[m] = IF m = 0 THEN list ELSE After(f[m - 1], m)
    BY <2>3, <2>6
  <2>8. m # 0
    BY <2>6, <2>7, <1>1
  <2>9. m \in 1..N /\ m - 1 \in 0..N /\ ~(m <= m - 1)
    BY <2>6, <2>8, <1>0
  <2>10. Extends(f[m - 1], list, Addressed(endpoints, role, m - 1))
    BY <2>5, <2>9
  <2> QED
    BY <2>6, <2>7, <2>8, <2>9, <2>10, <1>2
<1>6. appendRole(list, endpoints, role) = f[N]
  BY DEF appendRole
<1>7. N \in 0..N
  BY <1>0
<1> HIDE DEF f
<1> QED
  BY <1>5, <1>6, <1>7

(* The list of the endpoints whose role is among the first k of a route. *)
OfRanks(endpoints, media, k) == {e \in ToSet(endpoints) : Rank(e.role, media) \in 1..k}

InRanks(list, endpoints, media, k) ==
    LET some == OfRanks(endpoints, media, k)
    IN  /\ list \in Seq(Addresses) /\ IsInjective(list)
        /\ ToSet(list) = {e.address : e \in some}
        /\ \A i, j \in DOMAIN list : i < j => Due(some, list[i], media) <= Due(some, list[j], media)

(* The least rank an address has, once that rank is known. *)
LEMMA DueIs ==
    ASSUME NEW E, NEW a, NEW media, NEW r \in 1..3,
           \E e \in E : e.address = a /\ Rank(e.role, media) = r,
           \A e \in E : e.address = a => Rank(e.role, media) \in Int /\ r <= Rank(e.role, media)
    PROVE  Due(E, a, media) = r
<1> DEFINE Is(q) == /\ \E e \in E : e.address = a /\ Rank(e.role, media) = q
                    /\ \A e \in E : e.address = a => q <= Rank(e.role, media)
<1>1. Is(r)
  OBVIOUS
<1>2. \A q \in 1..3 : Is(q) => q = r
  <2>1. SUFFICES ASSUME NEW q \in 1..3, Is(q) PROVE q = r
    OBVIOUS
  <2>2. q <= r /\ r <= q
    BY <2>1
  <2> QED
    BY <2>2
<1>3. Due(E, a, media) = CHOOSE q \in 1..3 : Is(q)
  BY DEF Due
<1> HIDE DEF Is
<1> QED
  BY <1>1, <1>2, <1>3

(* The endpoints of a list are endpoints. *)
LEMMA EndpointsTyped ==
    ASSUME NEW endpoints \in Seq(Endpoints)
    PROVE  \A e \in ToSet(endpoints) : e \in Endpoints /\ e.role \in Roles
<1>1. \A e \in ToSet(endpoints) : e \in Endpoints
  BY DEF ToSet
<1>2. \A e \in Endpoints : e.role \in Roles
  BY DEF Endpoints
<1> QED
  BY <1>1, <1>2

(* The order of the roles is a number. *)
LEMMA RankType ==
    ASSUME NEW media \in BOOLEAN, NEW role \in Roles PROVE Rank(role, media) \in 0..3
BY DEF Rank, Roles

(* The next role keeps the order: its addresses that are not yet listed have *)
(* no earlier role, and those that are keep their place.                     *)
LEMMA NextRank ==
    ASSUME NEW media \in BOOLEAN, NEW endpoints \in Seq(Endpoints), NEW k \in 0..2, NEW role \in Roles,
           \A r \in Roles : Rank(r, media) = k + 1 <=> r = role,
           NEW list, InRanks(list, endpoints, media, k)
    PROVE  InRanks(appendRole(list, endpoints, role), endpoints, media, k + 1)
<1> DEFINE t == appendRole(list, endpoints, role)
           old == OfRanks(endpoints, media, k)
           new == OfRanks(endpoints, media, k + 1)
           added == Addressed(endpoints, role, Len(endpoints))
<1>1. list \in Seq(Addresses) /\ IsInjective(list) /\ ToSet(list) = {e.address : e \in old}
  BY DEF InRanks
<1>2. Extends(t, list, added)
  BY <1>1, AppendRole
<1> HIDE DEF t
<1>3. \A e \in ToSet(endpoints) : e \in Endpoints /\ e.role \in Roles /\ Rank(e.role, media) \in 0..3
  BY EndpointsTyped, RankType
<1>4. \A e \in ToSet(endpoints) : /\ e \in new <=> e \in old \/ e.role = role
                                  /\ e \in old => Rank(e.role, media) \in 1..k
                                  /\ e.role = role => Rank(e.role, media) = k + 1
  BY <1>3 DEF OfRanks
<1>5. old \subseteq ToSet(endpoints) /\ new \subseteq ToSet(endpoints)
  BY DEF OfRanks
<1>6. added = {e.address : e \in {e \in ToSet(endpoints) : e.role = role}}
  <2>1. ToSet(endpoints) = {endpoints[n] : n \in 1..Len(endpoints)}
    BY DEF ToSet
  <2> QED
    BY <2>1 DEF Addressed
<1>7. ToSet(t) = {e.address : e \in new}
  <2>1. ToSet(t) = ToSet(list) \cup added
    BY <1>2 DEF Extends
  <2> QED
    BY <2>1, <1>1, <1>4, <1>5, <1>6
<1> HIDE DEF old, new, added
<1>8. \A a \in ToSet(list) : \E r \in 1..k : Due(old, a, media) = r /\ Due(new, a, media) = r
  <2>1. SUFFICES ASSUME NEW a \in ToSet(list)
                 PROVE  \E r \in 1..k : Due(old, a, media) = r /\ Due(new, a, media) = r
    OBVIOUS
  <2> DEFINE R == {Rank(e.role, media) : e \in {e \in old : e.address = a}}
  <2>2. PICK e0 \in old : e0.address = a
    BY <1>1
  <2>3. R # {} /\ \A r \in R : r \in 1..k
    BY <2>2, <1>4, <1>5
  <2>4. \A r \in R : r \in Nat
    BY <2>3
  <2>5. PICK r \in R : \A q \in R : r <= q
    <3>1. R \subseteq Nat
      BY <2>4
    <3> HIDE DEF R
    <3> QED
      BY <2>3, <3>1, LeastNumber
  <2>6. PICK e1 \in old : e1.address = a /\ Rank(e1.role, media) = r
    OBVIOUS
  <2>7. r \in 1..k /\ r \in 1..3 /\ r <= k + 1
    BY <2>3
  <2>8. \A e \in old : e.address = a => Rank(e.role, media) \in Int /\ r <= Rank(e.role, media)
    BY <2>5, <1>3, <1>5
  <2>9. Due(old, a, media) = r
    BY <2>6, <2>7, <2>8, DueIs
  <2>10. \A e \in new : e.address = a => Rank(e.role, media) \in Int /\ r <= Rank(e.role, media)
    BY <2>7, <2>8, <1>4, <1>5
  <2>11. e1 \in new
    BY <1>4, <1>5, <2>6
  <2>12. Due(new, a, media) = r
    BY <2>6, <2>7, <2>10, <2>11, DueIs
  <2> QED
    BY <2>7, <2>9, <2>12
<1>9. \A a \in ToSet(t) : a \notin ToSet(list) => Due(new, a, media) = k + 1
  <2>1. SUFFICES ASSUME NEW a \in ToSet(t), a \notin ToSet(list) PROVE Due(new, a, media) = k + 1
    OBVIOUS
  <2>2. \A e \in new : e.address = a => e \notin old /\ e.role = role /\ Rank(e.role, media) = k + 1
    BY <2>1, <1>1, <1>4, <1>5
  <2>3. \E e \in new : e.address = a
    BY <1>7
  <2>4. k + 1 \in 1..3 /\ k + 1 \in Int /\ k + 1 <= k + 1
    OBVIOUS
  <2> QED
    BY <2>2, <2>3, <2>4, DueIs
<1>10. \A i, j \in DOMAIN t : i < j => Due(new, t[i], media) <= Due(new, t[j], media)
  <2>1. SUFFICES ASSUME NEW i \in DOMAIN t, NEW j \in DOMAIN t, i < j
                 PROVE  Due(new, t[i], media) <= Due(new, t[j], media)
    OBVIOUS
  <2>2. /\ t \in Seq(Addresses) /\ Len(list) <= Len(t) /\ Len(list) \in Nat /\ Len(t) \in Nat
        /\ \A n \in 1..Len(list) : t[n] = list[n]
    BY <1>1, <1>2 DEF Extends
  <2>3. DOMAIN t = 1..Len(t) /\ DOMAIN list = 1..Len(list)
    BY <2>2, <1>1
  <2>4. t[i] \in ToSet(t) /\ t[j] \in ToSet(t)
    BY <2>2 DEF ToSet
  <2>5. \A n \in DOMAIN t : n \in 1..Len(list) => t[n] \in ToSet(list)
    BY <2>2, <1>1 DEF ToSet
  <2>6. \A n \in DOMAIN t : n \notin 1..Len(list) => t[n] \notin ToSet(list)
    <3>1. SUFFICES ASSUME NEW n \in DOMAIN t, n \notin 1..Len(list), t[n] \in ToSet(list) PROVE FALSE
      OBVIOUS
    <3>2. PICK m \in 1..Len(list) : list[m] = t[n]
      BY <3>1, <1>1 DEF ToSet
    <3>3. t[m] = t[n] /\ m \in DOMAIN t
      BY <3>2, <2>2, <2>3
    <3>4. m = n
      BY <3>3, <1>2 DEF Extends, IsInjective
    <3> QED
      BY <3>1, <3>2, <3>4
  <2>7. \A n \in DOMAIN t : Due(new, t[n], media) \in 1..(k + 1)
    <3>1. \A n \in DOMAIN t : t[n] \in ToSet(t)
      BY <2>2 DEF ToSet
    <3> QED
      BY <3>1, <1>8, <1>9
  <2>8. CASE j \notin 1..Len(list)
    BY <2>4, <2>6, <2>7, <2>8, <1>9
  <2>9. CASE j \in 1..Len(list)
    <3>1. i \in 1..Len(list)
      BY <2>1, <2>2, <2>3, <2>9
    <3>2. t[i] = list[i] /\ t[j] = list[j] /\ list[i] \in ToSet(list) /\ list[j] \in ToSet(list)
      BY <2>2, <2>5, <2>9, <3>1
    <3>3. Due(old, list[i], media) <= Due(old, list[j], media)
      BY <2>1, <2>3, <2>9, <3>1 DEF InRanks, old
    <3> QED
      BY <3>2, <3>3, <1>8
  <2> QED
    BY <2>8, <2>9
<1> QED
  BY <1>2, <1>7, <1>10 DEF InRanks, Extends, t, new

(* Chosen lists every endpoint that may serve the route once, by rank. *)
LEMMA ChosenInRanks ==
    ASSUME NEW endpoints \in Seq(Endpoints), NEW media \in BOOLEAN
    PROVE  InRanks(Chosen(endpoints, media), endpoints, media, 3)
<1>1. InRanks(<<>>, endpoints, media, 0)
  BY DEF InRanks, OfRanks, IsInjective, ToSet
<1>2. CASE media
  <2>1. \A r \in Roles : /\ Rank(r, media) = 0 + 1 <=> r = "media"
                         /\ Rank(r, media) = 1 + 1 <=> r = "cdn"
                         /\ Rank(r, media) = 2 + 1 <=> r = "regular"
    BY <1>2 DEF Rank, Roles
  <2> DEFINE one == appendRole(<<>>, endpoints, "media")
             two == appendRole(one, endpoints, "cdn")
  <2>2. InRanks(one, endpoints, media, 0 + 1)
    BY <1>1, <2>1, NextRank DEF Roles
  <2> HIDE DEF one
  <2>3. InRanks(two, endpoints, media, 1 + 1)
    BY <2>1, <2>2, NextRank DEF Roles
  <2> HIDE DEF two
  <2>4. InRanks(appendRole(two, endpoints, "regular"), endpoints, media, 2 + 1)
    BY <2>1, <2>3, NextRank DEF Roles
  <2>5. Chosen(endpoints, media) = appendRole(two, endpoints, "regular") /\ 2 + 1 = 3
    BY <1>2 DEF Chosen, one, two
  <2> QED
    BY <2>4, <2>5
<1>3. CASE ~media
  <2>1. \A r \in Roles : /\ Rank(r, media) = 0 + 1 <=> r = "regular"
                         /\ Rank(r, media) = 1 + 1 <=> r = "cdn"
                         /\ Rank(r, media) \in 1..3 => Rank(r, media) \in 1..2
    BY <1>3 DEF Rank, Roles
  <2> DEFINE one == appendRole(<<>>, endpoints, "regular")
             two == appendRole(one, endpoints, "cdn")
  <2>2. InRanks(one, endpoints, media, 0 + 1)
    BY <1>1, <2>1, NextRank DEF Roles
  <2> HIDE DEF one
  <2>3. InRanks(two, endpoints, media, 1 + 1)
    BY <2>1, <2>2, NextRank DEF Roles
  <2> HIDE DEF two
  <2>4. OfRanks(endpoints, media, 3) = OfRanks(endpoints, media, 2)
    <3>1. \A e \in ToSet(endpoints) : e.role \in Roles
      BY EndpointsTyped
    <3>2. \A e \in ToSet(endpoints) : Rank(e.role, media) \in 1..3 <=> Rank(e.role, media) \in 1..2
      BY <3>1, <2>1
    <3> QED
      BY <3>2 DEF OfRanks
  <2> QED
    BY <1>3, <2>3, <2>4 DEF Chosen, InRanks, one, two
<1> QED
  BY <1>2, <1>3

(* Only the empty list has no elements. *)
LEMMA EmptyToSet == ASSUME NEW A, NEW s \in Seq(A) PROVE ToSet(s) = {} <=> s = <<>>
<1>1. ToSet(s) = {s[i] : i \in 1..Len(s)} /\ Len(s) \in Nat
  BY DEF ToSet
<1>2. s # <<>> => s[1] \in ToSet(s)
  <2>1. s # <<>> => 1 \in 1..Len(s)
    OBVIOUS
  <2> QED
    BY <2>1, <1>1
<1>3. s = <<>> => ToSet(s) = {}
  BY <1>1
<1> QED
  BY <1>2, <1>3

(* AddressesForRoute falls back to the legacy address. *)
LEMMA AddressesRight ==
    ASSUME NEW routes, NEW dc, NEW media \in BOOLEAN,
           IsOptions(routes.options)
    PROVE  LET endpoints == Lookup(routes.options, dc, <<>>)
               eligible  == {e \in ToSet(endpoints) : Rank(e.role, media) # 0}
               list      == AddressesForRoute(routes, dc, media)
           IN  IF eligible = {}
               THEN list = IF dc \in DOMAIN routes.map THEN <<routes.map[dc]>> ELSE <<>>
               ELSE /\ list # <<>> /\ IsInjective(list)
                    /\ ToSet(list) = {e.address : e \in eligible}
                    /\ \A i, j \in DOMAIN list :
                          i < j => Due(eligible, list[i], media) <= Due(eligible, list[j], media)
<1> DEFINE endpoints == Lookup(routes.options, dc, <<>>)
           eligible  == {e \in ToSet(endpoints) : Rank(e.role, media) # 0}
           chosen    == Chosen(endpoints, media)
<1>1. endpoints \in Seq(Endpoints)
  BY DEF Lookup, IsOptions
<1> HIDE DEF endpoints
<1>2. InRanks(chosen, endpoints, media, 3)
  BY <1>1, ChosenInRanks
<1>3. eligible = OfRanks(endpoints, media, 3)
  <2>1. \A e \in ToSet(endpoints) : Rank(e.role, media) # 0 <=> Rank(e.role, media) \in 1..3
    BY <1>1, EndpointsTyped, RankType
  <2> QED
    BY <2>1 DEF OfRanks
<1> HIDE DEF eligible, chosen
<1>4. /\ chosen \in Seq(Addresses) /\ IsInjective(chosen)
      /\ ToSet(chosen) = {e.address : e \in eligible}
      /\ \A i, j \in DOMAIN chosen :
            i < j => Due(eligible, chosen[i], media) <= Due(eligible, chosen[j], media)
  BY <1>2, <1>3 DEF InRanks
<1>5. chosen = <<>> <=> eligible = {}
  <2>1. chosen = <<>> <=> ToSet(chosen) = {}
    BY <1>4 DEF ToSet
  <2> QED
    BY <2>1, <1>4
<1>6. AddressesForRoute(routes, dc, media) =
         IF chosen = <<>> /\ dc \in DOMAIN routes.map THEN <<routes.map[dc]>> ELSE chosen
  BY DEF AddressesForRoute, chosen, endpoints
<1> QED
  BY <1>4, <1>5, <1>6 DEF eligible, endpoints

(* The routes in force are those of the config file or of a bundle. *)
TopologyInv == file \in Files /\ (topology = Config(file) \/ topology \in Bundles)

(* No step puts other routes in force. *)
THEOREM TopologyInvariant == Spec => []TopologyInv
<1>1. Init => TopologyInv
  BY DEF Init, TopologyInv
<1>2. TopologyInv /\ [Next]_reportVars => TopologyInv'
  <2> SUFFICES ASSUME TopologyInv, [Next]_reportVars PROVE TopologyInv'
    OBVIOUS
  <2>1. UNCHANGED file /\ (UNCHANGED topology \/ topology' \in Bundles)
    BY DEF Next, refresh, contextEnds, giveUp, closeJobs, format, WorkerStep, handOut, stops, look, dial,
           reportVars, requestVars, serverVars
  <2> QED
    BY <2>1 DEF TopologyInv
<1> QED
  BY <1>1, <1>2, PTL DEF Spec

(* The legacy map in force is the one the owner wrote or the embedded one. *)
LEMMA LegacyRight ==
    ASSUME TopologyInv, NEW test \in BOOLEAN
    PROVE  /\ RoutesOf(topology, test).map = LegacyOf(test)
           /\ IsOptions(RoutesOf(topology, test).options)
           /\ RoutesOf(topology, test).options =
                 IF topology.signed THEN RoutesOf(topology, test).options
                 ELSE IF test THEN file.testDcOptions ELSE file.dcOptions
<1>1. CASE topology \in Bundles
  <2>1. /\ topology = Signed(topology.prod.options, topology.test.options)
        /\ IsOptions(topology.prod.options) /\ IsOptions(topology.test.options)
    BY <1>1, RoutesAssumption
  <2>2. topology.signed = TRUE /\ topology.prod.map = Empty /\ topology.test.map = Empty
    BY <2>1 DEF Signed
  <2> QED
    BY <2>1, <2>2 DEF RoutesOf, LegacyOf
<1>2. CASE topology = Config(file)
  <2>1. /\ topology.signed = FALSE
        /\ topology.prod.map = Loaded(file.dcMap, Embedded.prod) /\ topology.prod.options = file.dcOptions
        /\ topology.test.map = Loaded(file.testDcMap, Embedded.test) /\ topology.test.options = file.testDcOptions
    BY <1>2 DEF Config
  <2>2. /\ IsMember(file.dcMap) /\ IsMember(file.testDcMap)
        /\ IsOptions(file.dcOptions) /\ IsOptions(file.testDcOptions)
    BY RoutesAssumption DEF TopologyInv
  <2>3. ASSUME NEW member, NEW default, IsMember(member)
        PROVE  Loaded(member, default) = IF member.kind = "map" THEN member.routes ELSE default
    <3>1. Merged(member.routes, Empty) = member.routes
      <4>1. DOMAIN Empty = {}
        BY DEF Empty
      <4>2. Merged(member.routes, Empty) = [dc \in DOMAIN member.routes |-> member.routes[dc]]
        BY <4>1 DEF Merged, Lookup
      <4> QED
        BY <2>3, <4>2 DEF IsMember
    <3> QED
      BY <3>1 DEF Loaded, Reset
  <2> QED
    BY <2>1, <2>2, <2>3 DEF RoutesOf, LegacyOf
<1> QED
  BY <1>1, <1>2 DEF TopologyInv

(* The relay connects and advertises only what its operator or the signed      *)
(* bundle lists, whatever they list, with the addresses in the order of their  *)
(* roles and none twice.                                                       *)
THEOREM RouteReportRoutesAsConfigured == Spec => []RoutesAsConfigured
<1>1. TopologyInv => RoutesAsConfigured
  <2> SUFFICES ASSUME TopologyInv, NEW test \in BOOLEAN, NEW dc
               PROVE  /\ \A media \in BOOLEAN : ListRight(addresses(topology, dc, test, media), test, dc, media)
                      /\ dc \in configuredDCs(topology, test) <=> addresses(topology, dc, test, TRUE) # <<>>
    BY DEF RoutesAsConfigured
  <2> DEFINE routes == RoutesOf(topology, test)
             endpoints == Lookup(routes.options, dc, <<>>)
  <2>1. IsOptions(routes.options) /\ routes.map = LegacyOf(test) /\ ToSet(endpoints) = EndpointsOf(test, dc)
    BY LegacyRight DEF EndpointsOf
  <2>2. \A media \in BOOLEAN : addresses(topology, dc, test, media) = AddressesForRoute(routes, dc, media)
    BY DEF addresses
  <2>3. ASSUME NEW media \in BOOLEAN
        PROVE  ListRight(addresses(topology, dc, test, media), test, dc, media)
    <3>1. Eligible(test, dc, media) = {e \in ToSet(endpoints) : Rank(e.role, media) # 0}
      BY <2>1 DEF Eligible
    <3> QED
      BY <2>1, <2>2, <3>1, AddressesRight DEF ListRight
  <2>4. dc \in configuredDCs(topology, test) <=> addresses(topology, dc, test, TRUE) # <<>>
    <3> DEFINE eligible == {e \in ToSet(endpoints) : Rank(e.role, TRUE) # 0}
    <3>1. endpoints \in Seq(Endpoints)
      BY <2>1 DEF Lookup, IsOptions
    <3>2. eligible = ToSet(endpoints)
      <4> HIDE DEF endpoints
      <4>1. \A e \in ToSet(endpoints) : e.role \in Roles
        BY <3>1, EndpointsTyped
      <4>2. \A r \in Roles : Rank(r, TRUE) # 0
        BY DEF Roles, Rank
      <4> QED
        BY <4>1, <4>2
    <3>3. ToSet(endpoints) = {} <=> endpoints = <<>>
      BY <3>1, EmptyToSet
    <3>4. endpoints = <<>> <=> dc \notin {d \in DOMAIN routes.options : routes.options[d] # <<>>}
      BY DEF Lookup
    <3>5. IF eligible = {}
          THEN addresses(topology, dc, test, TRUE) = IF dc \in DOMAIN routes.map THEN <<routes.map[dc]>> ELSE <<>>
          ELSE addresses(topology, dc, test, TRUE) # <<>>
      BY <2>1, <2>2, AddressesRight
    <3>6. dc \in configuredDCs(topology, test)
          <=> dc \in DOMAIN routes.map \/ dc \in {d \in DOMAIN routes.options : routes.options[d] # <<>>}
      BY DEF configuredDCs
    <3> HIDE DEF eligible, endpoints, routes
    <3>7. CASE eligible = {}
      <4>1. addresses(topology, dc, test, TRUE) # <<>> <=> dc \in DOMAIN routes.map
        <5>1. CASE dc \in DOMAIN routes.map
          <6>1. addresses(topology, dc, test, TRUE) = <<routes.map[dc]>>
            BY <3>5, <3>7, <5>1
          <6>2. <<routes.map[dc]>> # <<>>
            OBVIOUS
          <6> QED
            BY <5>1, <6>1, <6>2
        <5>2. CASE dc \notin DOMAIN routes.map
          BY <3>5, <3>7, <5>2
        <5> QED
          BY <5>1, <5>2
      <4> QED
        BY <3>2, <3>3, <3>4, <3>6, <3>7, <4>1
    <3>8. CASE eligible # {}
      BY <3>2, <3>3, <3>4, <3>5, <3>6, <3>8
    <3> QED
      BY <3>7, <3>8
  <2> QED
    BY <2>3, <2>4
<1> QED
  BY <1>1, TopologyInvariant, PTL
=============================================================================
