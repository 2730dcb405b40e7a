---------------------------- MODULE UploadProofs ----------------------------
(* Proofs about Upload for any number of requests, any bodies, any windows   *)
(* and frame sizes, and any behaviour of the peer.                           *)
EXTENDS Upload, TLAPS

\* A pump under way whose window is open has its stream in the map of an open
\* connection: without it, a stream that destroy misses could wait for ever.
Reachable ==
    \A s \in Streams :
       pc[s] \notin {"idle", "done"} /\ ~closed[s] => s \in live /\ ~connClosed

IInv == TypeOK /\ NoLostWakeup /\ Reachable

\* Waking changes only pumps that wait there, and leaves none waiting.
LEMMA WakeLemma ==
    ASSUME NEW p \in [Streams -> Places], NEW from \in Places, NEW to \in Places, NEW who
    PROVE  /\ Wake(p, from, to, who) \in [Streams -> Places]
           /\ \A s \in Streams :
                 Wake(p, from, to, who)[s] = IF s \in who /\ p[s] = from THEN to ELSE p[s]
BY DEF Wake

LEMMA LeastLemma ==
    ASSUME NEW m \in Int, NEW n \in Int
    PROVE  Least(m, n) \in Int /\ Least(m, n) <= m /\ Least(m, n) <= n
BY DEF Least

LEMMA GrantedLemma ==
    ASSUME TypeOK, NEW s \in Streams
    PROVE  Granted(s) \in Int /\ Granted(s) <= connAvailable /\ Granted(s) <= rest[s]
<1>1. rest[s] \in Int /\ connAvailable \in Int /\ available[s] \in Int /\ maxFrame \in Int
  BY DEF TypeOK
<1>2. /\ Least(rest[s], connAvailable) \in Int
      /\ Least(rest[s], connAvailable) <= rest[s]
      /\ Least(rest[s], connAvailable) <= connAvailable
  BY <1>1, LeastLemma
<1>3. Least(available[s], maxFrame) \in Int
  BY <1>1, LeastLemma
<1>4. /\ Granted(s) \in Int
      /\ Granted(s) <= Least(rest[s], connAvailable)
  BY <1>2, <1>3, LeastLemma DEF Granted
<1> QED
  BY <1>1, <1>2, <1>4

LEMMA HeadLemma ==
    ASSUME TypeOK, in # <<>>
    PROVE  Head(in) \in InFrames /\ Tail(in) \in Seq(InFrames)
BY DEF TypeOK

LEMMA InitIInv == Init => IInv
<1> SUFFICES ASSUME Init PROVE IInv
  OBVIOUS
<1>1. [s \in Streams |-> Body(s)] \in [Streams -> Seq(Nat)]
  BY UploadAssumption
<1>2. chunks \in [Streams -> Seq(Nat)] /\ in \in Seq(InFrames)
  BY <1>1 DEF Init
<1>3. connAvailable \in Nat /\ initialWindow \in Nat /\ maxFrame \in Nat
  BY UploadAssumption DEF Init
<1>4. connClosed = FALSE /\ live = {} /\ remoteClosed = {}
  BY DEF Init
<1>5. /\ available \in [Streams -> Int] /\ closed \in [Streams -> BOOLEAN]
      /\ pc = [s \in Streams |-> "idle"] /\ rest \in [Streams -> Nat]
  BY DEF Init
<1> QED
  BY <1>2, <1>3, <1>4, <1>5 DEF IInv, TypeOK, NoLostWakeup, Reachable, Places

----------------------------------------------------------------------------
(* One lemma per group of actions *)

LEMMA PumpSteps ==
    ASSUME IInv, NEW s \in Streams, PumpStep(s)
    PROVE  IInv'
<1> USE DEF IInv, TypeOK, NoLostWakeup, Reachable, windows, map, remote, Places
<1>1. CASE Open(s)
  BY <1>1 DEF Open
<1>2. CASE NextChunk(s)
  <2>1. chunks[s] \in Seq(Nat) /\ chunks[s] # <<>>
    BY <1>2 DEF NextChunk
  <2>2. Head(chunks[s]) \in Nat /\ Tail(chunks[s]) \in Seq(Nat)
    BY <2>1
  <2> QED
    BY <1>2, <2>2 DEF NextChunk
<1>3. CASE LastChunk(s)
  BY <1>3 DEF LastChunk, Stopped
<1>4. CASE Check(s)
  BY <1>4 DEF Check, Stopped
<1>5. CASE CheckStream(s)
  BY <1>5 DEF CheckStream
<1>6. CASE GrantNothing(s)
  BY <1>6 DEF GrantNothing, Stopped
<1>7. CASE Grant(s)
  <2>1. PICK n : n = Granted(s)
    OBVIOUS
  <2>2. n \in Nat /\ n > 0 /\ n <= connAvailable /\ n <= rest[s]
    BY <1>7, <2>1, GrantedLemma DEF Grant
  <2>3. /\ connAvailable' = connAvailable - n /\ available' = [available EXCEPT ![s] = @ - n]
        /\ rest' = [rest EXCEPT ![s] = @ - n] /\ pc' = [pc EXCEPT ![s] = "sending"]
        /\ pc[s] = "grant"
        /\ UNCHANGED <<connClosed, closed, map, chunks, remote, in>>
    BY <1>7, <2>1 DEF Grant
  <2>4. \A t \in Streams : pc[t] # "connWait"
    BY <2>2
  <2>5. TypeOK'
    BY <2>2, <2>3
  <2>6. NoLostWakeup'
    BY <2>3, <2>4
  <2>7. Reachable'
    BY <2>3
  <2> QED
    BY <2>5, <2>6, <2>7
<1> QED
  BY <1>1, <1>2, <1>3, <1>4, <1>5, <1>6, <1>7 DEF PumpStep

LEMMA WrittenStep ==
    ASSUME IInv, Written
    PROVE  IInv'
<1> USE DEF IInv, TypeOK, NoLostWakeup, Reachable, windows, remote, Places
<1>1. PICK f : f = Head(out)
  OBVIOUS
<1>2. CASE f.kind = "DATA"
  <2>1. /\ pc' \in [Streams -> Places]
        /\ \A t \in Streams :
             \/ pc'[t] = pc[t]
             \/ pc'[t] \in {"done", "next", "check"} /\ pc[t] \in {"sending", "ending"}
        /\ \A t \in live : t \in live' \/ pc'[t] = "done"
        /\ live' \subseteq live
    BY <1>1, <1>2 DEF Written, Resumed
  <2>2. UNCHANGED <<windows, remoteClosed, chunks, rest, remote, in>>
    BY DEF Written
  <2>3. TypeOK'
    BY <2>1, <2>2
  <2>4. NoLostWakeup'
    BY <2>1, <2>2
  <2>5. Reachable'
    BY <2>1, <2>2
  <2> QED
    BY <2>3, <2>4, <2>5
<1>3. CASE f.kind # "DATA"
  BY <1>1, <1>3 DEF Written
<1> QED
  BY <1>2, <1>3

\* fail leaves no pump waiting for a window that is closed.
LEMMA FailLemma ==
    ASSUME IInv, NEW who \in SUBSET live, NEW p \in [Streams -> Places], Fail(who, p),
           connClosed' = connClosed, connAvailable' = connAvailable, available' = available,
           \A s \in Streams : p[s] = pc[s] \/ (p[s] = "done" /\ (s \in who \/ closed[s]))
    PROVE  /\ closed' \in [Streams -> BOOLEAN] /\ pc' \in [Streams -> Places]
           /\ live' \in SUBSET Streams
           /\ NoLostWakeup' /\ Reachable'
<1> DEFINE q == Wake(p, "streamWait", "grant", who)
<1>1. /\ q \in [Streams -> Places]
      /\ \A s \in Streams : q[s] = IF s \in who /\ p[s] = "streamWait" THEN "grant" ELSE p[s]
  BY WakeLemma DEF Places
<1>2. pc' = q
  BY DEF Fail
<1>3. \A s \in Streams : closed'[s] = (closed[s] \/ s \in who)
  BY DEF Fail
<1> HIDE DEF q
<1> QED
  BY <1>1, <1>2, <1>3 DEF Fail, IInv, TypeOK, NoLostWakeup, Reachable

LEMMA ResetSteps ==
    ASSUME IInv, NEW s \in Streams, Abort(s) \/ BodyFails(s) \/ OnReset(s)
    PROVE  IInv'
<1> USE DEF IInv
<1>1. pc \in [Streams -> Places] /\ {s} \intersect live \in SUBSET live
  BY DEF TypeOK, Places
<1>2. CASE Abort(s)
  BY <1>1, <1>2, FailLemma DEF Abort, Reset, TypeOK, Places, remote
<1>3. CASE BodyFails(s)
  <2> DEFINE p == [pc EXCEPT ![s] = "done"]
  <2>1. p \in [Streams -> Places]
    BY <1>1 DEF Places
  <2>2. \A t \in Streams : p[t] = pc[t] \/ (p[t] = "done" /\ t \in {s} \intersect live)
    BY <1>1, <1>3 DEF BodyFails
  <2> QED
    <3>1. Fail({s} \intersect live, p)
      BY <1>3 DEF BodyFails, Reset
    <3>2. UNCHANGED <<connAvailable, connClosed, available, remoteClosed, chunks, rest, remote, in>>
      BY <1>3 DEF BodyFails
    <3> HIDE DEF p
    <3>3. /\ closed' \in [Streams -> BOOLEAN] /\ pc' \in [Streams -> Places]
          /\ live' \in SUBSET Streams /\ NoLostWakeup' /\ Reachable'
      BY <1>1, <2>1, <2>2, <3>1, <3>2, FailLemma
    <3> QED
      BY <3>2, <3>3 DEF TypeOK, remote
<1>4. CASE OnReset(s)
  BY <1>1, <1>4, FailLemma, HeadLemma DEF OnReset, TypeOK, Places, InFrames, remote
<1> QED
  BY <1>2, <1>3, <1>4

\* destroy leaves no pump waiting at all.
LEMMA DestroyLemma ==
    ASSUME IInv, ~connClosed, NEW p \in [Streams -> Places], Destroy(p),
           \A s \in Streams : p[s] = pc[s] \/ p[s] = "done"
    PROVE  /\ connClosed' = TRUE /\ closed' \in [Streams -> BOOLEAN]
           /\ pc' \in [Streams -> Places] /\ live' \in SUBSET Streams
           /\ NoLostWakeup' /\ Reachable'
<1> DEFINE q == Wake(p, "connWait", "stream", Streams)
           r == Wake(q, "streamWait", "grant", live)
<1>1. /\ q \in [Streams -> Places]
      /\ \A s \in Streams : q[s] = IF p[s] = "connWait" THEN "stream" ELSE p[s]
  BY WakeLemma DEF Places
<1> HIDE DEF q
<1>2. /\ r \in [Streams -> Places]
      /\ \A s \in Streams : r[s] = IF s \in live /\ q[s] = "streamWait" THEN "grant" ELSE q[s]
  BY <1>1, WakeLemma DEF Places
<1>3. pc' = r /\ connClosed' = TRUE /\ live' = {}
  BY DEF Destroy, Fail, q, r
<1>4. closed' = [s \in Streams |-> closed[s] \/ s \in live]
  BY DEF Destroy, Fail
<1> HIDE DEF r
<1> QED
  BY <1>1, <1>2, <1>3, <1>4 DEF IInv, TypeOK, NoLostWakeup, Reachable

LEMMA CloseSteps ==
    ASSUME IInv, Close \/ WriteFails
    PROVE  IInv'
<1> USE DEF IInv
<1>1. pc \in [Streams -> Places]
  BY DEF TypeOK, Places
<1>2. CASE Close
  BY <1>1, <1>2, DestroyLemma DEF Close, TypeOK, Places, remote
<1>3. CASE WriteFails
  <2> DEFINE p == [s \in Streams |-> IF pc[s] \in {"sending", "ending"} THEN "done" ELSE pc[s]]
  <2>1. p \in [Streams -> Places] /\ \A s \in Streams : p[s] = pc[s] \/ p[s] = "done"
    BY <1>1 DEF Places
  <2>2. CASE connClosed
    BY <1>3, <2>1, <2>2 DEF WriteFails, TypeOK, NoLostWakeup, Reachable, Places, remote
  <2>3. CASE ~connClosed
    BY <1>3, <2>1, <2>3, DestroyLemma DEF WriteFails, TypeOK, Places, remote
  <2> QED
    BY <2>2, <2>3
<1> QED
  BY <1>2, <1>3

LEMMA ConnUpdateStep ==
    ASSUME IInv, OnConnUpdate
    PROVE  IInv'
<1> USE DEF IInv
<1>1. pc \in [Streams -> Places] /\ Head(in).size \in Nat /\ Tail(in) \in Seq(InFrames)
  BY HeadLemma DEF OnConnUpdate, TypeOK, InFrames
<1>2. /\ in' = Tail(in)
      /\ UNCHANGED <<available, remoteClosed, chunks, rest, remote>>
  BY DEF OnConnUpdate
<1>3. CASE Head(in).size = 0 /\ ~connClosed
  <2>1. Destroy(pc) /\ connAvailable' = connAvailable
    BY <1>3 DEF OnConnUpdate
  <2> QED
    BY <1>1, <1>2, <1>3, <2>1, DestroyLemma DEF TypeOK, remote
<1>4. CASE Head(in).size = 0 /\ connClosed
  BY <1>1, <1>2, <1>4 DEF OnConnUpdate, TypeOK, NoLostWakeup, Reachable, remote
<1>5. CASE Head(in).size # 0
  <2>1. /\ connAvailable' = connAvailable + Head(in).size
        /\ pc' = IF connAvailable' > 0 THEN Wake(pc, "connWait", "stream", Streams) ELSE pc
        /\ UNCHANGED <<connClosed, closed, live>>
    BY <1>5 DEF OnConnUpdate
  <2>2. connAvailable' \in Nat /\ connAvailable' > 0
    BY <1>1, <1>5, <2>1 DEF TypeOK
  <2>3. pc' = Wake(pc, "connWait", "stream", Streams)
    BY <2>1, <2>2
  <2>4. /\ pc' \in [Streams -> Places]
        /\ \A s \in Streams : pc'[s] = IF pc[s] = "connWait" THEN "stream" ELSE pc[s]
    BY <1>1, <2>3, WakeLemma DEF Places
  <2> QED
    BY <1>1, <1>2, <2>1, <2>2, <2>4 DEF TypeOK, NoLostWakeup, Reachable, remote
<1> QED
  BY <1>3, <1>4, <1>5

LEMMA UpdateStep ==
    ASSUME IInv, NEW s \in Streams, OnUpdate(s)
    PROVE  IInv'
<1> USE DEF IInv
<1>1. pc \in [Streams -> Places] /\ Head(in).size \in Nat /\ Tail(in) \in Seq(InFrames)
  BY HeadLemma DEF OnUpdate, TypeOK, InFrames
<1>2. /\ in' = Tail(in)
      /\ UNCHANGED <<connAvailable, connClosed, remoteClosed, chunks, rest, remote>>
  BY DEF OnUpdate
<1>3. CASE Head(in).size = 0
  <2>1. Fail({s} \intersect live, pc) /\ available' = available
    BY <1>3 DEF OnUpdate, Reset
  <2>2. /\ closed' \in [Streams -> BOOLEAN] /\ pc' \in [Streams -> Places]
        /\ live' \in SUBSET Streams /\ NoLostWakeup' /\ Reachable'
    BY <1>1, <1>2, <2>1, FailLemma
  <2> QED
    BY <1>1, <1>2, <2>1, <2>2 DEF TypeOK, remote
<1>4. CASE Head(in).size # 0
  <2> DEFINE who == {s} \intersect live
  <2>1. /\ available' = [available EXCEPT ![s] = IF s \in live THEN @ + Head(in).size ELSE @]
        /\ pc' = IF available'[s] > 0 THEN Wake(pc, "streamWait", "grant", who) ELSE pc
        /\ UNCHANGED <<closed, live>>
    BY <1>4 DEF OnUpdate
  <2>2. available' \in [Streams -> Int]
    BY <1>1, <2>1 DEF TypeOK
  <2>3. /\ Wake(pc, "streamWait", "grant", who) \in [Streams -> Places]
        /\ \A t \in Streams : Wake(pc, "streamWait", "grant", who)[t] =
                IF t \in who /\ pc[t] = "streamWait" THEN "grant" ELSE pc[t]
    BY <1>1, WakeLemma DEF Places
  <2>4. /\ pc' \in [Streams -> Places]
        /\ \A t \in Streams : \/ pc'[t] = pc[t] /\ (t = s /\ available'[s] > 0 /\ s \in live => pc[t] # "streamWait")
                              \/ pc'[t] = "grant" /\ pc[t] = "streamWait"
    BY <1>1, <2>1, <2>3
  <2>5. ASSUME NEW t \in Streams, pc'[t] = "streamWait"
        PROVE  available'[t] <= 0 /\ ~closed'[t]
    <3>1. pc[t] = "streamWait" /\ available[t] <= 0 /\ ~closed[t] /\ t \in live
      BY <2>4, <2>5 DEF NoLostWakeup, Reachable
    <3>2. CASE t = s
      <4>1. ~(available'[s] > 0)
        BY <2>4, <2>5, <3>1, <3>2
      <4>2. available'[s] \in Int
        BY <2>2
      <4> QED
        BY <2>1, <3>1, <3>2, <4>1, <4>2
    <3>3. CASE t # s
      BY <2>1, <3>1, <3>3 DEF TypeOK
    <3> QED
      BY <3>2, <3>3
  <2>6. \A t \in Streams : pc'[t] = "connWait" => connAvailable' = 0 /\ ~connClosed'
    BY <1>2, <2>4 DEF NoLostWakeup
  <2>7. NoLostWakeup'
    BY <2>5, <2>6 DEF NoLostWakeup
  <2> QED
    BY <1>1, <1>2, <2>1, <2>2, <2>4, <2>7 DEF TypeOK, Reachable, remote
<1> QED
  BY <1>3, <1>4

LEMMA SettingsStep ==
    ASSUME IInv, OnSettings
    PROVE  IInv'
<1> USE DEF IInv
<1>1. /\ pc \in [Streams -> Places] /\ Head(in).size \in Nat /\ Head(in).frame \in Nat
      /\ Tail(in) \in Seq(InFrames)
  BY HeadLemma DEF OnSettings, TypeOK, InFrames
<1>2. /\ in' = Tail(in) /\ initialWindow' = Head(in).size /\ maxFrame' = Head(in).frame
      /\ UNCHANGED <<connAvailable, connClosed, closed, map, chunks, rest>>
      /\ available' = [s \in Streams |-> IF s \in live
                         THEN available[s] + (Head(in).size - initialWindow) ELSE available[s]]
      /\ pc' = Wake(pc, "streamWait", "grant", {s \in live : available'[s] > 0})
  BY DEF OnSettings
<1>3. available' \in [Streams -> Int]
  BY <1>1, <1>2 DEF TypeOK
<1>4. /\ pc' \in [Streams -> Places]
      /\ \A t \in Streams : pc'[t] =
           IF t \in {s \in live : available'[s] > 0} /\ pc[t] = "streamWait" THEN "grant" ELSE pc[t]
  <2>1. PICK who : who = {s \in live : available'[s] > 0}
    OBVIOUS
  <2>2. pc' = Wake(pc, "streamWait", "grant", who)
    BY <1>2, <2>1
  <2>3. /\ pc' \in [Streams -> Places]
        /\ \A t \in Streams : pc'[t] = IF t \in who /\ pc[t] = "streamWait" THEN "grant" ELSE pc[t]
    BY <1>1, <2>2, WakeLemma DEF Places
  <2> QED
    BY <2>1, <2>3
<1>5. ASSUME NEW t \in Streams, pc'[t] = "streamWait"
      PROVE  available'[t] <= 0 /\ ~closed'[t]
  <2>1. pc[t] = "streamWait" /\ ~(t \in live /\ available'[t] > 0)
    BY <1>4, <1>5
  <2>2. ~closed[t] /\ t \in live
    BY <2>1 DEF NoLostWakeup, Reachable
  <2> QED
    BY <1>2, <1>3, <2>1, <2>2
<1>6. \A t \in Streams : pc'[t] = "connWait" => connAvailable' = 0 /\ ~connClosed'
  BY <1>2, <1>4 DEF NoLostWakeup
<1>7. NoLostWakeup'
  BY <1>5, <1>6 DEF NoLostWakeup
<1> QED
  BY <1>1, <1>2, <1>3, <1>4, <1>7 DEF TypeOK, Reachable, map

LEMMA EndStep ==
    ASSUME IInv, NEW s \in Streams, OnEnd(s)
    PROVE  IInv'
<1>1. Tail(in) \in Seq(InFrames)
  BY HeadLemma DEF OnEnd, IInv
<1> QED
  BY <1>1 DEF OnEnd, IInv, TypeOK, NoLostWakeup, Reachable, windows, pump, remote

\* What the peer sends only lengthens the queue of its frames.
LEMMA PeerSteps ==
    ASSUME IInv, PeerStep
    PROVE  IInv'
<1>1. ASSUME NEW f \in InFrames, in' = Append(in, f), UNCHANGED <<windows, map, pump, remote>>
      PROVE  IInv'
  BY <1>1 DEF IInv, TypeOK, NoLostWakeup, Reachable, windows, map, pump, remote
<1>2. ASSUME NEW n \in Increments, PeerGrants(n)
      PROVE  IInv'
  <2>1. [kind |-> "WINDOW_UPDATE", stream |-> {}, size |-> n, frame |-> 0] \in InFrames
    BY UploadAssumption DEF InFrames
  <2>2. /\ in' = Append(in, [kind |-> "WINDOW_UPDATE", stream |-> {}, size |-> n, frame |-> 0])
        /\ UNCHANGED <<windows, map, pump, remote>>
    BY <1>2 DEF PeerGrants, Sends
  <2> QED
    BY <1>1, <2>1, <2>2 DEF windows, map, pump, remote
<1>3. ASSUME NEW n \in Increments, NEW s \in Streams, PeerGrantsStream(s, n)
      PROVE  IInv'
  <2>1. [kind |-> "WINDOW_UPDATE", stream |-> {s}, size |-> n, frame |-> 0] \in InFrames
    BY UploadAssumption DEF InFrames
  <2>2. /\ in' = Append(in, [kind |-> "WINDOW_UPDATE", stream |-> {s}, size |-> n, frame |-> 0])
        /\ UNCHANGED <<windows, map, pump, remote>>
    BY <1>3 DEF PeerGrantsStream, Sends
  <2> QED
    BY <1>1, <2>1, <2>2 DEF windows, map, pump, remote
<1>4. ASSUME NEW w \in Windows, NEW m \in FrameSizes, PeerSets(w, m)
      PROVE  IInv'
  <2>1. [kind |-> "SETTINGS", stream |-> {}, size |-> w, frame |-> m] \in InFrames
    BY UploadAssumption DEF InFrames
  <2>2. /\ in' = Append(in, [kind |-> "SETTINGS", stream |-> {}, size |-> w, frame |-> m])
        /\ UNCHANGED <<windows, map, pump, remote>>
    BY <1>4 DEF PeerSets, Sends
  <2> QED
    BY <1>1, <2>1, <2>2 DEF windows, map, pump, remote
<1>5. ASSUME NEW s \in Streams, PeerEnds(s)
      PROVE  IInv'
  <2>1. [kind |-> "END", stream |-> {s}, size |-> 0, frame |-> 0] \in InFrames
    BY DEF InFrames
  <2>2. /\ in' = Append(in, [kind |-> "END", stream |-> {s}, size |-> 0, frame |-> 0])
        /\ UNCHANGED <<windows, map, pump, remote>>
    BY <1>5 DEF PeerEnds, Sends
  <2> QED
    BY <1>1, <2>1, <2>2 DEF windows, map, pump, remote
<1>6. ASSUME NEW kind \in {"RST_STREAM", "WINDOW_UPDATE"},
             NEW who \in {{}} \union {{s} : s \in Streams}, PeerBreaks(kind, who)
      PROVE  IInv'
  <2>1. [kind |-> kind, stream |-> who, size |-> 0, frame |-> 0] \in InFrames
    BY DEF InFrames
  <2>2. /\ in' = Append(in, [kind |-> kind, stream |-> who, size |-> 0, frame |-> 0])
        /\ UNCHANGED <<windows, map, pump, remote>>
    BY <1>6 DEF PeerBreaks, Sends
  <2> QED
    BY <1>1, <2>1, <2>2 DEF windows, map, pump, remote
<1> QED
  BY <1>2, <1>3, <1>4, <1>5, <1>6 DEF PeerStep

----------------------------------------------------------------------------
(* The theorems *)

\* Every step keeps the inductive invariant.
LEMMA NextIInv == IInv /\ [Next]_vars => IInv'
<1> SUFFICES ASSUME IInv, [Next]_vars PROVE IInv'
  OBVIOUS
<1>1. CASE \E s \in Streams : PumpStep(s)
  BY <1>1, PumpSteps
<1>2. CASE \E s \in Streams : Abort(s) \/ BodyFails(s) \/ OnReset(s)
  BY <1>2, ResetSteps
<1>3. CASE Written
  BY <1>3, WrittenStep
<1>4. CASE Close \/ WriteFails
  BY <1>4, CloseSteps
<1>5. CASE OnConnUpdate \/ OnSettings
  BY <1>5, ConnUpdateStep, SettingsStep
<1>6. CASE \E s \in Streams : OnUpdate(s) \/ OnEnd(s)
  BY <1>6, UpdateStep, EndStep
<1>7. CASE PeerStep
  BY <1>7, PeerSteps
<1>8. CASE UNCHANGED vars
  BY <1>8 DEF vars, IInv, TypeOK, NoLostWakeup, Reachable, windows, map, pump, remote
<1> QED
  BY <1>1, <1>2, <1>3, <1>4, <1>5, <1>6, <1>7, <1>8 DEF Next, OnFrame

\* The type invariant of the senders, whatever the peer does: in particular
\* pumpBody never overdraws the connection's window.
THEOREM UploadTyped == Spec => []TypeOK
<1>1. IInv => TypeOK
  BY DEF IInv
<1> QED
  BY <1>1, InitIInv, NextIInv, PTL DEF Spec

\* No pump ever waits for a window of SendWindow that is positive or closed, for
\* any number of requests and any order of updates, settings, resets and ends.
THEOREM NoPumpForgotten == Spec => []NoLostWakeup
<1>1. IInv => NoLostWakeup
  BY DEF IInv
<1> QED
  BY <1>1, InitIInv, NextIInv, PTL DEF Spec
=============================================================================
