---------------------------- MODULE RetryProofs ----------------------------
(* Proofs about Retry, for any number of calls, messages, sizes and budgets. *)
EXTENDS Retry, SequenceTheorems, TLAPS

----------------------------------------------------------------------------
(* Facts about sequences. *)

\* The first n messages form a sequence of n messages.
LEMMA PrefixType ==
    ASSUME NEW n \in Nat
    PROVE  /\ Len(Prefix(n)) = n
           /\ \A i \in 1..n : Prefix(n)[i] = i
           /\ n <= N => Prefix(n) \in Seq(1..N)
  <1>1. Prefix(n) \in [1..n -> 1..n]
    BY DEF Prefix
  <1>2. Prefix(n) \in Seq(1..n) /\ Len(Prefix(n)) = n
    BY <1>1, IsASeq, LenProperties, SMT DEF Prefix
  <1>3. n <= N => Prefix(n) \in Seq(1..N)
    <2> SUFFICES ASSUME n <= N PROVE Prefix(n) \in Seq(1..N)
      OBVIOUS
    <2>1. N \in Nat
      BY RetryAssumption
    <2> QED BY <2>1 DEF Prefix
  <1> QED BY <1>2, <1>3 DEF Prefix

\* Taking the next message extends the prefix.
LEMMA PrefixAppend ==
    ASSUME NEW n \in Nat
    PROVE  Append(Prefix(n), n + 1) = Prefix(n + 1)
  <1>1. Prefix(n) \in Seq(Nat) /\ Len(Prefix(n)) = n
    <2>1. Prefix(n) \in [1..n -> Nat]
      BY DEF Prefix
    <2> QED BY <2>1, IsASeq, LenProperties DEF Prefix
  <1>2. Append(Prefix(n), n + 1) \in Seq(Nat)
        /\ Len(Append(Prefix(n), n + 1)) = n + 1
        /\ \A i \in 1..n : Append(Prefix(n), n + 1)[i] = i
        /\ Append(Prefix(n), n + 1)[n + 1] = n + 1
    BY <1>1, AppendProperties DEF Prefix
  <1>3. Prefix(n + 1) \in Seq(Nat) /\ Len(Prefix(n + 1)) = n + 1
        /\ \A i \in 1..(n + 1) : Prefix(n + 1)[i] = i
    <2>1. Prefix(n + 1) \in [1..(n + 1) -> Nat]
      BY DEF Prefix
    <2> QED BY <2>1, IsASeq, LenProperties DEF Prefix
  <1>4. \A i \in 1..(n + 1) : Append(Prefix(n), n + 1)[i] = Prefix(n + 1)[i]
    BY <1>2, <1>3
  <1> QED BY <1>2, <1>3, <1>4, SeqEqual

----------------------------------------------------------------------------
(* The inductive invariant. *)

\* A call not yet answered has been executed at most once per counted attempt.
Advance(c) ==
    executed[c] <= previous[c] + (IF pc[c] \in {"response", "done"} THEN 1 ELSE 0)

\* While a retry is possible the snapshots and the upload are prefixes of the
\* input, and an attempt that waits for the source has replayed everything.
Exact(c) ==
    /\ ~committed[c] => /\ saved[c] = Prefix(read[c])
                        /\ sent[c] = Prefix(index[c])
                        /\ index[c] <= read[c]
                        /\ Waiting(c) => index[c] = read[c]
    /\ committed[c] => saved[c] = <<>> /\ bytes[c] = 0

\* Messages are sent in increasing order, and only after they were read.
Rising(c) ==
    /\ \A i, j \in 1..Len(sent[c]) : i < j => sent[c][i] < sent[c][j]
    /\ \A i \in 1..Len(sent[c]) : sent[c][i] <= read[c]

IInv == TypeOK /\ \A c \in Call : Advance(c) /\ Exact(c) /\ Rising(c)

\* The numeric bounds that the steps need.
LEMMA Bounds ==
    N \in Nat /\ MaxAttempts \in Nat /\ MaxAttempts >= 1 /\ MaxTokens \in Nat
    /\ TokenRatio \in Nat /\ MaxUnsent \in Nat /\ Size \in [1..N -> Nat]
  BY RetryAssumption

LEMMA InitIInv == Init => IInv
  <1> SUFFICES ASSUME Init PROVE IInv
    OBVIOUS
  <1>0. Prefix(0) = <<>>
    BY DEF Prefix
  <1>1. TypeOK
    BY Bounds, EmptySeq DEF Init, TypeOK
  <1>2. ASSUME NEW c \in Call PROVE Advance(c) /\ Exact(c) /\ Rising(c)
    BY <1>0 DEF Init, Advance, Exact, Rising, Waiting
  <1> QED BY <1>1, <1>2 DEF IInv

----------------------------------------------------------------------------
(* Every step preserves the types. *)

\* A charge keeps the tokens within their range.
LEMMA ChargedType ==
    ASSUME tokens \in 0..MaxTokens, NEW r \in BOOLEAN
    PROVE  Charged(r) \in 0..MaxTokens
  BY Bounds DEF Charged

\* So does commit for what it changes.
LEMMA CommitType ==
    ASSUME TypeOK, NEW c \in Call, Commit(c)
    PROVE  /\ (used \in Int)' /\ (bytes \in [Call -> Nat])'
           /\ (saved \in [Call -> Seq(1..N)])'
           /\ (committed \in [Call -> BOOLEAN])'
  BY EmptySeq DEF TypeOK, Commit

\* The call ends, whatever happened to the tokens.
LEMMA FinishType ==
    ASSUME TypeOK, NEW c \in Call, Finish(c),
           tokens' \in 0..MaxTokens, executed' \in [Call -> Nat]
    PROVE  TypeOK'
  <1>1. Commit(c)
    BY DEF Finish, Close
  <1>2. pc' = [pc EXCEPT ![c] = "done"] /\ ended' = [ended EXCEPT ![c] = TRUE]
        /\ UNCHANGED <<aborted, previous, refused, unsent, read, pending, attempt>>
    BY DEF Finish, Close
  <1> QED BY <1>1, <1>2, CommitType DEF TypeOK, attempt

\* The catch block of run.
LEMMA CaughtType ==
    ASSUME TypeOK, NEW c \in Call, NEW e, NEW r \in BOOLEAN, Caught(c, e, r),
           e = "unsent" => unsent[c] < MaxUnsent,
           executed' \in [Call -> Nat]
    PROVE  TypeOK'
  <1>0. tokens \in 0..MaxTokens
    BY DEF TypeOK
  <1>1. CASE Finish(c) /\ tokens' \in {tokens, Charged(r)}
    BY <1>0, <1>1, ChargedType, FinishType
  <1>2. CASE RetryTransparently(c, e)
    <2>1. /\ pc' = [pc EXCEPT ![c] = "pause"]
          /\ refused' = [refused EXCEPT ![c] = @ \/ e = "refused"]
          /\ unsent' = [unsent EXCEPT ![c] = IF e = "unsent" THEN @ + 1 ELSE @]
          /\ UNCHANGED <<shared, aborted, previous, input, replay, attempt>>
      BY <1>2 DEF RetryTransparently
    <2>2. (refused \in [Call -> BOOLEAN])'
      BY <2>1, Zenon DEF TypeOK
    <2>3. unsent[c] \in 0..MaxUnsent /\ unsent \in [Call -> 0..MaxUnsent]
      BY DEF TypeOK
    <2>4. e = "unsent" => unsent[c] + 1 \in 0..MaxUnsent
      BY <2>3, Bounds
    <2>5. (unsent \in [Call -> 0..MaxUnsent])'
      BY <2>1, <2>3, <2>4
    <2> QED BY <2>1, <2>2, <2>5 DEF TypeOK, shared, input, replay, attempt
  <1>3. CASE Retry(c) /\ MayRetry(c, r) /\ tokens' = Charged(r)
    <2>1. tokens' \in 0..MaxTokens
      BY <1>0, <1>3, ChargedType
    <2>2. previous[c] + 1 \in 0..(MaxAttempts - 1)
      <3>1. previous[c] \in 0..(MaxAttempts - 1)
        BY DEF TypeOK
      <3>2. previous[c] + 1 < MaxAttempts
        BY <1>3 DEF MayRetry
      <3> QED BY <3>1, <3>2, Bounds
    <2> QED BY <1>3, <2>1, <2>2
            DEF Retry, TypeOK, input, replay, attempt
  <1> QED BY <1>1, <1>2, <1>3 DEF Caught

\* A message is taken by the upload.
LEMMA TakesType ==
    ASSUME TypeOK, NEW c \in Call, NEW m \in 1..N, Takes(c, m)
    PROVE  /\ (upload \in [Call -> {"idle", "waiting", "done"}])'
           /\ (index \in [Call -> Nat])'
           /\ (sent \in [Call -> Seq(1..N)])'
  BY AppendProperties DEF Takes, TypeOK

\* A message is retained, or commits the call.
LEMMA SaveType ==
    ASSUME TypeOK, NEW c \in Call, NEW m \in 1..N, Save(c, m)
    PROVE  /\ (used \in Int)' /\ (bytes \in [Call -> Nat])'
           /\ (saved \in [Call -> Seq(1..N)])'
           /\ (committed \in [Call -> BOOLEAN])'
  <1>1. Size[m] \in Nat
    BY Bounds
  <1>2. CASE committed[c] /\ UNCHANGED <<replay, used>>
    BY <1>2 DEF TypeOK, replay
  <1>3. CASE Commit(c)
    BY <1>3, CommitType
  <1>4. CASE /\ used' = used + Size[m]
             /\ bytes' = [bytes EXCEPT ![c] = @ + Size[m]]
             /\ saved' = [saved EXCEPT ![c] = Append(@, m)]
             /\ UNCHANGED committed
    <2>1. (saved \in [Call -> Seq(1..N)])'
      <3>1. saved[c] \in Seq(1..N) /\ saved \in [Call -> Seq(1..N)]
        BY DEF TypeOK
      <3>2. Append(saved[c], m) \in Seq(1..N)
        BY <3>1, AppendProperties
      <3> QED BY <1>4, <3>1, <3>2
    <2>2. (used \in Int)' /\ (bytes \in [Call -> Nat])'
      <3>1. used \in Int /\ bytes \in [Call -> Nat] /\ bytes[c] + Size[m] \in Nat
        BY <1>1 DEF TypeOK
      <3> QED BY <1>1, <1>4, <3>1
    <2> QED BY <1>4, <2>1, <2>2 DEF TypeOK
  <1> QED BY <1>2, <1>3, <1>4 DEF Save

LEMMA NextType == TypeOK /\ [Next]_vars => TypeOK'
  <1> SUFFICES ASSUME TypeOK, [Next]_vars PROVE TypeOK'
    OBVIOUS
  <1>0. CASE UNCHANGED vars
    BY <1>0 DEF TypeOK, vars, shared, run, input, replay, attempt
  <1>1. ASSUME NEW c \in Call, Upload(c) PROVE TypeOK'
    <2>1. CASE NextSaved(c)
      <3>1. saved[c][index[c] + 1] \in 1..N
        <4>1. saved[c] \in Seq(1..N) /\ index[c] \in Nat
          BY DEF TypeOK
        <4>2. index[c] < Len(saved[c])
          BY <2>1 DEF NextSaved
        <4>3. saved[c] \in [1..Len(saved[c]) -> 1..N] /\ Len(saved[c]) \in Nat
          BY <4>1, LenProperties
        <4> QED BY <4>1, <4>2, <4>3
      <3>2. Takes(c, saved[c][index[c] + 1]) /\ UNCHANGED <<shared, run, input, replay>>
        BY <2>1 DEF NextSaved
      <3> QED BY <3>1, <3>2, TakesType DEF TypeOK, shared, run, input, replay
    <2>2. CASE NextDone(c)
      BY <2>2 DEF NextDone, TypeOK, shared, run, input, replay
    <2>3. CASE NextPending(c)
      BY <2>3 DEF NextPending, TypeOK, shared, run, replay
    <2> QED BY <1>1, <2>1, <2>2, <2>3 DEF Upload
  <1>2. ASSUME NEW c \in Call, Source(c) PROVE TypeOK'
    <2>1. CASE SourceYields(c)
      <3>1. read[c] + 1 \in 1..N
        BY <2>1, Bounds DEF SourceYields, TypeOK
      <3>2. Save(c, read[c] + 1)
        BY <2>1 DEF SourceYields
      <3>3. /\ (upload \in [Call -> {"idle", "waiting", "done"}])'
            /\ (index \in [Call -> Nat])'
            /\ (sent \in [Call -> Seq(1..N)])'
        <4>1. CASE Takes(c, read[c] + 1)
          BY <3>1, <4>1, TakesType
        <4>2. CASE UNCHANGED attempt
          BY <4>2 DEF TypeOK, attempt
        <4> QED BY <2>1, <4>1, <4>2 DEF SourceYields
      <3>4. /\ read' = [read EXCEPT ![c] = @ + 1]
            /\ pending' = [pending EXCEPT ![c] = "none"]
            /\ UNCHANGED <<tokens, run, ended>>
        BY <2>1 DEF SourceYields
      <3>5. (read \in [Call -> 0..N])'
        <4>1. read[c] + 1 \in 0..N
          BY <3>1
        <4> QED BY <3>4, <4>1 DEF TypeOK
      <3>6. /\ (used \in Int)' /\ (bytes \in [Call -> Nat])'
            /\ (saved \in [Call -> Seq(1..N)])'
            /\ (committed \in [Call -> BOOLEAN])'
        BY <3>1, <3>2, SaveType
      <3> QED BY <3>3, <3>4, <3>5, <3>6 DEF TypeOK, run
    <2>2. CASE SourceEnds(c)
      BY <2>2 DEF SourceEnds, TypeOK, shared, run, replay
    <2>3. CASE SourceThrows(c)
      BY <2>3 DEF SourceThrows, TypeOK, shared, run, replay, attempt
    <2> QED BY <1>2, <2>1, <2>2, <2>3 DEF Source
  <1>3. ASSUME NEW c \in Call, Run(c) PROVE TypeOK'
    <2>0. executed \in [Call -> Nat] /\ tokens \in 0..MaxTokens
      BY DEF TypeOK
    <2>1. CASE Select(c)
      BY <2>1, EmptySeq DEF Select, TypeOK, shared, input, replay
    <2>2. CASE SelectFails(c)
      BY <2>0, <2>2, CaughtType DEF SelectFails
    <2>3. CASE Unsent(c)
      BY <2>0, <2>3, CaughtType DEF Unsent
    <2>4. CASE Refused(c)
      BY <2>0, <2>4, CaughtType DEF Refused
    <2>5. CASE AttemptFails(c)
      BY <2>0, <2>5, CaughtType DEF AttemptFails
    <2>6. CASE Response(c)
      <3>1. Commit(c)
        BY <2>6 DEF Response
      <3>2. (executed \in [Call -> Nat])'
        BY <2>0, <2>6 DEF Response
      <3> QED BY <2>6, <3>1, <3>2, CommitType DEF Response, TypeOK, input, attempt
    <2>7. CASE ResponseEnds(c)
      <3>1. tokens' \in 0..MaxTokens
        BY <2>0, <2>7, Bounds, ChargedType DEF ResponseEnds, Success
      <3> QED BY <2>0, <2>7, <3>1, FinishType DEF ResponseEnds
    <2>8. CASE PauseEnds(c)
      BY <2>8 DEF PauseEnds, TypeOK, shared, input, replay, attempt
    <2>9. CASE Abort(c)
      BY <2>9 DEF Abort, TypeOK, shared, input, replay, attempt
    <2>10. CASE AbortedThrow(c)
      BY <2>0, <2>10, FinishType DEF AbortedThrow
    <2> QED BY <1>3, <2>1, <2>2, <2>3, <2>4, <2>5, <2>6, <2>7, <2>8, <2>9,
               <2>10 DEF Run
  <1> QED BY <1>0, <1>1, <1>2, <1>3 DEF Next

----------------------------------------------------------------------------
(* Every step preserves the invariant of every call. *)

\* What the invariants of a call depend on.
Same(c) ==
    /\ pc'[c] = pc[c] /\ previous'[c] = previous[c] /\ executed'[c] = executed[c]
    /\ read'[c] = read[c] /\ saved'[c] = saved[c] /\ bytes'[c] = bytes[c]
    /\ committed'[c] = committed[c] /\ upload'[c] = upload[c]
    /\ index'[c] = index[c] /\ sent'[c] = sent[c]

\* A call whose state does not change keeps its invariant.
LEMMA SameKeeps ==
    ASSUME NEW c \in Call, Same(c), Advance(c), Exact(c), Rising(c)
    PROVE  Advance(c)' /\ Exact(c)' /\ Rising(c)'
  BY DEF Same, Advance, Exact, Rising, Waiting

\* The catch block touches only its own call.
LEMMA CaughtOthers ==
    ASSUME TypeOK, NEW c \in Call, NEW d \in Call, d # c,
           NEW e, NEW r, Caught(c, e, r), executed'[d] = executed[d]
    PROVE  Same(d)
  <1>1. CASE Finish(c)
    BY <1>1 DEF Finish, Close, Commit, Same, TypeOK, attempt
  <1>2. CASE RetryTransparently(c, e)
    BY <1>2 DEF RetryTransparently, Same, TypeOK, input, replay, attempt
  <1>3. CASE Retry(c)
    BY <1>3 DEF Retry, Same, TypeOK, input, replay, attempt
  <1> QED BY <1>1, <1>2, <1>3 DEF Caught

\* The upload of a call takes nothing from another one.
LEMMA TakesOther ==
    ASSUME TypeOK, NEW c \in Call, NEW d \in Call, d # c, NEW m, Takes(c, m)
    PROVE  upload'[d] = upload[d] /\ index'[d] = index[d] /\ sent'[d] = sent[d]
  <1>1. sent' = [sent EXCEPT ![c] = Append(sent[c], m)]
        /\ index' = [index EXCEPT ![c] = index[c] + 1]
        /\ upload' = [upload EXCEPT ![c] = "idle"]
    BY DEF Takes
  <1>2. DOMAIN sent = Call /\ DOMAIN index = Call /\ DOMAIN upload = Call
    BY DEF TypeOK
  <1> QED BY <1>1, <1>2, Zenon

\* So does every other step.
LEMMA Others ==
    ASSUME TypeOK, NEW c \in Call, NEW d \in Call, d # c,
           Upload(c) \/ Source(c) \/ Run(c)
    PROVE  Same(d)
  <1>1. CASE Upload(c)
    <2>1. CASE NextSaved(c)
      <3>1. UNCHANGED <<run, input, replay>> /\ \E m : Takes(c, m)
        BY <2>1 DEF NextSaved
      <3> QED BY <3>1, TakesOther DEF Same, run, input, replay
    <2>2. CASE NextDone(c) \/ NextPending(c)
      BY <2>2 DEF NextDone, NextPending, Same, TypeOK, run, input, replay
    <2> QED BY <1>1, <2>1, <2>2 DEF Upload
  <1>2. CASE SourceYields(c)
    <2>1. saved'[d] = saved[d] /\ bytes'[d] = bytes[d] /\ committed'[d] = committed[d]
      BY <1>2 DEF SourceYields, Save, Commit, replay, TypeOK
    <2>2. upload'[d] = upload[d] /\ index'[d] = index[d] /\ sent'[d] = sent[d]
      BY <1>2, TakesOther DEF SourceYields, attempt
    <2> QED BY <1>2, <2>1, <2>2 DEF SourceYields, Same, TypeOK, run
  <1>3. CASE SourceEnds(c) \/ SourceThrows(c)
    BY <1>3 DEF SourceEnds, SourceThrows, Same, TypeOK, run, replay, attempt
  <1>4. CASE SelectFails(c) \/ Unsent(c) \/ Refused(c) \/ AttemptFails(c)
    <2>1. executed'[d] = executed[d]
      BY <1>4 DEF SelectFails, Unsent, Refused, AttemptFails, TypeOK
    <2>2. \E e, r : Caught(c, e, r)
      BY <1>4 DEF SelectFails, Unsent, Refused, AttemptFails
    <2> QED BY <2>1, <2>2, CaughtOthers
  <1>5. CASE Select(c) \/ Response(c) \/ PauseEnds(c) \/ Abort(c)
    <2>1. CASE Select(c)
      BY <2>1 DEF Select, Same, TypeOK, input, replay
    <2>2. CASE Response(c)
      BY <2>2 DEF Response, Commit, Same, TypeOK, input, attempt
    <2>3. CASE PauseEnds(c) \/ Abort(c)
      BY <2>3 DEF PauseEnds, Abort, Same, TypeOK, input, replay, attempt
    <2> QED BY <1>5, <2>1, <2>2, <2>3
  <1>6. CASE ResponseEnds(c) \/ AbortedThrow(c)
    BY <1>6 DEF ResponseEnds, AbortedThrow, Finish, Close, Commit, Same, TypeOK,
                attempt
  <1> QED BY <1>1, <1>2, <1>3, <1>4, <1>5, <1>6 DEF Source, Run

\* A call that ends keeps what it has sent and retains nothing.
LEMMA FinishKeeps ==
    ASSUME TypeOK, NEW c \in Call, Finish(c), Rising(c)
    PROVE  Exact(c)' /\ Rising(c)' /\ pc'[c] = "done" /\ previous'[c] = previous[c]
  <1>1. /\ committed'[c] = TRUE /\ saved'[c] = <<>> /\ bytes'[c] = 0
        /\ read' = read /\ sent' = sent /\ pc'[c] = "done" /\ previous' = previous
    BY DEF Finish, Close, Commit, TypeOK, attempt
  <1> QED BY <1>1 DEF Exact, Rising

\* The catch block: what was sent and retained stays exact, and an attempt
\* that the backend may have executed is counted before it is repeated.
LEMMA CaughtKeeps ==
    ASSUME TypeOK, NEW c \in Call, NEW e, NEW r, Caught(c, e, r),
           pc[c] \in {"select", "attempt"},
           executed'[c] = executed[c]
             \/ (e = "none" /\ executed'[c] = executed[c] + 1),
           Advance(c), Exact(c), Rising(c)
    PROVE  Advance(c)' /\ Exact(c)' /\ Rising(c)'
  <1>0. executed[c] \in Nat /\ previous[c] \in Nat /\ executed[c] <= previous[c]
    BY Bounds DEF TypeOK, Advance
  <1>1. CASE Finish(c)
    <2>1. executed'[c] <= previous'[c] + 1 /\ pc'[c] = "done"
      BY <1>0, <1>1, FinishKeeps
    <2> QED BY <1>1, <2>1, FinishKeeps DEF Advance
  <1>2. CASE RetryTransparently(c, e) /\ Transparent(c, e)
    <2>1. /\ pc'[c] = "pause" /\ previous' = previous
          /\ UNCHANGED <<read, saved, bytes, committed, index, sent>>
      BY <1>2 DEF RetryTransparently, TypeOK, input, replay, attempt
    <2>2. executed'[c] = executed[c]
      BY <1>2 DEF Transparent
    <2>3. Advance(c)'
      BY <1>0, <2>1, <2>2 DEF Advance
    <2> QED BY <2>1, <2>3 DEF Exact, Rising, Waiting
  <1>3. CASE Retry(c)
    <2>1. /\ pc'[c] = "pause" /\ previous'[c] = previous[c] + 1
          /\ UNCHANGED <<read, saved, bytes, committed, index, sent>>
      BY <1>3 DEF Retry, TypeOK, input, replay, attempt
    <2>2. Advance(c)'
      BY <1>0, <2>1 DEF Advance
    <2> QED BY <2>1, <2>2 DEF Exact, Rising, Waiting
  <1> QED BY <1>1, <1>2, <1>3 DEF Caught

\* Appending a message above all others keeps a sequence increasing.
LEMMA RisingAppend ==
    ASSUME NEW s \in Seq(1..N), NEW m \in 1..N, NEW k \in Nat, m <= k,
           \A i, j \in 1..Len(s) : i < j => s[i] < s[j],
           \A i \in 1..Len(s) : s[i] < m
    PROVE  /\ \A i, j \in 1..Len(Append(s, m)) : i < j => Append(s, m)[i] < Append(s, m)[j]
           /\ \A i \in 1..Len(Append(s, m)) : Append(s, m)[i] <= k
  <1>1. Len(s) \in Nat /\ \A i \in 1..Len(s) : s[i] \in 1..N
    BY LenProperties
  <1>2. /\ Len(Append(s, m)) = Len(s) + 1
        /\ \A i \in 1..Len(s) : Append(s, m)[i] = s[i]
        /\ Append(s, m)[Len(s) + 1] = m
    BY AppendProperties
  <1> DEFINE t == Append(s, m)
  <1>3. ASSUME NEW i \in 1..(Len(s) + 1), NEW j \in 1..(Len(s) + 1), i < j
        PROVE  t[i] < t[j]
    <2>1. i \in 1..Len(s) /\ t[i] = s[i]
      BY <1>1, <1>2, <1>3
    <2>2. CASE j \in 1..Len(s)
      BY <1>2, <1>3, <2>1, <2>2
    <2>3. CASE j = Len(s) + 1
      BY <1>2, <2>1, <2>3
    <2> QED BY <1>1, <2>2, <2>3
  <1>4. ASSUME NEW i \in 1..(Len(s) + 1) PROVE t[i] <= k
    <2>1. CASE i \in 1..Len(s)
      BY <1>1, <1>2, <2>1, Bounds
    <2>2. CASE i = Len(s) + 1
      BY <1>2, <2>2
    <2> QED BY <1>1, <2>1, <2>2
  <1> QED BY <1>2, <1>3, <1>4

\* The upload of an attempt.
LEMMA UploadKeeps ==
    ASSUME TypeOK, NEW c \in Call, Upload(c), Advance(c), Exact(c), Rising(c)
    PROVE  Advance(c)' /\ Exact(c)' /\ Rising(c)'
  <1>0. /\ index[c] \in Nat /\ read[c] \in Nat /\ read[c] <= N
        /\ saved[c] \in Seq(1..N) /\ Len(saved[c]) \in Nat
    BY Bounds, LenProperties DEF TypeOK
  <1>1. CASE NextSaved(c)
    <2>1. index[c] < Len(saved[c]) /\ Takes(c, saved[c][index[c] + 1])
          /\ UNCHANGED <<shared, run, input, replay>>
      BY <1>1 DEF NextSaved
    <2>2. ~committed[c]
      BY <1>0, <2>1, EmptySeq DEF Exact
    <2>3. saved[c] = Prefix(read[c]) /\ sent[c] = Prefix(index[c])
      BY <2>2 DEF Exact
    <2>4. Len(saved[c]) = read[c] /\ index[c] + 1 <= read[c]
      BY <1>0, <2>1, <2>3, PrefixType
    <2>5. saved[c][index[c] + 1] = index[c] + 1
      BY <1>0, <2>3, <2>4, PrefixType
    <2>6. sent'[c] = Append(sent[c], index[c] + 1) /\ index'[c] = index[c] + 1
          /\ upload'[c] = "idle"
      BY <2>1, <2>5 DEF Takes, TypeOK
    <2>7. sent'[c] = Prefix(index'[c])
      BY <1>0, <2>3, <2>6, PrefixAppend
    <2>8. Rising(c)'
      <3>1. index'[c] \in Nat /\ index'[c] <= read'[c]
        BY <1>0, <2>1, <2>4, <2>6 DEF input
      <3>2. Len(sent'[c]) = index'[c] /\ \A i \in 1..index'[c] : sent'[c][i] = i
        BY <2>7, <3>1, PrefixType
      <3>3. read'[c] \in Nat
        BY <1>0, <2>1 DEF input
      <3> QED BY <3>1, <3>2, <3>3 DEF Rising
    <2> QED BY <2>1, <2>4, <2>6, <2>7, <2>8
            DEF Advance, Exact, Waiting, run, input, replay
  <1>2. CASE NextDone(c)
    <2>1. upload'[c] = "done" /\ UNCHANGED <<run, input, replay, index, sent>>
      BY <1>2 DEF NextDone, TypeOK
    <2> QED BY <2>1 DEF Advance, Exact, Rising, Waiting, run, input, replay
  <1>3. CASE NextPending(c)
    <2>1. UNCHANGED <<run, read, replay, index, sent>> /\ index[c] >= Len(saved[c])
      BY <1>3 DEF NextPending
    <2>2. ~committed[c] => index[c] = read[c]
      <3> SUFFICES ASSUME ~committed[c] PROVE index[c] = read[c]
        OBVIOUS
      <3>1. saved[c] = Prefix(read[c]) /\ index[c] <= read[c]
        BY DEF Exact
      <3>2. Len(saved[c]) = read[c]
        BY <1>0, <3>1, PrefixType
      <3> QED BY <1>0, <2>1, <3>1, <3>2
    <2> QED BY <2>1, <2>2 DEF Advance, Exact, Rising, Waiting, run, replay
  <1> QED BY <1>1, <1>2, <1>3 DEF Upload

\* The source answers, to the attempt that waits or to nobody.
LEMMA SourceKeeps ==
    ASSUME TypeOK, NEW c \in Call, Source(c), Advance(c), Exact(c), Rising(c)
    PROVE  Advance(c)' /\ Exact(c)' /\ Rising(c)'
  <1>0. /\ index[c] \in Nat /\ read[c] \in Nat /\ sent[c] \in Seq(1..N)
        /\ saved[c] \in Seq(1..N) /\ Len(sent[c]) \in Nat
        /\ \A i \in 1..Len(sent[c]) : sent[c][i] \in Nat
    <2>1. index[c] \in Nat /\ read[c] \in Nat /\ sent[c] \in Seq(1..N)
          /\ saved[c] \in Seq(1..N)
      BY Bounds DEF TypeOK
    <2>2. Len(sent[c]) \in Nat /\ sent[c] \in [1..Len(sent[c]) -> 1..N]
      BY <2>1, LenProperties
    <2>3. \A i \in 1..Len(sent[c]) : sent[c][i] \in 1..N
      BY <2>2, Zenon
    <2>4. \A m \in 1..N : m \in Nat
      BY Bounds
    <2> QED BY <2>1, <2>2, <2>3, <2>4, Zenon
  <1>1. CASE SourceYields(c)
    <2> DEFINE m == read[c] + 1
    <2>1. /\ read'[c] = m /\ m \in 1..N /\ Save(c, m) /\ UNCHANGED run
          /\ IF Waiting(c) THEN Takes(c, m) ELSE UNCHANGED attempt
      <3>1. read'[c] = m /\ read[c] < N
        BY <1>1 DEF SourceYields, TypeOK
      <3>2. m \in 1..N
        BY <1>0, <3>1, Bounds
      <3> QED BY <1>1, <3>1, <3>2 DEF SourceYields
    <2>2. Advance(c)'
      BY <2>1 DEF Advance, run
    <2>3. Rising(c)'
      <3>1. \A i, j \in 1..Len(sent[c]) : i < j => sent[c][i] < sent[c][j]
        BY DEF Rising
      <3>2. \A i \in 1..Len(sent[c]) : sent[c][i] < m
        BY <1>0 DEF Rising
      <3>3. CASE Takes(c, m)
        <4>1. sent'[c] = Append(sent[c], m)
          BY <3>3 DEF Takes, TypeOK
        <4>2. m \in Nat /\ m <= m
          BY <1>0
        <4> HIDE DEF m
        <4> QED BY <1>0, <2>1, <3>1, <3>2, <4>1, <4>2, RisingAppend DEF Rising
      <3>4. CASE UNCHANGED attempt
        BY <1>0, <2>1, <3>1, <3>2, <3>4 DEF Rising, attempt
      <3> QED BY <2>1, <3>3, <3>4
    <2>4. Exact(c)'
      <3>1. CASE committed[c] /\ UNCHANGED <<replay, used>>
        BY <3>1 DEF Exact, replay
      <3>2. CASE Commit(c)
        BY <3>2 DEF Exact, Commit, TypeOK
      <3>3. CASE /\ ~committed[c]
                 /\ saved' = [saved EXCEPT ![c] = Append(@, m)]
                 /\ UNCHANGED committed
        <4>1. saved[c] = Prefix(read[c]) /\ sent[c] = Prefix(index[c])
              /\ index[c] <= read[c] /\ (Waiting(c) => index[c] = read[c])
          BY <3>3 DEF Exact
        <4>2. saved'[c] = Prefix(read'[c]) /\ ~committed'[c]
          BY <1>0, <2>1, <3>3, <4>1, PrefixAppend DEF TypeOK
        <4>3. CASE Waiting(c)
          <5>1. sent'[c] = Append(sent[c], m) /\ index'[c] = index[c] + 1
                /\ upload'[c] = "idle"
            BY <2>1, <4>3 DEF Takes, TypeOK
          <5>2. sent'[c] = Prefix(index'[c]) /\ index'[c] = read'[c]
            BY <1>0, <2>1, <4>1, <4>3, <5>1, PrefixAppend
          <5>3. index'[c] <= read'[c]
            BY <1>0, <2>1, <5>2
          <5> QED BY <4>2, <5>2, <5>3 DEF Exact
        <4>4. CASE ~Waiting(c)
          <5>1. sent' = sent /\ index' = index /\ ~Waiting(c)'
            BY <2>1, <4>4 DEF Waiting, attempt, run
          <5>2. index'[c] <= read'[c]
            <6>1. index[c] <= read[c] /\ read'[c] = read[c] + 1
              BY <2>1, <4>1
            <6> QED BY <1>0, <5>1, <6>1
          <5> QED BY <4>1, <4>2, <5>1, <5>2 DEF Exact
        <4> QED BY <4>3, <4>4
      <3> QED BY <2>1, <3>1, <3>2, <3>3 DEF Save
    <2> QED BY <2>2, <2>3, <2>4
  <1>2. CASE SourceEnds(c)
    <2>1. UNCHANGED <<run, read, replay, index, sent>>
          /\ (upload'[c] = upload[c] \/ upload'[c] = "done")
      BY <1>2 DEF SourceEnds, TypeOK
    <2> QED BY <2>1 DEF Advance, Exact, Rising, Waiting, run, replay
  <1>3. CASE SourceThrows(c)
    BY <1>3 DEF SourceThrows, Advance, Exact, Rising, Waiting, run, replay, attempt
  <1> QED BY <1>1, <1>2, <1>3 DEF Source

\* The loop of run, the response and the abort.
LEMMA RunKeeps ==
    ASSUME TypeOK, NEW c \in Call, Run(c), Advance(c), Exact(c), Rising(c)
    PROVE  Advance(c)' /\ Exact(c)' /\ Rising(c)'
  <1>0. executed[c] \in Nat /\ previous[c] \in Nat /\ read[c] \in Nat
    BY Bounds DEF TypeOK
  <1>1. CASE Select(c)
    <2>1. /\ pc[c] = "select" /\ pc'[c] = "attempt" /\ upload'[c] = "idle"
          /\ index'[c] = 0 /\ sent'[c] = <<>>
          /\ UNCHANGED <<previous, executed, read, saved, bytes, committed>>
      BY <1>1 DEF Select, TypeOK, input, replay
    <2>2. Prefix(0) = <<>> /\ Len(<<>>) = 0
      BY EmptySeq DEF Prefix
    <2>3. Rising(c)'
      <3>1. 1..Len(sent'[c]) = {}
        BY <2>1, <2>2
      <3> QED BY <3>1, Zenon DEF Rising
    <2>4. Exact(c)'
      BY <1>0, <2>1, <2>2 DEF Exact, Waiting
    <2> QED BY <2>1, <2>3, <2>4 DEF Advance
  <1>2. CASE SelectFails(c) \/ Unsent(c) \/ Refused(c) \/ AttemptFails(c)
    <2>1. pc[c] \in {"select", "attempt"}
      BY <1>2 DEF SelectFails, Unsent, Refused, AttemptFails
    <2>2. \E e, r : /\ Caught(c, e, r)
                    /\ \/ executed'[c] = executed[c]
                       \/ e = "none" /\ executed'[c] = executed[c] + 1
      BY <1>2 DEF SelectFails, Unsent, Refused, AttemptFails, TypeOK
    <2> QED BY <2>1, <2>2, CaughtKeeps
  <1>3. CASE Response(c)
    <2>1. /\ pc[c] = "attempt" /\ pc'[c] = "response"
          /\ executed'[c] = executed[c] + 1
          /\ committed'[c] = TRUE /\ saved'[c] = <<>> /\ bytes'[c] = 0
          /\ UNCHANGED <<previous, read, sent>>
      BY <1>3 DEF Response, Commit, TypeOK, input, attempt
    <2>2. Advance(c)'
      BY <1>0, <2>1 DEF Advance
    <2> QED BY <2>1, <2>2 DEF Exact, Rising
  <1>4. CASE ResponseEnds(c) \/ AbortedThrow(c)
    <2>1. Finish(c) /\ executed' = executed
      BY <1>4 DEF ResponseEnds, AbortedThrow
    <2>2. Advance(c)'
      BY <1>0, <2>1, FinishKeeps DEF Advance
    <2> QED BY <2>1, <2>2, FinishKeeps
  <1>5. CASE PauseEnds(c) \/ Abort(c)
    <2>1. \/ pc'[c] = pc[c]
          \/ pc[c] = "pause" /\ pc'[c] = "select"
      BY <1>5 DEF PauseEnds, Abort, TypeOK
    <2>2. UNCHANGED <<previous, executed, input, replay, attempt>>
      BY <1>5 DEF PauseEnds, Abort
    <2> QED BY <2>1, <2>2
            DEF Advance, Exact, Rising, Waiting, input, replay, attempt
  <1> QED BY <1>1, <1>2, <1>3, <1>4, <1>5 DEF Run

LEMMA NextIInv == IInv /\ [Next]_vars => IInv'
  <1> SUFFICES ASSUME IInv, [Next]_vars PROVE IInv'
    OBVIOUS
  <1>1. TypeOK /\ TypeOK'
    BY NextType DEF IInv
  <1>2. ASSUME NEW d \in Call PROVE (Advance(d) /\ Exact(d) /\ Rising(d))'
    <2>0. Advance(d) /\ Exact(d) /\ Rising(d)
      BY DEF IInv
    <2>1. CASE UNCHANGED vars
      <3>1. Same(d)
        BY <2>1 DEF Same, vars, run, input, replay, attempt
      <3> QED BY <2>0, <3>1, SameKeeps
    <2>2. ASSUME NEW c \in Call, Upload(c) \/ Source(c) \/ Run(c), c # d
          PROVE  (Advance(d) /\ Exact(d) /\ Rising(d))'
      <3>1. Same(d)
        BY <1>1, <2>2, Others
      <3> QED BY <2>0, <3>1, SameKeeps
    <2>3. CASE Upload(d)
      BY <1>1, <2>0, <2>3, UploadKeeps
    <2>4. CASE Source(d)
      BY <1>1, <2>0, <2>4, SourceKeeps
    <2>5. CASE Run(d)
      BY <1>1, <2>0, <2>5, RunKeeps
    <2> QED BY <2>1, <2>2, <2>3, <2>4, <2>5 DEF Next
  <1> QED BY <1>1, <1>2 DEF IInv

----------------------------------------------------------------------------
(* The theorems. *)

\* The invariant holds in every behaviour of the retry layer.
THEOREM Invariance == Spec => []IInv
  BY InitIInv, NextIInv, PTL DEF Spec

\* The state of the connection and its calls is always well typed: the tokens
\* stay within their bucket, and maxAttempts bounds the counted attempts.
THEOREM TypeCorrect == Spec => []TypeOK
  <1>1. IInv => TypeOK
    BY DEF IInv
  <1> QED BY <1>1, Invariance, PTL

\* A retry that starts before the call commits replays exactly what was read,
\* whatever the order of reads, refusals and retries; committing frees all.
THEOREM ExactReplay == Spec => []ReplayIsExact
  <1>1. IInv => ReplayIsExact
    BY DEF IInv, Exact, ReplayIsExact
  <1> QED BY <1>1, Invariance, PTL

\* No attempt sends a message twice or out of order.
THEOREM NoRepetition == Spec => []NeverTwice
  <1>1. IInv => NeverTwice
    BY DEF IInv, Rising, NeverTwice
  <1> QED BY <1>1, Invariance, PTL

\* The backend executes a call at most maxAttempts times, once without policy.
THEOREM BoundedExecutions == Spec => []ExecutionsBounded
  <1>1. ASSUME IInv, NEW c \in Call PROVE executed[c] <= MaxAttempts
    <2>1. executed[c] \in Nat /\ previous[c] \in 0..(MaxAttempts - 1) /\ Advance(c)
      BY <1>1 DEF IInv, TypeOK
    <2> QED BY <2>1, Bounds DEF Advance
  <1>2. IInv => ExecutionsBounded
    BY <1>1 DEF ExecutionsBounded
  <1> QED BY <1>2, Invariance, PTL
=============================================================================
