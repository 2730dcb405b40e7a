------------------------------- MODULE Retry -------------------------------
(* The retry layer of the browser client, web/src/retry.ts: one logical     *)
(* connection (RetryingTransport) and the calls on it.  A call runs one     *)
(* attempt after another (run); all of them read the caller's messages      *)
(* through one Replay, which keeps snapshots of the messages read so far    *)
(* while a retry is still possible, within a budget per call and a budget   *)
(* shared by the connection.                                                *)
(*                                                                          *)
(* The caller's input is the messages 1, 2, ..., N of sizes Size[1], ...    *)
(* (serialized, with the gRPC prefix); it may end early or throw.  A unary  *)
(* call is one whose input has a single message.  Time is abstract: a       *)
(* pause may end at any moment and an abort (cancellation, deadline,        *)
(* shutdown of the connection) may come at any moment.                      *)
EXTENDS Integers, Sequences

CONSTANTS
    Call,
    N,               \* messages in the input of a call
    Size,            \* Size[m]: bytes retained for message m
    PerRpcBuffer,    \* options.perRpcBufferBytes
    Buffer,          \* options.bufferBytes
    MaxAttempts,     \* policy.maxAttempts; 1 when the method has no policy
    MaxTokens,       \* throttling.maxTokens; 0 without throttling
    TokenRatio,      \* throttling.tokenRatio
    MaxUnsent        \* bound: transparent retries of requests never sent

ASSUME RetryAssumption ==
    /\ N \in Nat
    /\ Size \in [1..N -> Nat]
    /\ PerRpcBuffer \in Nat /\ Buffer \in Nat
    /\ MaxAttempts \in 1..5
    /\ MaxTokens \in Nat /\ TokenRatio \in Nat
    /\ MaxUnsent \in Nat

VARIABLES
    used, tokens,                               \* RetryingTransport
    pc, aborted, previous, refused, unsent,     \* run: locals
    executed,    \* ghost: attempts that the backend may have executed
    read, pending, ended, saved, bytes, committed,   \* Replay
    upload, index, sent      \* the current attempt: its iterable, what it sent

shared == <<used, tokens>>
run == <<pc, aborted, previous, refused, unsent, executed>>
input == <<read, pending, ended>>
replay == <<saved, bytes, committed>>
attempt == <<upload, index, sent>>
vars == <<shared, run, input, replay, attempt>>

Init ==
    /\ used = 0
    /\ tokens = MaxTokens
    /\ pc = [c \in Call |-> "select"]
    /\ aborted = [c \in Call |-> FALSE]
    /\ previous = [c \in Call |-> 0]
    /\ refused = [c \in Call |-> FALSE]
    /\ unsent = [c \in Call |-> 0]
    /\ executed = [c \in Call |-> 0]
    /\ read = [c \in Call |-> 0]
    /\ pending = [c \in Call |-> "none"]
    /\ ended = [c \in Call |-> FALSE]
    /\ saved = [c \in Call |-> <<>>]
    /\ bytes = [c \in Call |-> 0]
    /\ committed = [c \in Call |-> FALSE]
    /\ upload = [c \in Call |-> "idle"]
    /\ index = [c \in Call |-> 0]
    /\ sent = [c \in Call |-> <<>>]

----------------------------------------------------------------------------
(* Replay. *)

\* Mutant: the released bytes stay on the call and are released again.
CommitReleasesAgain(c) ==
    /\ committed' = [committed EXCEPT ![c] = TRUE]
    /\ used' = used - bytes[c]
    /\ saved' = [saved EXCEPT ![c] = <<>>]
    /\ UNCHANGED bytes

\* commit: no retry any more, so the snapshots are dropped.
Commit(c) ==
    /\ committed' = [committed EXCEPT ![c] = TRUE]
    /\ used' = used - bytes[c]
    /\ bytes' = [bytes EXCEPT ![c] = 0]
    /\ saved' = [saved EXCEPT ![c] = <<>>]

\* close: the call is over, and so is its input.
Close(c) ==
    /\ Commit(c)
    /\ ended' = [ended EXCEPT ![c] = TRUE]

\* A message read before the call committed is retained, or commits the call
\* when either budget is exhausted.
Fits(c, n) == bytes[c] + n <= PerRpcBuffer /\ used + n <= Buffer

\* Mutant: only what the current attempt asked for is retained.
SaveForWaiter(c, m) ==
    IF committed[c] \/ pc[c] # "attempt" THEN UNCHANGED <<replay, used>>
    ELSE /\ used' = used + Size[m]
         /\ bytes' = [bytes EXCEPT ![c] = @ + Size[m]]
         /\ saved' = [saved EXCEPT ![c] = Append(@, m)]
         /\ UNCHANGED committed

Save(c, m) ==
    \/ committed[c] /\ UNCHANGED <<replay, used>>
    \/ ~committed[c] /\ ~Fits(c, Size[m]) /\ Commit(c)
    \/ /\ ~committed[c] /\ Fits(c, Size[m])
       /\ used' = used + Size[m]
       /\ bytes' = [bytes EXCEPT ![c] = @ + Size[m]]
       /\ saved' = [saved EXCEPT ![c] = Append(@, m)]
       /\ UNCHANGED committed

\* The attempt's upload takes message m.
Takes(c, m) ==
    /\ sent' = [sent EXCEPT ![c] = Append(@, m)]
    /\ index' = [index EXCEPT ![c] = @ + 1]
    /\ upload' = [upload EXCEPT ![c] = "idle"]

\* iterable().next(), called by the upload of the current attempt: a snapshot
\* if there is one, the end if the input has ended, otherwise the pending read
\* of the source, which is started unless an earlier attempt left one behind.
Uploading(c) == pc[c] \in {"attempt", "response"} /\ upload[c] = "idle"

NextSaved(c) ==
    /\ Uploading(c) /\ index[c] < Len(saved[c])
    /\ Takes(c, saved[c][index[c] + 1])
    /\ UNCHANGED <<shared, run, input, replay>>

NextDone(c) ==
    /\ Uploading(c) /\ index[c] >= Len(saved[c]) /\ ended[c]
    /\ upload' = [upload EXCEPT ![c] = "done"]
    /\ UNCHANGED <<shared, run, input, replay, index, sent>>

NextPending(c) ==
    /\ Uploading(c) /\ index[c] >= Len(saved[c]) /\ ~ended[c]
    /\ pending' = [pending EXCEPT ![c] = IF @ = "none" THEN "reading" ELSE @]
    /\ upload' = [upload EXCEPT ![c] = "waiting"]
    /\ UNCHANGED <<shared, run, read, ended, replay, index, sent>>

\* The source answers.  The snapshot, the reset of pending and the delivery to
\* the attempt that waits are one step: no next() that runs between them takes
\* another course than one that runs before or after all of them.  An attempt
\* that was stopped in the meantime gets nothing.
Waiting(c) == pc[c] \in {"attempt", "response"} /\ upload[c] = "waiting"

\* Mutant: the read of a committed call is left in pending.
SourceYieldsAgain(c) ==
    /\ pending[c] = "reading" /\ read[c] < N
    /\ read' = [read EXCEPT ![c] = IF committed[c] THEN @ ELSE @ + 1]
    /\ pending' = [pending EXCEPT ![c] = "none"]
    /\ Save(c, read[c] + 1)
    /\ IF Waiting(c) THEN Takes(c, read[c] + 1) ELSE UNCHANGED attempt
    /\ UNCHANGED <<tokens, run, ended>>

SourceYields(c) ==
    /\ pending[c] = "reading" /\ read[c] < N
    /\ read' = [read EXCEPT ![c] = @ + 1]
    /\ pending' = [pending EXCEPT ![c] = "none"]
    /\ Save(c, read[c] + 1)
    /\ IF Waiting(c) THEN Takes(c, read[c] + 1) ELSE UNCHANGED attempt
    /\ UNCHANGED <<tokens, run, ended>>

SourceEnds(c) ==
    /\ pending[c] = "reading"
    /\ ended' = [ended EXCEPT ![c] = TRUE]
    /\ pending' = [pending EXCEPT ![c] = "none"]
    /\ upload' = [upload EXCEPT ![c] = IF Waiting(c) THEN "done" ELSE @]
    /\ UNCHANGED <<shared, run, read, replay, index, sent>>

\* A rejected read is never taken out of pending: every later next() that
\* comes so far rejects with the same error.
SourceThrows(c) ==
    /\ pending[c] = "reading"
    /\ pending' = [pending EXCEPT ![c] = "rejected"]
    /\ UNCHANGED <<shared, run, read, ended, replay, attempt>>

----------------------------------------------------------------------------
(* The tokens of the connection. *)

Success == tokens' = IF tokens + TokenRatio < MaxTokens
                     THEN tokens + TokenRatio ELSE MaxTokens

\* failure(error, policy): an error whose status is retryable costs a token.
Charged(retryable) ==
    IF retryable /\ MaxAttempts > 1 /\ tokens > 0 THEN tokens - 1 ELSE tokens

----------------------------------------------------------------------------
(* run. *)

\* The call returns or throws, and its replay is closed.
Finish(c) ==
    /\ pc' = [pc EXCEPT ![c] = "done"]
    /\ Close(c)
    /\ UNCHANGED <<aborted, previous, refused, unsent, read, pending, attempt>>

\* Mutant: the first failure counts as a refusal without evidence of one.
TransparentWithoutEvidence(c, evidence) == evidence = "unsent" \/ ~refused[c]

\* A transparent retry neither costs a token nor counts as an attempt.
Transparent(c, evidence) ==
    evidence = "unsent" \/ (evidence = "refused" /\ ~refused[c])

RetryTransparently(c, evidence) ==
    /\ pc' = [pc EXCEPT ![c] = "pause"]
    /\ refused' = [refused EXCEPT ![c] = @ \/ evidence = "refused"]
    /\ unsent' = [unsent EXCEPT ![c] = IF evidence = "unsent" THEN @ + 1 ELSE @]
    /\ UNCHANGED <<shared, aborted, previous, input, replay, attempt>>

\* Mutant: the original attempt is not counted.
MayRetryOnceMore(c, retryable) ==
    /\ retryable /\ previous[c] < MaxAttempts
    /\ MaxTokens = 0 \/ 2 * Charged(retryable) > MaxTokens

\* A configured retry; previous is counted when the pause begins, which
\* nothing can tell from the code's order.
MayRetry(c, retryable) ==
    /\ retryable /\ previous[c] + 1 < MaxAttempts
    /\ MaxTokens = 0 \/ 2 * Charged(retryable) > MaxTokens

Retry(c) ==
    /\ pc' = [pc EXCEPT ![c] = "pause"]
    /\ previous' = [previous EXCEPT ![c] = @ + 1]
    /\ UNCHANGED <<used, aborted, refused, unsent, input, replay, attempt>>

\* The catch block: select or the attempt failed, with or without evidence
\* that the backend did not see the request.  Any error may end the call: a
\* malformed pushback prevents the retry of a retryable status, too.
Caught(c, evidence, retryable) ==
    \/ aborted[c] /\ Finish(c) /\ UNCHANGED tokens
    \/ /\ ~aborted[c] /\ Transparent(c, evidence)
       /\ \/ committed[c] /\ Finish(c) /\ UNCHANGED tokens
          \/ ~committed[c] /\ RetryTransparently(c, evidence)
    \/ /\ ~aborted[c] /\ ~Transparent(c, evidence)
       /\ tokens' = Charged(retryable)
       /\ \/ Finish(c)
          \/ ~committed[c] /\ MayRetry(c, retryable) /\ Retry(c)

\* select gives the transport of a ready session, and an attempt begins.
Select(c) ==
    /\ pc[c] = "select" /\ ~aborted[c]
    /\ pc' = [pc EXCEPT ![c] = "attempt"]
    /\ upload' = [upload EXCEPT ![c] = "idle"]
    /\ index' = [index EXCEPT ![c] = 0]
    /\ sent' = [sent EXCEPT ![c] = <<>>]
    /\ UNCHANGED <<shared, aborted, previous, refused, unsent, executed, input,
                   replay>>

\* select rejects (no session, or no time left).
SelectFails(c) ==
    /\ pc[c] = "select" /\ ~aborted[c]
    /\ \E retryable \in BOOLEAN : Caught(c, "none", retryable)
    /\ UNCHANGED executed

\* The request never left: the session was closed or draining.
Unsent(c) ==
    /\ pc[c] = "attempt" /\ sent[c] = <<>> /\ upload[c] = "idle"
    /\ unsent[c] < MaxUnsent
    /\ Caught(c, "unsent", TRUE)
    /\ UNCHANGED executed

\* The backend refused the stream (RST_STREAM, or GOAWAY excludes it).
Refused(c) ==
    /\ pc[c] = "attempt"
    /\ \E retryable \in BOOLEAN : Caught(c, "refused", retryable)
    /\ UNCHANGED executed

\* A trailers-only error, a lost connection, or an input that threw.
AttemptFails(c) ==
    /\ pc[c] = "attempt"
    /\ \E retryable \in BOOLEAN : Caught(c, "none", retryable)
    /\ executed' = [executed EXCEPT ![c] = @ + 1]

\* The response headers, or trailers only with status OK, commit the call.
Response(c) ==
    /\ pc[c] = "attempt"
    /\ pc' = [pc EXCEPT ![c] = "response"]
    /\ executed' = [executed EXCEPT ![c] = @ + 1]
    /\ Commit(c)
    /\ UNCHANGED <<tokens, aborted, previous, refused, unsent, input, attempt>>

\* The response ends, well or in an error, which reaches the caller.
ResponseEnds(c) ==
    /\ pc[c] = "response"
    /\ Success \/ \E retryable \in BOOLEAN : tokens' = Charged(retryable)
    /\ Finish(c)
    /\ UNCHANGED executed

\* The pause before the next attempt is over.
PauseEnds(c) ==
    /\ pc[c] = "pause" /\ ~aborted[c]
    /\ pc' = [pc EXCEPT ![c] = "select"]
    /\ UNCHANGED <<shared, aborted, previous, refused, unsent, executed, input,
                   replay, attempt>>

\* The caller cancels, the deadline passes or the connection is closed.
Abort(c) ==
    /\ pc[c] # "done" /\ ~aborted[c]
    /\ aborted' = [aborted EXCEPT ![c] = TRUE]
    /\ UNCHANGED <<shared, pc, previous, refused, unsent, executed, input,
                   replay, attempt>>

\* Mutant: a pause does not listen to the signal.
AbortedInSelect(c) ==
    /\ aborted[c] /\ pc[c] = "select"
    /\ Finish(c)
    /\ UNCHANGED <<tokens, executed>>

\* throwIfAborted, the signal given to select and to pause.
AbortedThrow(c) ==
    /\ aborted[c] /\ pc[c] \in {"select", "pause"}
    /\ Finish(c)
    /\ UNCHANGED <<tokens, executed>>

Upload(c) == NextSaved(c) \/ NextDone(c) \/ NextPending(c)

Source(c) == SourceYields(c) \/ SourceEnds(c) \/ SourceThrows(c)

Run(c) ==
    \/ Select(c) \/ SelectFails(c) \/ Unsent(c) \/ Refused(c)
    \/ AttemptFails(c) \/ Response(c) \/ ResponseEnds(c) \/ PauseEnds(c)
    \/ Abort(c) \/ AbortedThrow(c)

Next == \E c \in Call : Upload(c) \/ Source(c) \/ Run(c)

Spec == Init /\ [][Next]_vars

\* An aborted call notices: in select and in a pause by its own listener, in
\* an attempt because the transport, given the same signal, rejects.
FairSpec == Spec /\ \A c \in Call : WF_vars(AbortedThrow(c))
                                    /\ WF_vars(aborted[c] /\ AttemptFails(c))

----------------------------------------------------------------------------
(* Properties. *)

TypeOK ==
    /\ used \in Int /\ tokens \in 0..MaxTokens
    /\ pc \in [Call -> {"select", "attempt", "pause", "response", "done"}]
    /\ aborted \in [Call -> BOOLEAN]
    /\ previous \in [Call -> 0..(MaxAttempts - 1)]
    /\ refused \in [Call -> BOOLEAN]
    /\ unsent \in [Call -> 0..MaxUnsent]
    /\ executed \in [Call -> Nat]
    /\ read \in [Call -> 0..N]
    /\ pending \in [Call -> {"none", "reading", "rejected"}]
    /\ ended \in [Call -> BOOLEAN]
    /\ saved \in [Call -> Seq(1..N)]
    /\ bytes \in [Call -> Nat]
    /\ committed \in [Call -> BOOLEAN]
    /\ upload \in [Call -> {"idle", "waiting", "done"}]
    /\ index \in [Call -> Nat]
    /\ sent \in [Call -> Seq(1..N)]

\* The first n messages of the input.
Prefix(n) == [m \in 1..n |-> m]

\* Until the call commits, the snapshots are exactly the messages read from the
\* source, also those that a stopped attempt had asked for, and the attempt
\* has sent exactly the first index of them: a retry that starts now loses,
\* repeats and reorders nothing.  Afterwards nothing is retained.
ReplayIsExact ==
    \A c \in Call :
        /\ ~committed[c] => /\ saved[c] = Prefix(read[c])
                            /\ sent[c] = Prefix(index[c])
                            /\ index[c] <= read[c]
        /\ committed[c] => saved[c] = <<>> /\ bytes[c] = 0

\* Even after the commitment no attempt repeats or reorders messages.
NeverTwice ==
    \A c \in Call : \A i, j \in 1..Len(sent[c]) : i < j => sent[c][i] < sent[c][j]

\* RETRIES.md: no transparent retry once the backend may have acted on the
\* request, so it acts at most once without a policy, and at most
\* maxAttempts times with one.
ExecutionsBounded == \A c \in Call : executed[c] <= MaxAttempts

\* RETRIES.md: "Cancellation and explicit connection shutdown stop pending
\* retries": an aborted call ends, or has its response.
AbortStopsRetries ==
    \A c \in Call : aborted[c] ~> pc[c] \in {"response", "done"}

\* RETRIES.md: "Exceeding either budget commits the call, releases retained
\* snapshots, and lets the current attempt continue without retries": no
\* committed call is on its way to another attempt.
CommittedCallsDoNotRetry ==
    \A c \in Call : pc[c] \in {"select", "pause"} => ~committed[c]

\* RETRIES.md: "A retry replays those snapshots and then continues the original
\* input iterator": what an attempt sends is the input, from its beginning.
UploadInOrder == \A c \in Call : sent[c] = Prefix(Len(sent[c]))
=============================================================================
