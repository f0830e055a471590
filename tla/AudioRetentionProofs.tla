------------------------ MODULE AudioRetentionProofs ------------------------
(***************************************************************************)
(* Proofs about AudioRetention for any number of uploads, threads and       *)
(* requests and any times that satisfy its assumptions.                     *)
(***************************************************************************)
EXTENDS AudioRetention, TLAPS

\* The times, one by one.
LEMMA TimesNatural ==
  /\ UrlTtl \in Nat /\ InFlight \in Nat /\ UploadQuiescence \in Nat
  /\ LegacyUrlValidity \in Nat /\ AudioRetention \in Nat
  /\ ExecutionLease \in Nat /\ ExecutionLease > 0
  /\ MinBackoff \in Nat /\ MaxBackoff \in Nat /\ MinBackoff <= MaxBackoff
  /\ MaxAttempts \in Nat /\ MaxAttempts > 0
  BY TimesAssumption

USE TimesNatural, UploadsAssumption

\* The rows that an action writes have their types.
LEMMA RowTypes ==
  /\ NoUpload \in Upload /\ NoTask \in Task /\ NoRequest \in Request /\ Idle \in Execution
  /\ \A t \in Nat : Passed(t) \in Nat
  /\ \A t1, t2 \in Nat : Later(t1, t2) \in Nat
<1>1. NoUpload \in Upload
  BY DEF NoUpload, Upload
<1>2. NoTask \in Task
  BY DEF NoTask, Task
<1>3. NoRequest \in Request
  BY DEF NoRequest, Request
<1>4. Idle \in Execution
  BY DEF Idle, Execution
<1>5. \A t \in Nat : Passed(t) \in Nat
  BY DEF Passed
<1>6. \A t1, t2 \in Nat : Later(t1, t2) \in Nat
  BY DEF Later
<1> QED
  BY <1>1, <1>2, <1>3, <1>4, <1>5, <1>6

\* A failed deletion is tried again after MinBackoff at the least and MaxBackoff
\* at the most, and never sooner than after one attempt fewer.
THEOREM BackoffCorrect ==
  ASSUME NEW attempt \in Nat
  PROVE  /\ Backoff(attempt) \in Nat
         /\ MinBackoff <= Backoff(attempt) /\ Backoff(attempt) <= MaxBackoff
         /\ Backoff(attempt) <= Backoff(attempt + 1)
<1> DEFINE factors == <<1, 2, 4, 8, 16, 32, 64>>
           i == Earlier(Later(attempt, 1) - 1, 6) + 1
           k == Earlier(Later(attempt + 1, 1) - 1, 6) + 1
<1>1. i \in 1..7 /\ k \in 1..7 /\ (k = i \/ k = i + 1)
  BY DEF Earlier, Later
<1>2. factors[i] \in 1..64 /\ factors[k] \in 1..64 /\ factors[i] <= factors[k]
  <2> HIDE DEF i, k
  <2>1. \A n \in 1..7 : n = 1 \/ n = 2 \/ n = 3 \/ n = 4 \/ n = 5 \/ n = 6 \/ n = 7
    OBVIOUS
  <2>2. /\ factors[1] = 1 /\ factors[2] = 2 /\ factors[3] = 4 /\ factors[4] = 8
        /\ factors[5] = 16 /\ factors[6] = 32 /\ factors[7] = 64
    OBVIOUS
  <2> HIDE DEF factors
  <2> QED
    BY <1>1, <2>1, <2>2
<1>3. Backoff(attempt) = Earlier(MaxBackoff, MinBackoff * factors[i])
  BY DEF Backoff
<1>4. Backoff(attempt + 1) = Earlier(MaxBackoff, MinBackoff * factors[k])
  BY DEF Backoff
<1>5. ASSUME NEW f \in 1..64, NEW g \in 1..64, f <= g
      PROVE  /\ MinBackoff * f \in Nat /\ MinBackoff * g \in Nat
             /\ MinBackoff <= MinBackoff * f /\ MinBackoff * f <= MinBackoff * g
  BY <1>5
<1> HIDE DEF factors, i, k
<1>6. /\ MinBackoff * factors[i] \in Nat /\ MinBackoff * factors[k] \in Nat
      /\ MinBackoff <= MinBackoff * factors[i]
      /\ MinBackoff * factors[i] <= MinBackoff * factors[k]
  BY <1>2, <1>5
<1> DEFINE a == MinBackoff * factors[i]
           b == MinBackoff * factors[k]
<1>7. a \in Nat /\ b \in Nat /\ MinBackoff <= a /\ a <= b
  BY <1>6
<1>8. Backoff(attempt) = Earlier(MaxBackoff, a) /\ Backoff(attempt + 1) = Earlier(MaxBackoff, b)
  BY <1>3, <1>4
<1> HIDE DEF a, b
<1> QED
  BY <1>7, <1>8 DEF Earlier

-----------------------------------------------------------------------------
(* The inductive invariant, row by row *)

\* An upload, its task, its file and the time it may still be written: writes
\* end a whole lease before the time the service waits for, a confirmed upload's
\* file is there until the task is, and never after the task succeeded.
UploadOK(up, t, o, wr) ==
  /\ t.status # "ABSENT" => up.status = "COMPLETED"
  /\ t.status = "ABSENT" => t.attempt = 0
  /\ up.status = "COMPLETED" /\ t.status = "ABSENT" => o
  /\ up.deleted => t.status = "SUCCEEDED"
  /\ t.status = "SUCCEEDED" => up.deleted /\ ~o /\ t.confirmation = 0
  /\ wr <= UrlTtl + InFlight
  /\ up.status = "NONE" => wr = 0 /\ ~up.recorded
  /\ wr > 0 /\ (up.recorded \/ up.status = "COMPLETED") => wr + ExecutionLease <= up.quiet
  /\ wr > 0 /\ t.status # "ABSENT" => wr + ExecutionLease <= t.confirmation
  /\ t.lease <= ExecutionLease

\* A thread that is not idle, its task and the file: its attempt was given out
\* by the task; a file that reappeared will be erased again.
ThreadOK(x, t, o) ==
  /\ x.pc # "IDLE" /\ t.status # "ABSENT"
  /\ x.attempt <= t.attempt
  /\ x.pc = "DISPATCHED" <=> x.attempt = 0
  /\ x.pc = "ERASED" /\ IsCurrentAttempt(t, x.attempt) /\ o => t.confirmation >= t.lease

\* A request that saw the file of a reserved upload can rely on it.
RequestOK(q, up, o) == up.status # "NONE" /\ (up.status = "RESERVED" /\ q.stored => o)

UploadsOK == \A u \in Uploads : UploadOK(upload[u], task[u], object[u], writable[u])

ThreadsOK ==
  \A w \in Workers : worker[w] # Idle =>
     /\ worker[w].upload \in Uploads
     /\ ThreadOK(worker[w], task[worker[w].upload], object[worker[w].upload])

RequestsOK ==
  \A c \in Clients : client[c] # NoRequest =>
     /\ client[c].upload \in Uploads
     /\ RequestOK(client[c], upload[client[c].upload], object[client[c].upload])

RetentionInv == TypeOK /\ UploadsOK /\ ThreadsOK /\ RequestsOK /\ OneCurrentAttempt

\* It holds at the start.
LEMMA InitCorrect == Init => RetentionInv
<1> SUFFICES ASSUME Init PROVE RetentionInv
  OBVIOUS
<1>1. /\ upload \in [Uploads -> Upload] /\ writable \in [Uploads -> Nat]
      /\ \A u \in Uploads : /\ upload[u].status # "COMPLETED" /\ ~upload[u].deleted
                            /\ ~upload[u].recorded
                            /\ task[u] = NoTask /\ writable[u] <= UrlTtl + InFlight
                            /\ upload[u].status = "NONE" => writable[u] = 0
  <2>1. /\ NoUpload \in Upload /\ NoUpload.status = "NONE"
        /\ ~NoUpload.deleted /\ ~NoUpload.recorded
    BY DEF NoUpload, Upload
  <2> DEFINE reserved == [NoUpload EXCEPT !.status = "RESERVED"]
  <2>2. /\ reserved \in Upload /\ reserved.status = "RESERVED"
        /\ ~reserved.deleted /\ ~reserved.recorded
    BY DEF NoUpload, Upload
  <2>3. upload = [u \in Uploads |-> IF u \in Legacy THEN reserved ELSE NoUpload]
    BY DEF Init
  <2>4. \A u \in Uploads : u \notin Legacy => writable[u] = 0
    BY DEF Init
  <2>5. writable \in [Uploads -> Nat] /\ \A u \in Uploads : writable[u] <= UrlTtl + InFlight
    <3> DEFINE longest == UrlTtl + InFlight
    <3>1. longest \in Nat /\ writable \in [Uploads -> 0..longest]
      BY DEF Init
    <3> HIDE DEF longest
    <3>2. \A u \in Uploads : writable[u] \in 0..longest
      BY <3>1
    <3>3. ASSUME NEW u \in Uploads PROVE writable[u] \in Nat /\ writable[u] <= longest
      BY <3>1, <3>2
    <3> QED
      BY <3>1, <3>3 DEF longest
  <2>6. \A u \in Uploads : task[u] = NoTask
    BY DEF Init
  <2> HIDE DEF reserved
  <2> QED
    <3>1. upload \in [Uploads -> Upload]
      BY <2>1, <2>2, <2>3
    <3>2. \A u \in Uploads : /\ upload[u].status # "COMPLETED" /\ ~upload[u].deleted
                             /\ ~upload[u].recorded
                             /\ upload[u].status = "NONE" => u \notin Legacy
      BY <2>1, <2>2, <2>3
    <3>3. \A u \in Uploads : upload[u].status = "NONE" => writable[u] = 0
      BY <2>4, <3>2
    <3> QED
      BY <2>5, <2>6, <3>1, <3>2, <3>3
<1>2. /\ \A w \in Workers : worker[w] = Idle
      /\ \A c \in Clients : client[c] = NoRequest
  BY DEF Init
<1>3. TypeOK
  BY RowTypes, <1>1 DEF Init, TypeOK
<1>4. UploadsOK
  <2> SUFFICES ASSUME NEW u \in Uploads
               PROVE  UploadOK(upload[u], task[u], object[u], writable[u])
    BY DEF UploadsOK
  <2>1. /\ task[u].status = "ABSENT" /\ task[u].lease = 0 /\ task[u].attempt = 0
        /\ upload[u].status # "COMPLETED" /\ ~upload[u].deleted /\ ~upload[u].recorded
        /\ writable[u] <= UrlTtl + InFlight
        /\ upload[u].status = "NONE" => writable[u] = 0
    BY <1>1 DEF NoTask
  <2> QED
    BY <2>1 DEF UploadOK
<1>5. ThreadsOK /\ RequestsOK
  BY <1>2 DEF ThreadsOK, RequestsOK
<1>6. OneCurrentAttempt
  BY <1>2 DEF OneCurrentAttempt, Idle
<1> QED
  BY <1>3, <1>4, <1>5, <1>6 DEF RetentionInv

-----------------------------------------------------------------------------
(* Types *)

\* Every report gives a task.
LEMMA TaskOperations ==
  ASSUME NEW t \in Task, NEW n \in Nat
  PROVE  /\ RecordSuccess(t) \in Task
         /\ [t EXCEPT !.status = "PENDING", !.lease = 0, !.next = n] \in Task
         /\ [t EXCEPT !.status = "RUNNING", !.attempt = NextAttempt(t.attempt),
                      !.next = 0, !.lease = ExecutionLease] \in Task
         /\ [NoTask EXCEPT !.status = "PENDING", !.confirmation = n] \in Task
         /\ [t EXCEPT !.next = Passed(@), !.lease = Passed(@),
                      !.confirmation = Passed(@)] \in Task
<1>1. RecordSuccess(t) \in Task
  BY DEF RecordSuccess, Task
<1>2. [t EXCEPT !.status = "PENDING", !.lease = 0, !.next = n] \in Task
  BY DEF Task
<1>3. NextAttempt(t.attempt) \in Nat
  BY DEF NextAttempt, Task
<1>4. \A a \in Nat : [t EXCEPT !.status = "RUNNING", !.attempt = a,
                               !.next = 0, !.lease = ExecutionLease] \in Task
  BY DEF Task
<1>5. [NoTask EXCEPT !.status = "PENDING", !.confirmation = n] \in Task
  BY DEF NoTask, Task
<1>6. /\ t.next \in Nat /\ t.lease \in Nat /\ t.confirmation \in Nat
      /\ Passed(t.next) \in Nat /\ Passed(t.lease) \in Nat /\ Passed(t.confirmation) \in Nat
  BY RowTypes DEF Task
<1>7. [t EXCEPT !.next = Passed(@), !.lease = Passed(@), !.confirmation = Passed(@)] \in Task
  BY <1>6 DEF Task
<1> QED
  BY <1>1, <1>2, <1>3, <1>4, <1>5, <1>7

\* What an action of a client or of the clock writes to an upload is an upload.
LEMMA UploadOperations ==
  ASSUME NEW up \in Upload, NEW q \in Nat
  PROVE  /\ [up EXCEPT !.status = "RESERVED", !.recorded = TRUE, !.quiet = q] \in Upload
         /\ [up EXCEPT !.status = "COMPLETED", !.retention = AudioRetention, !.quiet = q]
              \in Upload
         /\ [up EXCEPT !.deleted = TRUE] \in Upload
         /\ [up EXCEPT !.quiet = Passed(@), !.retention = Passed(@)] \in Upload
<1>1. \A n \in Nat : Passed(n) \in Nat
  BY RowTypes
<1>2. up.quiet \in Nat /\ up.retention \in Nat
  BY DEF Upload
<1>3. Passed(up.quiet) \in Nat /\ Passed(up.retention) \in Nat
  BY <1>1, <1>2
<1> QED
  BY <1>3 DEF Upload

\* What a thread holds.
LEMMA ExecutionOperations ==
  ASSUME NEW x \in Execution
  PROVE  /\ \A pc \in {"CLAIMED", "ERASED", "FAILED"} : [x EXCEPT !.pc = pc] \in Execution
         /\ \A u \in Uploads : [Idle EXCEPT !.pc = "DISPATCHED", !.upload = u] \in Execution
         /\ \A u \in Uploads, a \in Nat :
               [pc |-> "CLAIMED", upload |-> u, attempt |-> a] \in Execution
  BY DEF Execution, Idle

\* Every action keeps the types; what it needs of the invariant is that threads
\* and requests name uploads.
LEMMA NextType ==
  ASSUME RetentionInv, Next
  PROVE  TypeOK'
<1>0. TypeOK /\ ThreadsOK /\ RequestsOK
  BY DEF RetentionInv
<1>1. ASSUME NEW w \in Workers, NEW u \in Uploads, Dispatch(w, u) PROVE TypeOK'
  BY <1>0, <1>1, ExecutionOperations DEF Dispatch, Hold, TypeOK
<1>2. ASSUME NEW w \in Workers, Claim(w) PROVE TypeOK'
  <2> DEFINE u == worker[w].upload
             row == [task[u] EXCEPT !.status = "RUNNING",
                                    !.attempt = NextAttempt(task[u].attempt),
                                    !.next = 0, !.lease = ExecutionLease]
  <2>1. worker[w] # Idle /\ u \in Uploads
    BY <1>0, <1>2 DEF Claim, Idle, ThreadsOK
  <2>2. row \in Task /\ NextAttempt(task[u].attempt) \in Nat
    <3>1. task[u] \in Task
      BY <1>0, <2>1 DEF TypeOK
    <3>2. task[u].attempt \in Nat
      BY <3>1 DEF Task
    <3>3. NextAttempt(task[u].attempt) \in Nat
      BY <3>2 DEF NextAttempt
    <3>4. row \in Task
      BY <3>1, TaskOperations
    <3> QED
      BY <3>3, <3>4
  <2>3. \/ task' = [task EXCEPT ![u] = row]
        \/ task' = task
    BY <1>2 DEF Claim
  <2>4. \/ Hold(w, [pc |-> "CLAIMED", upload |-> u, attempt |-> NextAttempt(task[u].attempt)])
        \/ Hold(w, Idle)
    BY <1>2 DEF Claim
  <2> HIDE DEF row, u
  <2>5. task' \in [Uploads -> Task]
    BY <1>0, <2>2, <2>3 DEF TypeOK
  <2>6. worker' \in [Workers -> Execution]
    <3>1. worker \in [Workers -> Execution] /\ Idle \in Execution
      BY <1>0, RowTypes DEF TypeOK
    <3>2. [pc |-> "CLAIMED", upload |-> u, attempt |-> NextAttempt(task[u].attempt)] \in Execution
      BY <2>1, <2>2 DEF Execution
    <3> QED
      BY <2>4, <3>1, <3>2 DEF Hold
  <2> QED
    BY <1>0, <1>2, <2>5, <2>6 DEF Claim, TypeOK
<1>3. ASSUME NEW w \in Workers, DeleteStoredObject(w) PROVE TypeOK'
  BY <1>0, <1>3, ExecutionOperations DEF DeleteStoredObject, Hold, TypeOK
<1>4. ASSUME NEW w \in Workers, DeletionFails(w) PROVE TypeOK'
  BY <1>0, <1>4, ExecutionOperations DEF DeletionFails, Hold, TypeOK
<1>5. ASSUME NEW w \in Workers, Succeed(w) PROVE TypeOK'
  <2> DEFINE u == worker[w].upload
  <2>1. worker[w] # Idle /\ u \in Uploads
    BY <1>0, <1>5 DEF Succeed, Idle, ThreadsOK
  <2>2. /\ task' = [task EXCEPT ![u] = RecordSuccess(task[u])] \/ task' = task
        /\ upload' = [upload EXCEPT ![u] = [upload[u] EXCEPT !.deleted = TRUE]] \/ upload' = upload
        /\ Hold(w, Idle)
        /\ UNCHANGED <<noContent, object, writable, client>>
    BY <1>5 DEF Succeed
  <2>3. RecordSuccess(task[u]) \in Task /\ [upload[u] EXCEPT !.deleted = TRUE] \in Upload
    BY <1>0, <2>1, TaskOperations, UploadOperations DEF TypeOK
  <2> HIDE DEF u
  <2>4. task' \in [Uploads -> Task]
    BY <1>0, <2>2, <2>3 DEF TypeOK
  <2>5. upload' \in [Uploads -> Upload]
    BY <1>0, <2>2, <2>3 DEF TypeOK
  <2>6. worker' \in [Workers -> Execution]
    BY <1>0, <2>2, RowTypes DEF TypeOK, Hold
  <2> QED
    BY <1>0, <2>2, <2>4, <2>5, <2>6 DEF TypeOK
<1>6. ASSUME NEW w \in Workers, Fail(w) PROVE TypeOK'
  <2> DEFINE u == worker[w].upload
             b == Backoff(worker[w].attempt)
             row == [task[u] EXCEPT !.status = "PENDING", !.lease = 0, !.next = b]
  <2>1. worker[w] # Idle /\ u \in Uploads /\ worker[w].attempt \in Nat
    BY <1>0, <1>6 DEF Fail, Idle, ThreadsOK, TypeOK, Execution
  <2>2. /\ task' = [task EXCEPT ![u] = row] \/ task' = task
        /\ Hold(w, Idle)
        /\ UNCHANGED <<upload, noContent, object, writable, client>>
    BY <1>6 DEF Fail
  <2>3. b \in Nat
    BY <2>1, BackoffCorrect
  <2> HIDE DEF b
  <2>4. row \in Task
    BY <1>0, <2>1, <2>3, TaskOperations DEF TypeOK
  <2> HIDE DEF u, row
  <2>5. task' \in [Uploads -> Task]
    BY <1>0, <2>2, <2>4 DEF TypeOK
  <2>6. worker' \in [Workers -> Execution]
    BY <1>0, <2>2, RowTypes DEF TypeOK, Hold
  <2> QED
    BY <1>0, <2>2, <2>5, <2>6 DEF TypeOK
<1>7. ASSUME NEW w \in Workers, Abandon(w) PROVE TypeOK'
  BY <1>0, <1>7, RowTypes DEF Abandon, Hold, TypeOK
<1>8. ASSUME NEW c \in Clients, NEW u \in Uploads, FindStoredObject(c, u) PROVE TypeOK'
  <2>1. [upload |-> u, stored |-> upload[u].status = "RESERVED" /\ object[u]] \in Request
    BY <1>0 DEF TypeOK, Request
  <2> QED
    BY <1>0, <1>8, <2>1 DEF FindStoredObject, TypeOK
<1>9. ASSUME NEW c \in Clients, CompleteUpload(c) PROVE TypeOK'
  <2> DEFINE u == client[c].upload
             q == IF upload[u].recorded THEN upload[u].quiet
                  ELSE LegacyUrlValidity + UploadQuiescence
             row == [upload[u] EXCEPT !.status = "COMPLETED", !.retention = AudioRetention,
                                      !.quiet = q]
  <2>1. u \in Uploads
    BY <1>0, <1>9 DEF CompleteUpload, Completed, RequestsOK
  <2>2. q \in Nat
    BY <1>0, <2>1 DEF TypeOK, Upload
  <2>3. upload' = [upload EXCEPT ![u] = row]
    BY <1>9 DEF CompleteUpload
  <2>4. client' = [client EXCEPT ![c] = NoRequest]
        /\ UNCHANGED <<task, noContent, object, writable, worker>>
    BY <1>9 DEF CompleteUpload
  <2> HIDE DEF q
  <2>5. row \in Upload
    BY <1>0, <2>1, <2>2, UploadOperations DEF TypeOK
  <2> HIDE DEF u, row
  <2>6. upload' \in [Uploads -> Upload] /\ client' \in [Clients -> Request]
    BY <1>0, <2>3, <2>4, <2>5, RowTypes DEF TypeOK
  <2> QED
    BY <1>0, <2>4, <2>6 DEF TypeOK
<1>10. ASSUME NEW c \in Clients, EndRequest(c) PROVE TypeOK'
  BY <1>0, <1>10, RowTypes DEF EndRequest, TypeOK
<1>11. ASSUME NEW u \in Uploads, Issue(u) PROVE TypeOK'
  <2> DEFINE q == IF upload[u].recorded THEN Later(upload[u].quiet, UrlTtl + UploadQuiescence)
                  ELSE UrlTtl + UploadQuiescence
             row == [upload[u] EXCEPT !.status = "RESERVED", !.recorded = TRUE, !.quiet = q]
  <2>1. upload[u] \in Upload /\ upload[u].quiet \in Nat
    BY <1>0 DEF TypeOK, Upload
  <2>2. q \in Nat
    BY <2>1, RowTypes DEF Later
  <2>3. upload' = [upload EXCEPT ![u] = row]
    BY <1>11 DEF Issue
  <2>4. writable' = [writable EXCEPT ![u] = UrlTtl + InFlight]
        /\ UNCHANGED <<task, noContent, object, client, worker>>
    BY <1>11 DEF Issue
  <2> HIDE DEF q
  <2>5. row \in Upload
    BY <2>1, <2>2, UploadOperations
  <2> HIDE DEF row
  <2>6. upload' \in [Uploads -> Upload] /\ writable' \in [Uploads -> Nat]
    BY <1>0, <2>3, <2>4, <2>5 DEF TypeOK
  <2> QED
    BY <1>0, <2>4, <2>6 DEF TypeOK
<1>12. ASSUME NEW u \in Uploads, Put(u) PROVE TypeOK'
  BY <1>0, <1>12 DEF Put, TypeOK
<1>13. ASSUME NEW u \in Uploads, EndWithoutContent(u) PROVE TypeOK'
  BY <1>0, <1>13 DEF EndWithoutContent, TypeOK
<1>14. ASSUME NEW u \in Uploads, Schedule(u) PROVE TypeOK'
  <2> DEFINE row == [NoTask EXCEPT !.status = "PENDING", !.confirmation = upload[u].quiet]
  <2>1. row \in Task
    BY <1>0, TaskOperations, RowTypes DEF TypeOK, Upload
  <2>2. task' = [task EXCEPT ![u] = row]
        /\ UNCHANGED <<upload, noContent, object, writable, client, worker>>
    BY <1>14 DEF Schedule, ConfirmationAfter
  <2> HIDE DEF row
  <2> QED
    BY <1>0, <2>1, <2>2 DEF TypeOK
<1>15. ASSUME Tick PROVE TypeOK'
  <2>1. \A u \in Uploads : /\ upload[u] \in Upload /\ task[u] \in Task /\ writable[u] \in Nat
    BY <1>0 DEF TypeOK
  <2>2. upload' \in [Uploads -> Upload]
    BY <1>15, <2>1, UploadOperations DEF Tick
  <2>3. task' \in [Uploads -> Task]
    BY <1>15, <2>1, TaskOperations DEF Tick
  <2>4. writable' \in [Uploads -> Nat]
    BY <1>15, <2>1, RowTypes DEF Tick
  <2> QED
    BY <1>0, <1>15, <2>2, <2>3, <2>4 DEF Tick, TypeOK
<1> QED
  BY <1>1, <1>2, <1>3, <1>4, <1>5, <1>6, <1>7, <1>8, <1>9, <1>10, <1>11, <1>12, <1>13,
     <1>14, <1>15 DEF Next, WorkerStep, EndStep, ClientStep, UploadStep

-----------------------------------------------------------------------------
(* What a step may do to a row without disturbing those who rely on it *)

\* Threads rely on the task: its attempts only go up, and where an attempt is
\* still current a file that is there will be erased again.
TaskKept(t, o, t2, o2) ==
  /\ t.status # "ABSENT" => t2.status # "ABSENT"
  /\ t.attempt <= t2.attempt
  /\ \A a \in Nat : a <= t.attempt /\ IsCurrentAttempt(t2, a) /\ o2 /\ t2.confirmation < t2.lease
        => IsCurrentAttempt(t, a) /\ o /\ t.confirmation < t.lease

\* Requests rely on the upload.
UploadKept(up, o, up2, o2) ==
  /\ up.status # "NONE" => up2.status # "NONE"
  /\ up2.status = "RESERVED" /\ ~o2 => up.status # "COMPLETED" /\ ~o

\* A thread's attempt stays what it was to a task that is kept.
LEMMA ThreadKept ==
  ASSUME NEW x \in Execution, NEW t \in Task, NEW t2 \in Task, NEW o, NEW o2,
         ThreadOK(x, t, o), TaskKept(t, o, t2, o2)
  PROVE  ThreadOK(x, t2, o2)
<1>1. x.attempt \in Nat /\ t.attempt \in Nat /\ t2.attempt \in Nat
      /\ t.confirmation \in Nat /\ t.lease \in Nat /\ t2.confirmation \in Nat /\ t2.lease \in Nat
  BY DEF Execution, Task
<1>2. x.attempt <= t.attempt /\ t.attempt <= t2.attempt
  BY DEF ThreadOK, TaskKept
<1>3. x.attempt <= t2.attempt
  BY <1>1, <1>2
<1>4. ASSUME x.pc = "ERASED", IsCurrentAttempt(t2, x.attempt), o2
      PROVE  t2.confirmation >= t2.lease
  <2> SUFFICES ASSUME t2.confirmation < t2.lease PROVE FALSE
    BY <1>1
  <2>1. IsCurrentAttempt(t, x.attempt) /\ o /\ t.confirmation < t.lease
    BY <1>1, <1>2, <1>4 DEF TaskKept
  <2> QED
    BY <1>1, <1>4, <2>1 DEF ThreadOK
<1> QED
  BY <1>3, <1>4 DEF ThreadOK, TaskKept

\* A row that does not change is kept.
LEMMA UnchangedKept ==
  /\ \A t, o : t \in Task => TaskKept(t, o, t, o)
  /\ \A up, o : UploadKept(up, o, up, o)
<1>1. ASSUME NEW t \in Task, NEW o PROVE TaskKept(t, o, t, o)
  BY DEF TaskKept, Task
<1>2. ASSUME NEW up, NEW o PROVE UploadKept(up, o, up, o)
  BY DEF UploadKept
<1> QED
  BY <1>1, <1>2

\* A thread after a step: as before, idle, or rightly at work.
ThreadMoved(w) ==
  \/ worker'[w] = worker[w]
  \/ worker'[w] = Idle
  \/ worker'[w] # Idle /\ worker'[w].upload \in Uploads
     /\ ThreadOK(worker'[w], task'[worker'[w].upload], object'[worker'[w].upload])

RequestMoved(c) ==
  \/ client'[c] = client[c]
  \/ client'[c] = NoRequest
  \/ client'[c].upload \in Uploads
     /\ RequestOK(client'[c], upload'[client'[c].upload], object'[client'[c].upload])

\* A step whose rows are sound and kept, and whose threads and requests are
\* rightly at work, preserves the invariant, but for the attempts' numbers.
LEMMA StepPreserves ==
  ASSUME RetentionInv, TypeOK', UploadsOK',
         \A u \in Uploads : TaskKept(task[u], object[u], task'[u], object'[u]),
         \A u \in Uploads : UploadKept(upload[u], object[u], upload'[u], object'[u]),
         \A w \in Workers : ThreadMoved(w),
         \A c \in Clients : RequestMoved(c)
  PROVE  ThreadsOK' /\ RequestsOK'
<1>1. ThreadsOK'
  <2> SUFFICES ASSUME NEW w \in Workers, worker'[w] # Idle
               PROVE  /\ worker'[w].upload \in Uploads
                      /\ ThreadOK(worker'[w], task'[worker'[w].upload],
                                  object'[worker'[w].upload])
    BY DEF ThreadsOK
  <2>1. CASE worker'[w] = worker[w]
    <3> DEFINE u == worker[w].upload
    <3>1. u \in Uploads /\ ThreadOK(worker[w], task[u], object[u])
      BY <2>1 DEF RetentionInv, ThreadsOK
    <3>2. worker[w] \in Execution /\ task[u] \in Task /\ task'[u] \in Task
      BY <3>1 DEF RetentionInv, TypeOK
    <3>3. TaskKept(task[u], object[u], task'[u], object'[u])
      BY <3>1
    <3> HIDE DEF u
    <3>4. ThreadOK(worker[w], task'[u], object'[u])
      BY <3>1, <3>2, <3>3, ThreadKept
    <3> QED
      BY <2>1, <3>1, <3>4 DEF u
  <2> QED
    BY <2>1 DEF ThreadMoved
<1>2. RequestsOK'
  <2> SUFFICES ASSUME NEW c \in Clients, client'[c] # NoRequest
               PROVE  /\ client'[c].upload \in Uploads
                      /\ RequestOK(client'[c], upload'[client'[c].upload],
                                   object'[client'[c].upload])
    BY DEF RequestsOK
  <2>1. CASE client'[c] = client[c]
    <3>1. /\ client[c].upload \in Uploads
          /\ RequestOK(client[c], upload[client[c].upload], object[client[c].upload])
      BY <2>1 DEF RetentionInv, RequestsOK
    <3>2. UploadKept(upload[client[c].upload], object[client[c].upload],
                     upload'[client[c].upload], object'[client[c].upload])
      BY <3>1
    <3>3. /\ upload[client[c].upload].status \in {"NONE", "RESERVED", "COMPLETED"}
          /\ object'[client[c].upload] \in BOOLEAN
      BY <3>1 DEF RetentionInv, TypeOK, Upload
    <3> QED
      BY <2>1, <3>1, <3>2, <3>3 DEF RequestOK, UploadKept
  <2> QED
    BY <2>1 DEF RequestMoved
<1> QED
  BY <1>1, <1>2

\* Numbers that threads keep stay different.
LEMMA NumbersKept ==
  ASSUME OneCurrentAttempt,
         \A w \in Workers : worker'[w].pc \in {"CLAIMED", "ERASED", "FAILED"} =>
            /\ worker[w].pc \in {"CLAIMED", "ERASED", "FAILED"}
            /\ worker'[w].upload = worker[w].upload
            /\ worker'[w].attempt = worker[w].attempt
  PROVE  OneCurrentAttempt'
  BY DEF OneCurrentAttempt

-----------------------------------------------------------------------------
(* One lemma for each kind of action *)

\* An action that changes only what a thread holds, to nothing or to an attempt
\* that is no stronger.
LEMMA ThreadOnly ==
  ASSUME RetentionInv, TypeOK', UNCHANGED <<upload, task, object, writable, client>>,
         NEW w \in Workers, NEW x, worker' = [worker EXCEPT ![w] = x],
         \/ x = Idle
         \/ /\ x.pc = "DISPATCHED" /\ x.attempt = 0
            /\ x.upload \in Uploads /\ task[x.upload].status # "ABSENT"
         \/ /\ worker[w] # Idle /\ x.pc = "FAILED" /\ worker[w].pc = "CLAIMED"
            /\ x.upload = worker[w].upload /\ x.attempt = worker[w].attempt
  PROVE  RetentionInv'
<1>0. TypeOK /\ UploadsOK /\ ThreadsOK /\ OneCurrentAttempt
  BY DEF RetentionInv
<1>1. UploadsOK'
  BY <1>0 DEF UploadsOK
<1>2. \A u \in Uploads : TaskKept(task[u], object[u], task'[u], object'[u])
  BY <1>0, UnchangedKept DEF TypeOK
<1>3. \A u \in Uploads : UploadKept(upload[u], object[u], upload'[u], object'[u])
  BY UnchangedKept
<1>4. worker'[w] = x /\ \A v \in Workers \ {w} : worker'[v] = worker[v]
  BY <1>0 DEF TypeOK
<1>5. ASSUME x # Idle
      PROVE  x.upload \in Uploads /\ ThreadOK(x, task[x.upload], object[x.upload])
  <2>1. CASE x.pc = "DISPATCHED" /\ x.attempt = 0
             /\ x.upload \in Uploads /\ task[x.upload].status # "ABSENT"
    <3>1. task[x.upload].attempt \in Nat
      BY <1>0, <2>1 DEF TypeOK, Task
    <3> QED
      BY <2>1, <3>1 DEF ThreadOK
  <2>2. CASE /\ worker[w] # Idle /\ x.pc = "FAILED" /\ worker[w].pc = "CLAIMED"
             /\ x.upload = worker[w].upload /\ x.attempt = worker[w].attempt
    BY <1>0, <2>2 DEF ThreadsOK, ThreadOK
  <2> QED
    BY <1>5, <2>1, <2>2
<1>6. \A v \in Workers : ThreadMoved(v)
  BY <1>4, <1>5 DEF ThreadMoved
<1>7. \A c \in Clients : RequestMoved(c)
  BY DEF RequestMoved
<1>8. OneCurrentAttempt'
  <2>1. \A v \in Workers : worker'[v].pc \in {"CLAIMED", "ERASED", "FAILED"} =>
            /\ worker[v].pc \in {"CLAIMED", "ERASED", "FAILED"}
            /\ worker'[v].upload = worker[v].upload
            /\ worker'[v].attempt = worker[v].attempt
    BY <1>4 DEF Idle
  <2> QED
    BY <1>0, <2>1, NumbersKept
<1>9. ThreadsOK' /\ RequestsOK'
  BY <1>1, <1>2, <1>3, <1>6, <1>7, StepPreserves
<1> QED
  BY <1>1, <1>8, <1>9 DEF RetentionInv

\* An action of the clients, the sweep or the clock, that leaves the threads
\* alone.
LEMMA RowsOnly ==
  ASSUME RetentionInv, TypeOK', UploadsOK', worker' = worker,
         \A u \in Uploads : TaskKept(task[u], object[u], task'[u], object'[u]),
         \A u \in Uploads : UploadKept(upload[u], object[u], upload'[u], object'[u]),
         \A c \in Clients : RequestMoved(c)
  PROVE  RetentionInv'
<1>1. \A w \in Workers : ThreadMoved(w)
  BY DEF ThreadMoved
<1>2. ThreadsOK' /\ RequestsOK'
  BY <1>1, StepPreserves
<1>3. OneCurrentAttempt'
  BY NumbersKept DEF RetentionInv
<1> QED
  BY <1>2, <1>3 DEF RetentionInv

\* A new URL moves the time that is waited for with the time writes may take.
LEMMA IssueCorrect ==
  ASSUME RetentionInv, TypeOK', NEW u \in Uploads, Issue(u)
  PROVE  RetentionInv'
<1> DEFINE quiet == UrlTtl + UploadQuiescence
<1>0. TypeOK /\ UploadsOK
  BY DEF RetentionInv
<1>1. /\ upload[u].status # "COMPLETED"
      /\ writable' = [writable EXCEPT ![u] = UrlTtl + InFlight]
      /\ UNCHANGED <<task, noContent, object, client, worker>>
  BY DEF Issue
<1>2. /\ upload'[u].status = "RESERVED" /\ upload'[u].deleted = upload[u].deleted
      /\ upload'[u].quiet >= quiet
      /\ \A v \in Uploads \ {u} : upload'[v] = upload[v]
  <2> DEFINE q == IF upload[u].recorded THEN Later(upload[u].quiet, quiet) ELSE quiet
             row == [upload[u] EXCEPT !.status = "RESERVED", !.recorded = TRUE, !.quiet = q]
  <2>1. upload[u] \in Upload /\ upload[u].quiet \in Nat /\ quiet \in Nat
    BY <1>0 DEF TypeOK, Upload
  <2>2. q >= quiet
    BY <2>1 DEF Later
  <2>3. upload' = [upload EXCEPT ![u] = row]
    BY DEF Issue
  <2> HIDE DEF q, quiet
  <2>4. row.status = "RESERVED" /\ row.deleted = upload[u].deleted /\ row.quiet = q
    BY <2>1 DEF Upload
  <2> HIDE DEF row
  <2>5. upload'[u] = row /\ \A v \in Uploads \ {u} : upload'[v] = upload[v]
    BY <1>0, <2>3 DEF TypeOK
  <2> QED
    BY <2>2, <2>4, <2>5
<1>3. writable'[u] = UrlTtl + InFlight /\ \A v \in Uploads \ {u} : writable'[v] = writable[v]
  BY <1>0, <1>1 DEF TypeOK
<1>4. task[u].status = "ABSENT" /\ task[u].lease <= ExecutionLease
  BY <1>0, <1>1 DEF UploadsOK, UploadOK
<1>5. UploadsOK'
  <2>1. ASSUME NEW v \in Uploads, v # u
        PROVE  UploadOK(upload'[v], task'[v], object'[v], writable'[v])
    BY <1>0, <1>1, <1>2, <1>3, <2>1 DEF UploadsOK
  <2>2. UploadOK(upload'[u], task'[u], object'[u], writable'[u])
    <3>1. UrlTtl + InFlight + ExecutionLease <= upload'[u].quiet
      <4>1. upload'[u].quiet \in Nat
        BY DEF TypeOK, Upload
      <4> QED
        BY <1>2, <4>1, QuiescenceAssumption
    <3>2. ~upload[u].deleted
      BY <1>0, <1>4 DEF UploadsOK, UploadOK
    <3>3. /\ upload'[u].status = "RESERVED" /\ ~upload'[u].deleted
          /\ writable'[u] = UrlTtl + InFlight
          /\ task'[u].status = "ABSENT" /\ task'[u].attempt = 0
          /\ task'[u].lease <= ExecutionLease
      BY <1>0, <1>1, <1>2, <1>3, <1>4, <3>2 DEF UploadsOK, UploadOK
    <3> QED
      BY <3>1, <3>3 DEF UploadOK
  <2> QED
    BY <2>1, <2>2 DEF UploadsOK
<1>6. \A v \in Uploads : TaskKept(task[v], object[v], task'[v], object'[v])
  BY <1>0, <1>1, UnchangedKept DEF TypeOK
<1>7. \A v \in Uploads : UploadKept(upload[v], object[v], upload'[v], object'[v])
  BY <1>1, <1>2, UnchangedKept DEF UploadKept
<1>8. \A c \in Clients : RequestMoved(c)
  BY <1>1 DEF RequestMoved
<1> QED
  BY <1>1, <1>5, <1>6, <1>7, <1>8, RowsOnly

\* A write may bring an erased file back, but only while the attempts that could
\* end the task would come too early.
LEMMA PutCorrect ==
  ASSUME RetentionInv, TypeOK', NEW u \in Uploads, Put(u)
  PROVE  RetentionInv'
<1>0. TypeOK /\ UploadsOK
  BY DEF RetentionInv
<1>1. /\ writable[u] > 0 /\ object' = [object EXCEPT ![u] = TRUE]
      /\ UNCHANGED <<upload, task, noContent, writable, client, worker>>
  BY DEF Put
<1>2. object'[u] = TRUE /\ \A v \in Uploads \ {u} : object'[v] = object[v]
  BY <1>0, <1>1 DEF TypeOK
<1>3. /\ task[u].lease \in Nat /\ task[u].confirmation \in Nat /\ writable[u] \in Nat
      /\ task[u] \in Task
  BY <1>0 DEF TypeOK, Task
<1>4. UploadOK(upload[u], task[u], object[u], writable[u])
  BY <1>0 DEF UploadsOK
<1>5. task[u].status # "SUCCEEDED"
  BY <1>1, <1>3, <1>4 DEF UploadOK
<1>6. UploadsOK'
  <2>1. UploadOK(upload[u], task[u], TRUE, writable[u])
    BY <1>4, <1>5 DEF UploadOK
  <2> QED
    BY <1>0, <1>1, <1>2, <2>1 DEF UploadsOK
<1>7. TaskKept(task[u], object[u], task'[u], object'[u])
  <2>1. task[u].status = "RUNNING" => task[u].confirmation >= task[u].lease
    BY <1>1, <1>3, <1>4 DEF UploadOK
  <2>2. task'[u] = task[u] /\ task[u].attempt \in Nat
    BY <1>1, <1>3 DEF Task
  <2> QED
    BY <1>3, <2>1, <2>2 DEF TaskKept, IsCurrentAttempt
<1>8. \A v \in Uploads : TaskKept(task[v], object[v], task'[v], object'[v])
  BY <1>0, <1>1, <1>2, <1>7, UnchangedKept DEF TypeOK
<1>9. \A v \in Uploads : UploadKept(upload[v], object[v], upload'[v], object'[v])
  BY <1>1, <1>2, UnchangedKept DEF UploadKept
<1>10. \A c \in Clients : RequestMoved(c)
  BY <1>1 DEF RequestMoved
<1> QED
  BY <1>1, <1>6, <1>8, <1>9, <1>10, RowsOnly

\* A request that has looked at the store keeps what it saw.
LEMMA FindStoredObjectCorrect ==
  ASSUME RetentionInv, TypeOK', NEW c \in Clients, NEW u \in Uploads, FindStoredObject(c, u)
  PROVE  RetentionInv'
<1> DEFINE q == [upload |-> u, stored |-> upload[u].status = "RESERVED" /\ object[u]]
<1>0. TypeOK /\ UploadsOK
  BY DEF RetentionInv
<1>1. /\ upload[u].status # "NONE" /\ client' = [client EXCEPT ![c] = q]
      /\ UNCHANGED <<upload, task, noContent, object, writable, worker>>
  BY DEF FindStoredObject
<1>2. q.upload = u /\ (q.stored => object[u])
  OBVIOUS
<1> HIDE DEF q
<1>3. client'[c] = q /\ \A d \in Clients \ {c} : client'[d] = client[d]
  BY <1>0, <1>1 DEF TypeOK
<1>4. UploadsOK'
  BY <1>0, <1>1 DEF UploadsOK
<1>5. \A v \in Uploads : TaskKept(task[v], object[v], task'[v], object'[v])
  BY <1>0, <1>1, UnchangedKept DEF TypeOK
<1>6. \A v \in Uploads : UploadKept(upload[v], object[v], upload'[v], object'[v])
  BY <1>1, UnchangedKept
<1>7. RequestOK(q, upload[u], object[u])
  BY <1>1, <1>2 DEF RequestOK
<1>8. \A d \in Clients : RequestMoved(d)
  BY <1>1, <1>2, <1>3, <1>7 DEF RequestMoved
<1> QED
  BY <1>1, <1>4, <1>5, <1>6, <1>8, RowsOnly

\* Nothing that the invariant speaks of changes but a request, which ends.
LEMMA RequestEnds ==
  ASSUME RetentionInv, TypeOK', UNCHANGED <<upload, task, object, writable, worker>>,
         \A c \in Clients : client'[c] = client[c] \/ client'[c] = NoRequest
  PROVE  RetentionInv'
<1>0. TypeOK /\ UploadsOK
  BY DEF RetentionInv
<1>1. UploadsOK'
  BY <1>0 DEF UploadsOK
<1>2. \A v \in Uploads : TaskKept(task[v], object[v], task'[v], object'[v])
  BY <1>0, UnchangedKept DEF TypeOK
<1>3. \A v \in Uploads : UploadKept(upload[v], object[v], upload'[v], object'[v])
  BY UnchangedKept
<1>4. \A c \in Clients : RequestMoved(c)
  BY DEF RequestMoved
<1> QED
  BY <1>1, <1>2, <1>3, <1>4, RowsOnly

\* A legacy upload waits for the longest URL there can be, any other for its own.
LEMMA CompleteUploadCorrect ==
  ASSUME RetentionInv, TypeOK', NEW c \in Clients, CompleteUpload(c)
  PROVE  RetentionInv'
<1> DEFINE u == client[c].upload
           q == IF upload[u].recorded THEN upload[u].quiet
                ELSE LegacyUrlValidity + UploadQuiescence
           row == [upload[u] EXCEPT !.status = "COMPLETED", !.retention = AudioRetention,
                                    !.quiet = q]
<1>0. TypeOK /\ UploadsOK /\ RequestsOK
  BY DEF RetentionInv
<1>1. /\ u \in Uploads /\ RequestOK(client[c], upload[u], object[u])
      /\ upload[u].status = "RESERVED" /\ client[c].stored
  BY <1>0 DEF CompleteUpload, Completed, RequestsOK
<1>2. /\ upload' = [upload EXCEPT ![u] = row] /\ client' = [client EXCEPT ![c] = NoRequest]
      /\ UNCHANGED <<task, noContent, object, writable, worker>>
  BY DEF CompleteUpload
<1>3. UploadOK(upload[u], task[u], object[u], writable[u])
  BY <1>0, <1>1 DEF UploadsOK
<1>4. object[u]
  BY <1>1 DEF RequestOK
<1>5. upload[u] \in Upload /\ upload[u].quiet \in Nat /\ writable[u] \in Nat
  BY <1>0, <1>1 DEF TypeOK, Upload
<1>6. task[u].status = "ABSENT" /\ ~upload[u].deleted
  BY <1>1, <1>3 DEF UploadOK
<1>7. q \in Nat /\ (writable[u] > 0 => writable[u] + ExecutionLease <= q)
  BY <1>3, <1>5, QuiescenceAssumption DEF UploadOK
<1> HIDE DEF q
<1>8. /\ row.status = "COMPLETED" /\ row.quiet = q
      /\ row.deleted = upload[u].deleted /\ row.recorded = upload[u].recorded
  BY <1>5 DEF Upload
<1> HIDE DEF row, u
<1>9. upload'[u] = row /\ \A v \in Uploads \ {u} : upload'[v] = upload[v]
  BY <1>0, <1>1, <1>2 DEF TypeOK
<1>10. UploadsOK'
  <2>1. UploadOK(row, task[u], object[u], writable[u])
    BY <1>3, <1>4, <1>6, <1>7, <1>8 DEF UploadOK
  <2> QED
    BY <1>0, <1>2, <1>9, <2>1 DEF UploadsOK
<1>11. \A v \in Uploads : TaskKept(task[v], object[v], task'[v], object'[v])
  BY <1>0, <1>2, UnchangedKept DEF TypeOK
<1>12. UploadKept(upload[u], object[u], upload'[u], object'[u])
  BY <1>8, <1>9 DEF UploadKept
<1>13. \A v \in Uploads : UploadKept(upload[v], object[v], upload'[v], object'[v])
  BY <1>2, <1>9, <1>12, UnchangedKept
<1>14. \A d \in Clients : RequestMoved(d)
  BY <1>0, <1>2 DEF RequestMoved, TypeOK
<1> QED
  BY <1>2, <1>10, <1>11, <1>13, <1>14, RowsOnly

\* The first request gives a task the time that the service reckons.
LEMMA ScheduleCorrect ==
  ASSUME RetentionInv, TypeOK', NEW u \in Uploads, Schedule(u)
  PROVE  RetentionInv'
<1> DEFINE row == [NoTask EXCEPT !.status = "PENDING", !.confirmation = upload[u].quiet]
<1>0. TypeOK /\ UploadsOK
  BY DEF RetentionInv
<1>1. /\ upload[u].status = "COMPLETED" /\ ~upload[u].deleted /\ task[u].status = "ABSENT"
      /\ task' = [task EXCEPT ![u] = row]
      /\ UNCHANGED <<upload, noContent, object, writable, client, worker>>
  BY DEF Schedule, ConfirmationAfter
<1>2. /\ row.status = "PENDING" /\ row.confirmation = upload[u].quiet
      /\ row.attempt = 0 /\ row.lease = 0
  BY DEF NoTask
<1> HIDE DEF row
<1>3. task'[u] = row /\ \A v \in Uploads \ {u} : task'[v] = task[v]
  BY <1>0, <1>1 DEF TypeOK
<1>4. UploadOK(upload[u], task[u], object[u], writable[u])
  BY <1>0 DEF UploadsOK
<1>5. UploadsOK'
  <2>1. UploadOK(upload[u], row, object[u], writable[u])
    BY <1>1, <1>2, <1>4 DEF UploadOK
  <2> QED
    BY <1>0, <1>1, <1>3, <2>1 DEF UploadsOK
<1>6. TaskKept(task[u], object[u], task'[u], object'[u])
  BY <1>1, <1>2, <1>3, <1>4 DEF TaskKept, UploadOK, IsCurrentAttempt
<1>7. \A v \in Uploads : TaskKept(task[v], object[v], task'[v], object'[v])
  BY <1>0, <1>1, <1>3, <1>6, UnchangedKept DEF TypeOK
<1>8. \A v \in Uploads : UploadKept(upload[v], object[v], upload'[v], object'[v])
  BY <1>1, UnchangedKept
<1>9. \A c \in Clients : RequestMoved(c)
  BY <1>1 DEF RequestMoved
<1> QED
  BY <1>1, <1>5, <1>7, <1>8, <1>9, RowsOnly

\* Times go on together, so what ends before something else still does.
LEMMA TickCorrect ==
  ASSUME RetentionInv, TypeOK', Tick
  PROVE  RetentionInv'
<1>0. TypeOK /\ UploadsOK
  BY DEF RetentionInv
<1>1. UNCHANGED <<noContent, object, client, worker>>
  BY DEF Tick
<1>2. ASSUME NEW u \in Uploads
      PROVE  /\ upload'[u].status = upload[u].status /\ upload'[u].deleted = upload[u].deleted
             /\ upload'[u].recorded = upload[u].recorded
             /\ upload'[u].quiet = Passed(upload[u].quiet)
             /\ task'[u].status = task[u].status /\ task'[u].attempt = task[u].attempt
             /\ task'[u].lease = Passed(task[u].lease)
             /\ task'[u].confirmation = Passed(task[u].confirmation)
             /\ writable'[u] = Passed(writable[u])
  <2>1. upload[u] \in Upload /\ task[u] \in Task
    BY <1>0 DEF TypeOK
  <2>2. /\ upload'[u] = [upload[u] EXCEPT !.quiet = Passed(@), !.retention = Passed(@)]
        /\ task'[u] = [task[u] EXCEPT !.next = Passed(@), !.lease = Passed(@),
                                      !.confirmation = Passed(@)]
        /\ writable'[u] = Passed(writable[u])
    BY DEF Tick
  <2>3. /\ upload'[u].status = upload[u].status /\ upload'[u].deleted = upload[u].deleted
        /\ upload'[u].recorded = upload[u].recorded
        /\ upload'[u].quiet = Passed(upload[u].quiet)
    BY <2>1, <2>2 DEF Upload
  <2>4. /\ task'[u].status = task[u].status /\ task'[u].attempt = task[u].attempt
        /\ task'[u].lease = Passed(task[u].lease)
        /\ task'[u].confirmation = Passed(task[u].confirmation)
    BY <2>1, <2>2 DEF Task
  <2> QED
    BY <2>2, <2>3, <2>4
<1>3. ASSUME NEW u \in Uploads
      PROVE  /\ upload[u].quiet \in Nat /\ task[u].attempt \in Nat /\ task[u].lease \in Nat
             /\ task[u].confirmation \in Nat /\ writable[u] \in Nat
  BY <1>0 DEF TypeOK, Upload, Task
<1>4. UploadsOK'
  <2> SUFFICES ASSUME NEW u \in Uploads
               PROVE  UploadOK(upload'[u], task'[u], object'[u], writable'[u])
    BY DEF UploadsOK
  <2>1. UploadOK(upload[u], task[u], object[u], writable[u])
    BY <1>0 DEF UploadsOK
  <2>2. \A l, t \in Nat : Passed(l) > 0 /\ l + ExecutionLease <= t
                             => Passed(l) + ExecutionLease <= Passed(t)
    BY DEF Passed
  <2>3. \A t \in Nat : Passed(t) <= t /\ Passed(t) \in Nat
    BY DEF Passed
  <2>4. Passed(writable[u]) <= UrlTtl + InFlight /\ Passed(task[u].lease) <= ExecutionLease
    BY <1>3, <2>1, <2>3 DEF UploadOK
  <2>5. Passed(writable[u]) > 0 => writable[u] > 0
    BY <1>3 DEF Passed
  <2>6. task[u].confirmation = 0 => Passed(task[u].confirmation) = 0
    BY DEF Passed
  <2>7. writable[u] = 0 => Passed(writable[u]) = 0
    BY DEF Passed
  <2> QED
    BY <1>1, <1>2, <1>3, <2>1, <2>2, <2>4, <2>5, <2>6, <2>7 DEF UploadOK
<1>5. ASSUME NEW u \in Uploads
      PROVE  TaskKept(task[u], object[u], task'[u], object'[u])
  <2>1. \A l, t \in Nat : Passed(l) > 0 /\ Passed(t) < Passed(l) => l > 0 /\ t < l
    BY DEF Passed
  <2> QED
    <3>1. ASSUME IsCurrentAttempt(task'[u], task'[u].attempt), task'[u].confirmation < task'[u].lease
          PROVE  task[u].lease > 0 /\ task[u].confirmation < task[u].lease
      BY <1>2, <1>3, <2>1, <3>1 DEF IsCurrentAttempt
    <3> QED
      BY <1>1, <1>2, <1>3, <3>1 DEF TaskKept, IsCurrentAttempt
<1>6. ASSUME NEW u \in Uploads
      PROVE  UploadKept(upload[u], object[u], upload'[u], object'[u])
  BY <1>1, <1>2 DEF UploadKept
<1>7. \A c \in Clients : RequestMoved(c)
  BY <1>1 DEF RequestMoved
<1> QED
  BY <1>1, <1>4, <1>5, <1>6, <1>7, RowsOnly

\* The file is erased, whether or not the thread learns it: nothing but the
\* file and the thread's own state changes.
LEMMA EraseCorrect ==
  ASSUME RetentionInv, TypeOK', NEW w \in Workers, worker[w].pc = "CLAIMED",
         NEW pc \in {"ERASED", "FAILED"},
         object' = [object EXCEPT ![worker[w].upload] = FALSE],
         worker' = [worker EXCEPT ![w] = [worker[w] EXCEPT !.pc = pc]],
         UNCHANGED <<upload, task, writable, client>>
  PROVE  RetentionInv'
<1> DEFINE u == worker[w].upload
           x == [worker[w] EXCEPT !.pc = pc]
<1>0. TypeOK /\ UploadsOK /\ ThreadsOK /\ OneCurrentAttempt
  BY DEF RetentionInv
<1>1. u \in Uploads /\ ThreadOK(worker[w], task[u], object[u])
  BY <1>0 DEF ThreadsOK, Idle
<1>2. x.pc = pc /\ x.upload = u /\ x.attempt = worker[w].attempt
  BY <1>0 DEF TypeOK, Execution
<1>3. worker'[w] = x /\ \A v \in Workers \ {w} : worker'[v] = worker[v]
  BY <1>0 DEF TypeOK
<1>4. object'[u] = FALSE /\ \A v \in Uploads \ {u} : object'[v] = object[v]
  BY <1>0, <1>1 DEF TypeOK
<1> HIDE DEF x, u
<1>5. UploadOK(upload[u], task[u], object[u], writable[u])
  BY <1>0, <1>1 DEF UploadsOK
<1>6. UploadsOK'
  <2>1. UploadOK(upload[u], task[u], FALSE, writable[u])
    BY <1>1, <1>5 DEF UploadOK, ThreadOK
  <2> QED
    BY <1>0, <1>4, <2>1 DEF UploadsOK
<1>7. TaskKept(task[u], object[u], task'[u], object'[u])
  <2>1. task[u].attempt \in Nat
    BY <1>0, <1>1 DEF TypeOK, Task
  <2> QED
    BY <1>4, <2>1 DEF TaskKept
<1>8. \A v \in Uploads : TaskKept(task[v], object[v], task'[v], object'[v])
  BY <1>0, <1>4, <1>7, UnchangedKept DEF TypeOK
<1>9. UploadKept(upload[u], object[u], upload'[u], object'[u])
  BY <1>1, <1>5 DEF UploadKept, UploadOK, ThreadOK
<1>10. \A v \in Uploads : UploadKept(upload[v], object[v], upload'[v], object'[v])
  BY <1>4, <1>9, UnchangedKept
<1>11. ThreadOK(x, task[u], FALSE)
  BY <1>1, <1>2 DEF ThreadOK
<1>12. \A v \in Workers : ThreadMoved(v)
  <2>1. worker'[w] # Idle /\ worker'[w].upload \in Uploads
        /\ ThreadOK(worker'[w], task'[worker'[w].upload], object'[worker'[w].upload])
    <3>1. x # Idle /\ x.upload = u
      BY <1>2 DEF Idle
    <3>2. object'[u] = FALSE /\ task'[u] = task[u]
      BY <1>4
    <3> QED
      BY <1>1, <1>3, <1>11, <3>1, <3>2
  <2> QED
    BY <1>3, <2>1 DEF ThreadMoved
<1>13. \A c \in Clients : RequestMoved(c)
  BY DEF RequestMoved
<1>14. ThreadsOK' /\ RequestsOK'
  BY <1>6, <1>8, <1>10, <1>12, <1>13, StepPreserves
<1>15. OneCurrentAttempt'
  <2>1. \A v \in Workers : worker'[v].pc \in {"CLAIMED", "ERASED", "FAILED"} =>
            /\ worker[v].pc \in {"CLAIMED", "ERASED", "FAILED"}
            /\ worker'[v].upload = worker[v].upload
            /\ worker'[v].attempt = worker[v].attempt
    BY <1>2, <1>3 DEF u
  <2> QED
    BY <1>0, <2>1, NumbersKept
<1> QED
  BY <1>6, <1>14, <1>15 DEF RetentionInv

\* A report: the thread ends, and its task and upload are as they were or have
\* ended the attempt.
LEMMA ReportCorrect ==
  ASSUME RetentionInv, TypeOK', NEW w \in Workers,
         worker' = [worker EXCEPT ![w] = Idle], UNCHANGED <<object, writable, client>>,
         UploadsOK',
         \A u \in Uploads : TaskKept(task[u], object[u], task'[u], object'[u]),
         \A u \in Uploads : UploadKept(upload[u], object[u], upload'[u], object'[u])
  PROVE  RetentionInv'
<1>1. worker'[w] = Idle /\ \A v \in Workers \ {w} : worker'[v] = worker[v]
  BY DEF RetentionInv, TypeOK
<1>2. \A v \in Workers : ThreadMoved(v)
  BY <1>1 DEF ThreadMoved
<1>3. \A c \in Clients : RequestMoved(c)
  BY DEF RequestMoved
<1>4. ThreadsOK' /\ RequestsOK'
  BY <1>2, <1>3, StepPreserves
<1>5. OneCurrentAttempt'
  <2>1. \A v \in Workers : worker'[v].pc \in {"CLAIMED", "ERASED", "FAILED"} =>
            /\ worker[v].pc \in {"CLAIMED", "ERASED", "FAILED"}
            /\ worker'[v].upload = worker[v].upload
            /\ worker'[v].attempt = worker[v].attempt
    BY <1>1 DEF Idle
  <2> QED
    BY <2>1, NumbersKept DEF RetentionInv
<1> QED
  BY <1>4, <1>5 DEF RetentionInv

\* A deletion is recorded only by an attempt that is still the current one after
\* the time that is waited for: no write is possible then, and had the file
\* reappeared since it was erased the lease would be over.
LEMMA SucceedCorrect ==
  ASSUME RetentionInv, TypeOK', NEW w \in Workers, Succeed(w)
  PROVE  RetentionInv'
<1> DEFINE u == worker[w].upload
           row == RecordSuccess(task[u])
           gone == [upload[u] EXCEPT !.deleted = TRUE]
<1>0. TypeOK /\ UploadsOK /\ ThreadsOK
  BY DEF RetentionInv
<1>1. worker[w].pc = "ERASED" /\ worker' = [worker EXCEPT ![w] = Idle]
      /\ UNCHANGED <<noContent, object, writable, client>>
  BY DEF Succeed, Hold
<1>2. u \in Uploads /\ ThreadOK(worker[w], task[u], object[u])
  BY <1>0, <1>1 DEF ThreadsOK, Idle
<1>3. UploadOK(upload[u], task[u], object[u], writable[u])
  BY <1>0, <1>2 DEF UploadsOK
<1>4. \/ /\ IsCurrentAttempt(task[u], worker[w].attempt)
         /\ task' = [task EXCEPT ![u] = row]
      \/ task' = task
  BY DEF Succeed
<1>5. \/ task'[u].status = "SUCCEEDED" /\ upload' = [upload EXCEPT ![u] = gone]
      \/ task'[u].status # "SUCCEEDED" /\ upload' = upload
  BY DEF Succeed
<1>6. /\ task[u] \in Task /\ upload[u] \in Upload
      /\ task[u].confirmation \in Nat /\ task[u].lease \in Nat /\ task[u].attempt \in Nat
      /\ writable[u] \in Nat /\ task'[u] \in Task
  BY <1>0, <1>2 DEF TypeOK, Task
<1>7. /\ gone.status = upload[u].status /\ gone.quiet = upload[u].quiet
      /\ gone.recorded = upload[u].recorded /\ gone.deleted = TRUE
  BY <1>6 DEF Upload
<1>8. /\ row.attempt = task[u].attempt /\ row.confirmation = task[u].confirmation
      /\ row.lease = 0
      /\ \/ row.status = "PENDING" /\ task[u].confirmation > 0
         \/ row.status = "SUCCEEDED" /\ task[u].confirmation = 0
  BY <1>6 DEF RecordSuccess, Task
<1> HIDE DEF u, row, gone
<1>9. /\ \A v \in Uploads \ {u} : task'[v] = task[v] /\ upload'[v] = upload[v]
      /\ \/ task'[u] = task[u]
         \/ IsCurrentAttempt(task[u], worker[w].attempt) /\ task'[u] = row
      /\ \/ task'[u].status = "SUCCEEDED" /\ upload'[u] = gone
         \/ task'[u].status # "SUCCEEDED" /\ upload'[u] = upload[u]
  BY <1>0, <1>2, <1>4, <1>5 DEF TypeOK
<1>10. UploadOK(upload'[u], task'[u], object[u], writable[u])
  <2>1. CASE task'[u] = task[u]
    BY <1>3, <1>7, <1>9, <2>1 DEF UploadOK
  <2>2. CASE IsCurrentAttempt(task[u], worker[w].attempt) /\ task'[u] = row
    <3>1. task[u].status = "RUNNING" /\ task[u].lease > 0 /\ ~upload[u].deleted
      BY <1>3, <2>2 DEF IsCurrentAttempt, UploadOK
    <3>2. CASE row.status = "PENDING"
      BY <1>3, <1>8, <1>9, <2>2, <3>1, <3>2 DEF UploadOK
    <3>3. CASE row.status = "SUCCEEDED" /\ task[u].confirmation = 0
      <4>1. ~object[u]
        BY <1>1, <1>2, <1>6, <2>2, <3>1, <3>3 DEF ThreadOK
      <4>2. writable[u] = 0
        BY <1>3, <1>6, <3>1, <3>3 DEF UploadOK
      <4> QED
        BY <1>3, <1>7, <1>8, <1>9, <2>2, <3>1, <3>3, <4>1, <4>2 DEF UploadOK
    <3> QED
      BY <1>8, <3>2, <3>3
  <2> QED
    BY <1>9, <2>1, <2>2
<1>11. UploadsOK'
  BY <1>0, <1>1, <1>9, <1>10 DEF UploadsOK
<1>12. TaskKept(task[u], object[u], task'[u], object'[u])
  <2>1. CASE task'[u] = task[u]
    BY <1>1, <1>6, <2>1, UnchangedKept
  <2>2. CASE task'[u] = row
    BY <1>6, <1>8, <2>2 DEF TaskKept, IsCurrentAttempt
  <2> QED
    BY <1>9, <2>1, <2>2
<1>13. \A v \in Uploads : TaskKept(task[v], object[v], task'[v], object'[v])
  BY <1>0, <1>1, <1>9, <1>12, UnchangedKept DEF TypeOK
<1>14. \A v \in Uploads : UploadKept(upload[v], object[v], upload'[v], object'[v])
  <2>1. UploadKept(upload[u], object[u], upload'[u], object'[u])
    BY <1>1, <1>2, <1>3, <1>7, <1>9 DEF UploadKept, UploadOK, ThreadOK
  <2> QED
    BY <1>1, <1>9, <2>1, UnchangedKept
<1> QED
  BY <1>1, <1>11, <1>13, <1>14, ReportCorrect

\* A failure ends the attempt, or comes too late to say anything.
LEMMA FailCorrect ==
  ASSUME RetentionInv, TypeOK', NEW w \in Workers, Fail(w)
  PROVE  RetentionInv'
<1> DEFINE u == worker[w].upload
           b == Backoff(worker[w].attempt)
           row == [task[u] EXCEPT !.status = "PENDING", !.lease = 0, !.next = b]
<1>0. TypeOK /\ UploadsOK /\ ThreadsOK
  BY DEF RetentionInv
<1>1. /\ worker[w].pc = "FAILED" /\ worker' = [worker EXCEPT ![w] = Idle]
      /\ UNCHANGED <<upload, noContent, object, writable, client>>
  BY DEF Fail, Hold
<1>2. u \in Uploads /\ ThreadOK(worker[w], task[u], object[u])
  BY <1>0, <1>1 DEF ThreadsOK, Idle
<1>3. UploadOK(upload[u], task[u], object[u], writable[u])
  BY <1>0, <1>2 DEF UploadsOK
<1>4. \/ /\ IsCurrentAttempt(task[u], worker[w].attempt)
         /\ task' = [task EXCEPT ![u] = row]
      \/ task' = task
  BY DEF Fail
<1>5. task[u] \in Task /\ task[u].attempt \in Nat
  BY <1>0, <1>2 DEF TypeOK, Task
<1>6. /\ row.attempt = task[u].attempt /\ row.confirmation = task[u].confirmation
      /\ row.lease = 0 /\ row.status = "PENDING"
  BY <1>5 DEF Task
<1> HIDE DEF u, b, row
<1>7. /\ \A v \in Uploads \ {u} : task'[v] = task[v]
      /\ \/ task'[u] = task[u]
         \/ IsCurrentAttempt(task[u], worker[w].attempt) /\ task'[u] = row
  BY <1>0, <1>2, <1>4 DEF TypeOK
<1>8. UploadOK(upload[u], task'[u], object[u], writable[u])
  <2>1. CASE task'[u] = task[u]
    BY <1>3, <2>1
  <2>2. CASE IsCurrentAttempt(task[u], worker[w].attempt) /\ task'[u] = row
    BY <1>3, <1>6, <2>2 DEF UploadOK, IsCurrentAttempt
  <2> QED
    BY <1>7, <2>1, <2>2
<1>9. UploadsOK'
  BY <1>0, <1>1, <1>7, <1>8 DEF UploadsOK
<1>10. TaskKept(task[u], object[u], task'[u], object'[u])
  <2>1. CASE task'[u] = task[u]
    BY <1>1, <1>5, <2>1, UnchangedKept
  <2>2. CASE task'[u] = row
    BY <1>5, <1>6, <2>2 DEF TaskKept, IsCurrentAttempt
  <2> QED
    BY <1>7, <2>1, <2>2
<1>11. \A v \in Uploads : TaskKept(task[v], object[v], task'[v], object'[v])
  BY <1>0, <1>1, <1>7, <1>10, UnchangedKept DEF TypeOK
<1>12. \A v \in Uploads : UploadKept(upload[v], object[v], upload'[v], object'[v])
  BY <1>1, UnchangedKept
<1> QED
  BY <1>1, <1>9, <1>11, <1>12, ReportCorrect

\* A claim takes a number that no thread holds, above all that were given out.
LEMMA ClaimCorrect ==
  ASSUME RetentionInv, TypeOK', NEW w \in Workers, Claim(w)
  PROVE  RetentionInv'
<1> DEFINE u == worker[w].upload
           attempt == NextAttempt(task[u].attempt)
           row == [task[u] EXCEPT !.status = "RUNNING", !.attempt = attempt,
                                  !.next = 0, !.lease = ExecutionLease]
           x == [pc |-> "CLAIMED", upload |-> u, attempt |-> attempt]
<1>0. TypeOK /\ UploadsOK /\ ThreadsOK /\ RequestsOK /\ OneCurrentAttempt
  BY DEF RetentionInv
<1>1. worker[w].pc = "DISPATCHED" /\ UNCHANGED <<upload, noContent, object, writable, client>>
  BY DEF Claim
<1>2. u \in Uploads /\ ThreadOK(worker[w], task[u], object[u])
  BY <1>0, <1>1 DEF ThreadsOK, Idle
<1>3. CASE worker' = [worker EXCEPT ![w] = Idle] /\ task' = task
  BY <1>1, <1>3, ThreadOnly
<1>4. CASE /\ IsReady(task[u]) /\ NumberFree(u)
           /\ task' = [task EXCEPT ![u] = row] /\ worker' = [worker EXCEPT ![w] = x]
  <2>1. /\ task[u] \in Task /\ task[u].attempt \in Nat
        /\ \A v \in Workers : worker[v] \in Execution /\ worker[v].attempt \in Nat
    BY <1>0, <1>2 DEF TypeOK, Task, Execution
  <2>2. attempt \in Nat /\ attempt > 0 /\ attempt >= task[u].attempt
    BY <2>1 DEF NextAttempt
  <2>3. ASSUME NEW v \in Workers, worker[v] # Idle, worker[v].upload = u
        PROVE  worker[v].attempt < attempt
    <3>1. worker[v].attempt <= task[u].attempt
      BY <1>0, <2>3 DEF ThreadsOK, ThreadOK
    <3>2. CASE task[u].attempt < MaxAttempts
      <4>1. attempt = task[u].attempt + 1
        BY <3>2 DEF NextAttempt
      <4> HIDE DEF attempt
      <4> QED
        BY <2>1, <3>1, <4>1
    <3>3. CASE \A y \in Workers : worker[y].upload = u => worker[y].attempt < task[u].attempt
      <4>1. worker[v].attempt < task[u].attempt
        BY <2>3, <3>3
      <4> HIDE DEF attempt
      <4> QED
        BY <2>1, <2>2, <4>1
    <3> QED
      BY <1>4, <3>2, <3>3 DEF NumberFree
  <2> HIDE DEF attempt
  <2>4. /\ row.status = "RUNNING" /\ row.attempt = attempt /\ row.lease = ExecutionLease
        /\ row.confirmation = task[u].confirmation
    BY <2>1 DEF Task
  <2>5. x.pc = "CLAIMED" /\ x.upload = u /\ x.attempt = attempt
    OBVIOUS
  <2> HIDE DEF row, x, u
  <2>6. task'[u] = row /\ \A v \in Uploads \ {u} : task'[v] = task[v]
    BY <1>0, <1>2, <1>4 DEF TypeOK
  <2>7. worker'[w] = x /\ \A v \in Workers \ {w} : worker'[v] = worker[v]
    BY <1>0, <1>4 DEF TypeOK
  <2>8. task[u].status = "PENDING" \/ task[u].status = "RUNNING"
    BY <1>4 DEF IsReady
  <2>9. UploadsOK'
    <3>1. UploadOK(upload[u], task[u], object[u], writable[u])
      BY <1>0, <1>2 DEF UploadsOK
    <3>2. UploadOK(upload[u], row, object[u], writable[u])
      BY <2>4, <2>8, <3>1 DEF UploadOK
    <3> QED
      BY <1>0, <1>1, <2>6, <3>2 DEF UploadsOK
  <2>10. ThreadsOK'
    <3> SUFFICES ASSUME NEW v \in Workers, worker'[v] # Idle
                 PROVE  /\ worker'[v].upload \in Uploads
                        /\ ThreadOK(worker'[v], task'[worker'[v].upload],
                                    object'[worker'[v].upload])
      BY DEF ThreadsOK
    <3>1. CASE v = w
      <4>1. ThreadOK(x, row, object[u])
        BY <2>2, <2>4, <2>5 DEF ThreadOK, Idle
      <4> QED
        BY <1>1, <1>2, <2>5, <2>6, <2>7, <3>1, <4>1
    <3>2. CASE v # w /\ worker[v].upload = u
      <4>1. ThreadOK(worker[v], task[u], object[u])
        BY <1>0, <2>7, <3>2 DEF ThreadsOK
      <4>2. worker[v].attempt < attempt /\ worker[v].attempt \in Nat
        BY <2>1, <2>3, <2>7, <3>2
      <4>3. ~IsCurrentAttempt(row, worker[v].attempt)
        BY <2>2, <2>4, <4>2 DEF IsCurrentAttempt
      <4>4. ThreadOK(worker[v], row, object[u])
        BY <2>2, <2>4, <4>1, <4>2, <4>3 DEF ThreadOK
      <4> QED
        BY <1>1, <1>2, <2>6, <2>7, <3>2, <4>4
    <3>3. CASE v # w /\ worker[v].upload # u
      <4>1. /\ worker[v].upload \in Uploads
            /\ ThreadOK(worker[v], task[worker[v].upload], object[worker[v].upload])
        BY <1>0, <2>7, <3>3 DEF ThreadsOK
      <4> QED
        BY <1>1, <2>6, <2>7, <3>3, <4>1
    <3> QED
      BY <3>1, <3>2, <3>3
  <2>11. RequestsOK'
    BY <1>0, <1>1 DEF RequestsOK
  <2>12. OneCurrentAttempt'
    <3> SUFFICES ASSUME NEW v \in Workers, v # w,
                        worker'[v].pc \in {"CLAIMED", "ERASED", "FAILED"}
                 PROVE  ~(worker'[v].upload = u /\ worker'[v].attempt = attempt)
      BY <1>0, <2>5, <2>7 DEF OneCurrentAttempt
    <3>1. worker[v] # Idle
      BY <2>7 DEF Idle
    <3>2. worker[v].upload = u => worker[v].attempt < attempt /\ worker[v].attempt \in Nat
      BY <2>1, <2>3, <3>1
    <3> QED
      BY <2>2, <2>7, <3>2
  <2> QED
    BY <2>9, <2>10, <2>11, <2>12 DEF RetentionInv
<1> QED
  BY <1>3, <1>4 DEF Claim, Hold

\* The invariant is inductive.
LEMMA NextCorrect ==
  ASSUME RetentionInv, [Next]_vars
  PROVE  RetentionInv'
<1>1. CASE UNCHANGED vars
  BY <1>1 DEF vars, RetentionInv, TypeOK, UploadsOK, ThreadsOK, RequestsOK, OneCurrentAttempt
<1>2. CASE Next
  <2>0. TypeOK'
    BY <1>2, NextType
  <2>1. ASSUME NEW w \in Workers, NEW u \in Uploads, Dispatch(w, u) PROVE RetentionInv'
    <3> DEFINE x == [Idle EXCEPT !.pc = "DISPATCHED", !.upload = u]
    <3>1. x.pc = "DISPATCHED" /\ x.attempt = 0 /\ x.upload = u
      BY DEF Idle
    <3>2. task[u].status # "ABSENT" /\ worker' = [worker EXCEPT ![w] = x]
          /\ UNCHANGED <<upload, task, object, writable, client>>
      BY <2>1 DEF Dispatch, Hold, IsReady
    <3> HIDE DEF x
    <3> QED
      BY <2>0, <3>1, <3>2, ThreadOnly
  <2>2. ASSUME NEW w \in Workers, Claim(w) PROVE RetentionInv'
    BY <2>0, <2>2, ClaimCorrect
  <2>3. ASSUME NEW w \in Workers, DeleteStoredObject(w) PROVE RetentionInv'
    BY <2>0, <2>3, EraseCorrect DEF DeleteStoredObject, Hold
  <2>4. ASSUME NEW w \in Workers, DeletionFails(w) PROVE RetentionInv'
    <3>1. CASE object' = object
      <4> DEFINE x == [worker[w] EXCEPT !.pc = "FAILED"]
      <4>1. worker[w].pc = "CLAIMED" /\ worker' = [worker EXCEPT ![w] = x]
            /\ UNCHANGED <<upload, task, object, writable, client>>
        BY <2>4, <3>1 DEF DeletionFails, Hold
      <4>2. worker[w] \in Execution /\ worker[w] # Idle
        BY <4>1 DEF RetentionInv, TypeOK, Idle
      <4>3. x.pc = "FAILED" /\ x.upload = worker[w].upload /\ x.attempt = worker[w].attempt
        BY <4>2 DEF Execution
      <4> HIDE DEF x
      <4> QED
        BY <2>0, <4>1, <4>2, <4>3, ThreadOnly
    <3>2. CASE object' = [object EXCEPT ![worker[w].upload] = FALSE]
      BY <2>0, <2>4, <3>2, EraseCorrect DEF DeletionFails, Hold
    <3> QED
      BY <2>4, <3>1, <3>2 DEF DeletionFails
  <2>5. ASSUME NEW w \in Workers, Succeed(w) PROVE RetentionInv'
    BY <2>0, <2>5, SucceedCorrect
  <2>6. ASSUME NEW w \in Workers, Fail(w) PROVE RetentionInv'
    BY <2>0, <2>6, FailCorrect
  <2>7. ASSUME NEW w \in Workers, Abandon(w) PROVE RetentionInv'
    BY <2>0, <2>7, ThreadOnly DEF Abandon, Hold
  <2>8. ASSUME NEW c \in Clients, NEW u \in Uploads, FindStoredObject(c, u) PROVE RetentionInv'
    BY <2>0, <2>8, FindStoredObjectCorrect
  <2>9. ASSUME NEW c \in Clients, CompleteUpload(c) PROVE RetentionInv'
    BY <2>0, <2>9, CompleteUploadCorrect
  <2>10. ASSUME NEW c \in Clients, EndRequest(c) PROVE RetentionInv'
    <3>1. UNCHANGED <<upload, task, object, writable, worker>>
      BY <2>10 DEF EndRequest
    <3>2. \A d \in Clients : client'[d] = client[d] \/ client'[d] = NoRequest
      BY <2>10 DEF EndRequest, RetentionInv, TypeOK
    <3> QED
      BY <2>0, <3>1, <3>2, RequestEnds
  <2>11. ASSUME NEW u \in Uploads, Issue(u) PROVE RetentionInv'
    BY <2>0, <2>11, IssueCorrect
  <2>12. ASSUME NEW u \in Uploads, Put(u) PROVE RetentionInv'
    BY <2>0, <2>12, PutCorrect
  <2>13. ASSUME NEW u \in Uploads, EndWithoutContent(u) PROVE RetentionInv'
    BY <2>0, <2>13, RequestEnds DEF EndWithoutContent
  <2>14. ASSUME NEW u \in Uploads, Schedule(u) PROVE RetentionInv'
    BY <2>0, <2>14, ScheduleCorrect
  <2>15. ASSUME Tick PROVE RetentionInv'
    BY <2>0, <2>15, TickCorrect
  <2> QED
    BY <1>2, <2>1, <2>2, <2>3, <2>4, <2>5, <2>6, <2>7, <2>8, <2>9, <2>10, <2>11, <2>12, <2>13,
       <2>14, <2>15 DEF Next, WorkerStep, EndStep, ClientStep, UploadStep
<1> QED
  BY <1>1, <1>2

LEMMA RetentionInvariant == Spec => []RetentionInv
<1>1. Init => RetentionInv
  BY InitCorrect
<1>2. RetentionInv /\ [Next]_vars => RetentionInv'
  BY NextCorrect
<1> QED
  BY <1>1, <1>2, PTL DEF Spec

-----------------------------------------------------------------------------
(* Theorems *)

\* Every row, timer, request and thread keeps its type.
THEOREM AudioTypeCorrect == Spec => []TypeOK
<1>1. RetentionInv => TypeOK
  BY DEF RetentionInv
<1> QED
  BY <1>1, RetentionInvariant, PTL

\* A file whose deletion is recorded is gone, and nobody can write it again.
THEOREM GoneForGoodCorrect == Spec => []GoneForGood
<1>1. RetentionInv => GoneForGood
  <2> SUFFICES ASSUME RetentionInv, NEW u \in Uploads
               PROVE  /\ task[u].status = "SUCCEEDED" <=> upload[u].deleted
                      /\ upload[u].deleted => ~object[u] /\ writable[u] = 0
    BY DEF GoneForGood
  <2>1. UploadOK(upload[u], task[u], object[u], writable[u])
    BY DEF RetentionInv, UploadsOK
  <2>2. /\ writable[u] \in Nat /\ upload[u].deleted \in BOOLEAN
        /\ task[u].confirmation \in Nat
    BY DEF RetentionInv, TypeOK, Upload, Task
  <2>3. task[u].status = "SUCCEEDED" => writable[u] = 0
    BY <2>1, <2>2 DEF UploadOK
  <2> QED
    BY <2>1, <2>2, <2>3 DEF UploadOK
<1> QED
  BY <1>1, RetentionInvariant, PTL

\* No two threads hold the same attempt, whoever takes over.
THEOREM OneCurrentAttemptCorrect == Spec => []OneCurrentAttempt
<1>1. RetentionInv => OneCurrentAttempt
  BY DEF RetentionInv
<1> QED
  BY <1>1, RetentionInvariant, PTL

\* The attempt that erased a file which is there again cannot end the task.
THEOREM RewritesAreErasedAgainCorrect == Spec => []RewritesAreErasedAgain
<1>1. RetentionInv => RewritesAreErasedAgain
  BY DEF RetentionInv, ThreadsOK, ThreadOK, RewritesAreErasedAgain, Idle
<1> QED
  BY <1>1, RetentionInvariant, PTL

-----------------------------------------------------------------------------
(* Refinement *)

\* What a step may do to the phase of an upload and to the set of those that are
\* due, by the rows it leaves alone.
PhaseKept(u) ==
  /\ upload'[u].deleted = upload[u].deleted
  /\ task'[u].status = "ABSENT" <=> task[u].status = "ABSENT"
  /\ upload'[u].status = "COMPLETED" <=> upload[u].status = "COMPLETED"

DueKept(u) ==
  /\ u \in noContent' <=> u \in noContent
  /\ upload'[u].status = "COMPLETED" /\ upload'[u].retention = 0
       <=> upload[u].status = "COMPLETED" /\ upload[u].retention = 0

LEMMA PhaseStep ==
  ASSUME NEW u \in Uploads, \A v \in Uploads \ {u} : PhaseKept(v)
  PROVE  Phase' = [Phase EXCEPT ![u] = Phase'[u]]
<1>1. \A v \in Uploads \ {u} : Phase'[v] = Phase[v]
  BY DEF Phase, PhaseKept
<1>2. DOMAIN Phase = Uploads /\ DOMAIN Phase' = Uploads
      /\ Phase = [v \in Uploads |-> Phase[v]] /\ Phase' = [v \in Uploads |-> Phase'[v]]
  BY DEF Phase
<1> HIDE DEF Phase
<1> QED
  BY <1>1, <1>2

LEMMA PhaseSame ==
  ASSUME \A u \in Uploads : PhaseKept(u)
  PROVE  Phase' = Phase
  BY DEF Phase, PhaseKept

LEMMA DueSame ==
  ASSUME \A u \in Uploads : DueKept(u)
  PROVE  Due' = Due
  BY DEF Due, DueKept

\* A step that changes no upload's confirmation, task and record stutters or does
\* to the files what the lifecycle allows.
LEMMA RowsKept ==
  ASSUME UNCHANGED <<upload, noContent>>,
         \A u \in Uploads : task'[u].status = "ABSENT" <=> task[u].status = "ABSENT"
  PROVE  Phase' = Phase /\ Due' = Due
<1>1. \A u \in Uploads : PhaseKept(u) /\ DueKept(u)
  BY DEF PhaseKept, DueKept
<1> QED
  BY <1>1, PhaseSame, DueSame

\* A file that can be written is not recorded as deleted.
LEMMA WritableNotGone ==
  ASSUME RetentionInv, NEW u \in Uploads, writable[u] > 0
  PROVE  Phase[u] # "GONE"
<1>1. UploadOK(upload[u], task[u], object[u], writable[u])
  BY DEF RetentionInv, UploadsOK
<1>2. writable[u] \in Nat /\ task[u].confirmation \in Nat
  BY DEF RetentionInv, TypeOK, Task
<1>3. ~upload[u].deleted
  BY <1>1, <1>2 DEF UploadOK
<1> QED
  BY <1>3 DEF Phase

\* A thread at work has a task: the deletion of its upload was requested.
LEMMA WorkersHaveTasks ==
  ASSUME RetentionInv, NEW w \in Workers, worker[w].pc # "IDLE"
  PROVE  /\ worker[w].upload \in Uploads
         /\ task[worker[w].upload].status # "ABSENT"
         /\ Phase[worker[w].upload] \in {"DOOMED", "GONE"}
<1>1. worker[w].upload \in Uploads /\ task[worker[w].upload].status # "ABSENT"
  BY DEF RetentionInv, ThreadsOK, ThreadOK, Idle
<1> QED
  BY <1>1 DEF Phase

\* The file of a confirmed upload stays until its deletion is due, is erased only
\* after the request and is recorded as deleted only when it is: every step is one
\* of the lifecycle's or leaves it alone.
THEOREM ImplementsLifecycleCorrect == Spec => ImplementsLifecycle
<1>1. Init => Lifecycle!Init
  <2> SUFFICES ASSUME Init PROVE Lifecycle!Init
    OBVIOUS
  <2>1. \A u \in Uploads : /\ ~upload[u].deleted /\ upload[u].status # "COMPLETED"
                           /\ task[u].status = "ABSENT" /\ u \notin noContent
    BY DEF Init, NoUpload, NoTask
  <2>2. Phase = [u \in Uploads |-> "OPEN"] /\ Due = {}
    BY <2>1 DEF Phase, Due
  <2> QED
    BY <2>2 DEF Lifecycle!Init, Init
<1>2. ASSUME RetentionInv, RetentionInv', [Next]_vars
      PROVE  [Lifecycle!Next]_<<Phase, object, Due>>
  <2> USE <1>2
  <2>0. TypeOK /\ object \in [Uploads -> BOOLEAN]
    BY DEF RetentionInv, TypeOK
  <2>1. CASE UNCHANGED vars
    <3>1. Phase' = Phase /\ Due' = Due
      BY <2>1, RowsKept DEF vars
    <3> QED
      BY <2>1, <3>1 DEF vars
  <2>2. ASSUME NEW w \in Workers, UNCHANGED <<upload, noContent, object>>,
               \A u \in Uploads : task'[u].status = "ABSENT" <=> task[u].status = "ABSENT"
        PROVE  UNCHANGED <<Phase, object, Due>>
    BY <2>2, RowsKept
  <2>3. ASSUME NEW w \in Workers, NEW u \in Uploads, Dispatch(w, u)
        PROVE  UNCHANGED <<Phase, object, Due>>
    BY <2>2, <2>3 DEF Dispatch
  <2>4. ASSUME NEW w \in Workers, Claim(w)
        PROVE  UNCHANGED <<Phase, object, Due>>
    <3> DEFINE u == worker[w].upload
    <3>1. u \in Uploads /\ task[u].status # "ABSENT" /\ task[u] \in Task
      BY <2>0, <2>4, WorkersHaveTasks DEF Claim, TypeOK
    <3>2. \/ task' = task
          \/ task' = [task EXCEPT ![u] = [task[u] EXCEPT !.status = "RUNNING",
                         !.attempt = NextAttempt(task[u].attempt),
                         !.next = 0, !.lease = ExecutionLease]]
      BY <2>4 DEF Claim
    <3>3. task'[u].status # "ABSENT" /\ \A v \in Uploads \ {u} : task'[v] = task[v]
      <4> DEFINE row == [task[u] EXCEPT !.status = "RUNNING",
                             !.attempt = NextAttempt(task[u].attempt),
                             !.next = 0, !.lease = ExecutionLease]
      <4>1. row.status = "RUNNING"
        BY <3>1 DEF Task
      <4>2. task' = task \/ task' = [task EXCEPT ![u] = row]
        BY <3>2
      <4> HIDE DEF row
      <4> QED
        BY <2>0, <3>1, <4>1, <4>2 DEF TypeOK
    <3>4. UNCHANGED <<upload, noContent, object>>
      BY <2>4 DEF Claim
    <3> HIDE DEF u
    <3> QED
      BY <2>2, <2>4, <3>1, <3>3, <3>4
  <2>5. ASSUME NEW w \in Workers, DeleteStoredObject(w) \/ DeletionFails(w)
        PROVE  \/ UNCHANGED <<Phase, object, Due>>
               \/ Lifecycle!Erase(worker[w].upload) /\ worker[w].upload \in Uploads
    <3>1. UNCHANGED <<upload, task, noContent>> /\ worker[w].pc = "CLAIMED"
      BY <2>5 DEF DeleteStoredObject, DeletionFails
    <3>2. \/ object' = object
          \/ object' = [object EXCEPT ![worker[w].upload] = FALSE]
      BY <2>5 DEF DeleteStoredObject, DeletionFails
    <3>3. Phase' = Phase /\ Due' = Due
      BY <3>1, RowsKept
    <3>4. Phase[worker[w].upload] \in {"DOOMED", "GONE"} /\ worker[w].upload \in Uploads
      BY <3>1, WorkersHaveTasks
    <3> QED
      BY <3>2, <3>3, <3>4 DEF Lifecycle!Erase
  <2>6. ASSUME NEW w \in Workers, Succeed(w)
        PROVE  \/ UNCHANGED <<Phase, object, Due>>
               \/ Lifecycle!Confirm(worker[w].upload) /\ worker[w].upload \in Uploads
    <3> DEFINE u == worker[w].upload
    <3>1. u \in Uploads /\ task[u].status # "ABSENT" /\ task[u] \in Task /\ upload[u] \in Upload
      BY <2>0, <2>6, WorkersHaveTasks DEF Succeed, TypeOK
    <3>2. UNCHANGED <<noContent, object>>
      BY <2>6 DEF Succeed
    <3>3. /\ \/ task' = task
             \/ task' = [task EXCEPT ![u] = RecordSuccess(task[u])]
          /\ \/ upload' = upload
             \/ upload' = [upload EXCEPT ![u] = [upload[u] EXCEPT !.deleted = TRUE]]
      BY <2>6 DEF Succeed
    <3>4. RecordSuccess(task[u]).status # "ABSENT"
      BY <3>1 DEF RecordSuccess, Task
    <3>5. /\ [upload[u] EXCEPT !.deleted = TRUE].deleted = TRUE
          /\ [upload[u] EXCEPT !.deleted = TRUE].status = upload[u].status
          /\ [upload[u] EXCEPT !.deleted = TRUE].retention = upload[u].retention
      BY <3>1 DEF Upload
    <3> HIDE DEF u
    <3>6. task'[u].status # "ABSENT" /\ \A v \in Uploads \ {u} : task'[v] = task[v]
      BY <2>0, <3>1, <3>3, <3>4 DEF TypeOK
    <3>7. \A v \in Uploads \ {u} : upload'[v] = upload[v]
      BY <2>0, <3>3 DEF TypeOK
    <3>8. /\ upload'[u].status = upload[u].status /\ upload'[u].retention = upload[u].retention
          /\ upload'[u].deleted = upload[u].deleted \/ upload'[u].deleted = TRUE
      BY <2>0, <3>1, <3>3, <3>5 DEF TypeOK
    <3>9. Due' = Due
      <4>1. \A v \in Uploads : DueKept(v)
        BY <3>2, <3>7, <3>8 DEF DueKept
      <4> QED
        BY <4>1, DueSame
    <3>10. \A v \in Uploads \ {u} : PhaseKept(v)
      BY <3>6, <3>7 DEF PhaseKept
    <3>11. CASE upload'[u].deleted = upload[u].deleted
      <4>1. PhaseKept(u)
        BY <3>1, <3>6, <3>8, <3>11 DEF PhaseKept
      <4> QED
        BY <3>2, <3>9, <3>10, <4>1, PhaseSame
    <3>12. CASE upload'[u].deleted = TRUE /\ upload[u].deleted # TRUE
      <4>1. upload[u].deleted = FALSE
        BY <3>1, <3>12 DEF Upload
      <4>2. Phase[u] = "DOOMED"
        BY <3>1, <4>1 DEF Phase
      <4>3. Phase'[u] = "GONE"
        BY <3>1, <3>12 DEF Phase
      <4>4. UploadOK(upload'[u], task'[u], object'[u], writable'[u])
        BY <3>1 DEF RetentionInv, UploadsOK
      <4>5. ~object[u]
        BY <3>2, <3>12, <4>4 DEF UploadOK
      <4>6. Phase' = [Phase EXCEPT ![u] = "GONE"]
        BY <3>1, <3>10, <4>3, PhaseStep
      <4> QED
        BY <3>1, <3>2, <3>9, <4>2, <4>5, <4>6 DEF Lifecycle!Confirm, u
    <3> QED
      BY <3>8, <3>11, <3>12
  <2>7. ASSUME NEW w \in Workers, Fail(w)
        PROVE  UNCHANGED <<Phase, object, Due>>
    <3> DEFINE u == worker[w].upload
               row == [task[u] EXCEPT !.status = "PENDING", !.lease = 0,
                                      !.next = Backoff(worker[w].attempt)]
    <3>1. u \in Uploads /\ task[u].status # "ABSENT" /\ task[u] \in Task
      BY <2>0, <2>7, WorkersHaveTasks DEF Fail, TypeOK
    <3>2. task' = task \/ task' = [task EXCEPT ![u] = row]
      BY <2>7 DEF Fail
    <3>3. row.status = "PENDING"
      BY <3>1 DEF Task
    <3> HIDE DEF row
    <3>4. task'[u].status # "ABSENT" /\ \A v \in Uploads \ {u} : task'[v] = task[v]
      BY <2>0, <3>1, <3>2, <3>3 DEF TypeOK
    <3>5. UNCHANGED <<upload, noContent, object>>
      BY <2>7 DEF Fail
    <3> HIDE DEF u
    <3> QED
      BY <2>2, <2>7, <3>1, <3>4, <3>5
  <2>8. ASSUME NEW w \in Workers, Abandon(w)
        PROVE  UNCHANGED <<Phase, object, Due>>
    BY <2>2, <2>8 DEF Abandon
  <2>9. ASSUME NEW c \in Clients, EndRequest(c) \/ \E u \in Uploads : FindStoredObject(c, u)
        PROVE  UNCHANGED <<Phase, object, Due>>
    BY <2>9, RowsKept DEF FindStoredObject, EndRequest
  <2>10. ASSUME NEW c \in Clients, CompleteUpload(c)
         PROVE  Lifecycle!Keep(client[c].upload) /\ client[c].upload \in Uploads
    <3> DEFINE u == client[c].upload
    <3>1. /\ u \in Uploads /\ upload[u].status = "RESERVED" /\ object[u]
          /\ UNCHANGED <<task, noContent, object>>
      BY <2>10 DEF RetentionInv, RequestsOK, RequestOK, CompleteUpload, Completed
    <3>2. upload[u] \in Upload /\ UploadOK(upload[u], task[u], object[u], writable[u])
      BY <2>0, <3>1 DEF TypeOK, RetentionInv, UploadsOK
    <3>3. ~upload[u].deleted /\ task[u].status = "ABSENT"
      BY <3>1, <3>2 DEF UploadOK
    <3> DEFINE q == IF upload[u].recorded THEN upload[u].quiet
                    ELSE LegacyUrlValidity + UploadQuiescence
               row == [upload[u] EXCEPT !.status = "COMPLETED", !.retention = AudioRetention,
                                        !.quiet = q]
    <3>4. upload' = [upload EXCEPT ![u] = row]
      BY <2>10 DEF CompleteUpload
    <3> HIDE DEF q
    <3>5. /\ row.status = "COMPLETED" /\ row.retention = AudioRetention
          /\ row.deleted = upload[u].deleted
      BY <3>2 DEF Upload
    <3> HIDE DEF row, u
    <3>6. upload'[u] = row /\ \A v \in Uploads \ {u} : upload'[v] = upload[v]
      BY <2>0, <3>1, <3>4 DEF TypeOK
    <3>7. AudioRetention # 0
      BY TimesAssumption
    <3>8. \A v \in Uploads : DueKept(v)
      BY <3>1, <3>5, <3>6, <3>7 DEF DueKept
    <3>9. \A v \in Uploads \ {u} : PhaseKept(v)
      BY <3>1, <3>6 DEF PhaseKept
    <3>10. Phase[u] = "OPEN" /\ Phase'[u] = "KEPT"
      BY <3>1, <3>3, <3>5, <3>6 DEF Phase
    <3>11. Phase' = [Phase EXCEPT ![u] = "KEPT"]
      BY <3>1, <3>9, <3>10, PhaseStep
    <3> QED
      BY <3>1, <3>8, <3>10, <3>11, DueSame DEF Lifecycle!Keep, u
  <2>11. ASSUME NEW u \in Uploads, Issue(u)
         PROVE  UNCHANGED <<Phase, object, Due>>
    <3> DEFINE q == IF upload[u].recorded THEN Later(upload[u].quiet, UrlTtl + UploadQuiescence)
                    ELSE UrlTtl + UploadQuiescence
               row == [upload[u] EXCEPT !.status = "RESERVED", !.recorded = TRUE, !.quiet = q]
    <3>1. /\ upload[u].status # "COMPLETED" /\ upload' = [upload EXCEPT ![u] = row]
          /\ UNCHANGED <<task, noContent, object>>
      BY <2>11 DEF Issue
    <3> HIDE DEF q
    <3>2. row.status = "RESERVED" /\ row.deleted = upload[u].deleted
      BY <2>0 DEF TypeOK, Upload
    <3> HIDE DEF row
    <3>3. upload'[u] = row /\ \A v \in Uploads \ {u} : upload'[v] = upload[v]
      BY <2>0, <3>1 DEF TypeOK
    <3>4. \A v \in Uploads : PhaseKept(v) /\ DueKept(v)
      BY <3>1, <3>2, <3>3 DEF PhaseKept, DueKept
    <3> QED
      BY <3>1, <3>4, PhaseSame, DueSame
  <2>12. ASSUME NEW u \in Uploads, Put(u)
         PROVE  Lifecycle!Store(u)
    <3>1. Phase' = Phase /\ Due' = Due
      BY <2>12, RowsKept DEF Put
    <3>2. Phase[u] # "GONE" /\ object' = [object EXCEPT ![u] = TRUE]
      BY <2>12, WritableNotGone DEF Put
    <3> QED
      BY <3>1, <3>2 DEF Lifecycle!Store
  <2>13. ASSUME NEW u \in Uploads, EndWithoutContent(u)
         PROVE  Lifecycle!BecomeDue
    <3>1. UNCHANGED <<upload, task, object>> /\ noContent \subseteq noContent'
      BY <2>13 DEF EndWithoutContent
    <3>2. \A v \in Uploads : PhaseKept(v)
      BY <3>1 DEF PhaseKept
    <3>3. Due \subseteq Due' /\ Due' \subseteq Uploads
      BY <3>1 DEF Due
    <3> QED
      BY <3>1, <3>2, <3>3, PhaseSame DEF Lifecycle!BecomeDue
  <2>14. ASSUME NEW u \in Uploads, Schedule(u)
         PROVE  Lifecycle!Doom(u)
    <3> DEFINE row == [NoTask EXCEPT !.status = "PENDING", !.confirmation = upload[u].quiet]
    <3>1. /\ upload[u].status = "COMPLETED" /\ ~upload[u].deleted /\ task[u].status = "ABSENT"
          /\ task' = [task EXCEPT ![u] = row]
          /\ UNCHANGED <<upload, noContent, object>>
      BY <2>14 DEF Schedule, ConfirmationAfter
    <3>2. row.status = "PENDING"
      BY DEF NoTask
    <3> HIDE DEF row
    <3>3. task'[u] = row /\ \A v \in Uploads \ {u} : task'[v] = task[v]
      BY <2>0, <3>1 DEF TypeOK
    <3>4. u \in Due
      BY <2>14 DEF Schedule, IsDue, IsRetentionExpired, Due
    <3>5. \A v \in Uploads : DueKept(v)
      BY <3>1 DEF DueKept
    <3>6. \A v \in Uploads \ {u} : PhaseKept(v)
      BY <3>1, <3>3 DEF PhaseKept
    <3>7. Phase[u] = "KEPT" /\ Phase'[u] = "DOOMED"
      BY <3>1, <3>2, <3>3 DEF Phase
    <3>8. Phase' = [Phase EXCEPT ![u] = "DOOMED"]
      BY <3>6, <3>7, PhaseStep
    <3> QED
      BY <3>1, <3>4, <3>5, <3>7, <3>8, DueSame DEF Lifecycle!Doom
  <2>15. ASSUME Tick
         PROVE  Lifecycle!BecomeDue
    <3>1. ASSUME NEW u \in Uploads
          PROVE  /\ upload'[u].status = upload[u].status
                 /\ upload'[u].deleted = upload[u].deleted
                 /\ upload[u].retention = 0 => upload'[u].retention = 0
                 /\ task'[u].status = task[u].status
      <4>1. upload[u] \in Upload /\ task[u] \in Task
        BY <2>0 DEF TypeOK
      <4>2. /\ upload'[u] = [upload[u] EXCEPT !.quiet = Passed(@), !.retention = Passed(@)]
            /\ task'[u] = [task[u] EXCEPT !.next = Passed(@), !.lease = Passed(@),
                                          !.confirmation = Passed(@)]
        BY <2>15 DEF Tick
      <4>3. task'[u].status = task[u].status
        BY <4>1, <4>2 DEF Task
      <4>4. /\ upload'[u].status = upload[u].status
            /\ upload'[u].deleted = upload[u].deleted
            /\ upload'[u].retention = Passed(upload[u].retention)
        BY <4>1, <4>2 DEF Upload
      <4> QED
        BY <4>3, <4>4 DEF Passed
    <3>2. object' = object /\ noContent' = noContent
      BY <2>15 DEF Tick
    <3>3. \A u \in Uploads : PhaseKept(u)
      BY <3>1 DEF PhaseKept
    <3>4. Due \subseteq Due' /\ Due' \subseteq Uploads
      BY <3>1, <3>2 DEF Due
    <3> QED
      BY <3>2, <3>3, <3>4, PhaseSame DEF Lifecycle!BecomeDue
  <2> DEFINE Step == Lifecycle!Next \/ UNCHANGED <<Phase, object, Due>>
  <2>16. ASSUME NEW w \in Workers, WorkerStep(w) PROVE Step
    <3>1. ASSUME NEW u \in Uploads, Lifecycle!Erase(u) \/ Lifecycle!Confirm(u)
          PROVE  Lifecycle!Next
      BY <3>1 DEF Lifecycle!Next
    <3> QED
      BY <2>3, <2>4, <2>5, <2>6, <2>7, <2>8, <2>16, <3>1 DEF WorkerStep, EndStep
  <2>17. ASSUME NEW c \in Clients, ClientStep(c) PROVE Step
    <3>1. CASE CompleteUpload(c)
      <4>1. Lifecycle!Keep(client[c].upload) /\ client[c].upload \in Uploads
        BY <2>10, <3>1
      <4> QED
        BY <4>1 DEF Lifecycle!Next
    <3>2. CASE EndRequest(c) \/ \E u \in Uploads : FindStoredObject(c, u)
      BY <2>9, <3>2
    <3> QED
      BY <2>17, <3>1, <3>2 DEF ClientStep
  <2>18. ASSUME NEW u \in Uploads, UploadStep(u) PROVE Step
    <3>1. ASSUME Lifecycle!Store(u) \/ Lifecycle!Doom(u) \/ Lifecycle!BecomeDue
          PROVE  Lifecycle!Next
      BY <3>1 DEF Lifecycle!Next
    <3> QED
      BY <2>11, <2>12, <2>13, <2>14, <2>18, <3>1 DEF UploadStep
  <2>19. ASSUME Tick PROVE Step
    BY <2>15, <2>19 DEF Lifecycle!Next
  <2>20. CASE Next
    <3>1. CASE \E w \in Workers : WorkerStep(w)
      BY <2>16, <3>1
    <3>2. CASE \E c \in Clients : ClientStep(c)
      BY <2>17, <3>2
    <3>3. CASE \E u \in Uploads : UploadStep(u)
      BY <2>18, <3>3
    <3> QED
      BY <2>19, <2>20, <3>1, <3>2, <3>3 DEF Next
  <2> QED
    BY <2>1, <2>20 DEF Step
<1>3. [Lifecycle!Next]_<<Phase, object, Due>> => [Lifecycle!Next]_(Lifecycle!vars)
  BY DEF Lifecycle!vars
<1> QED
  BY <1>1, <1>2, <1>3, RetentionInvariant, PTL DEF Spec, ImplementsLifecycle, Lifecycle!Spec
=============================================================================
