------------------------ MODULE FileTransfer_proofs ------------------------
(***************************************************************************)
(* Proofs about FileTransfer, for any number of files, of blocks in them,  *)
(* of transfers and of failures, in both directions.                       *)
(***************************************************************************)
EXTENDS FileTransfer, SequenceTheorems, TLAPS

-----------------------------------------------------------------------------
(* Types.                                                                  *)

Ids == 1..jobs
Names == Files \X {"final", "download"}
Contents == Seq(Int \X Nat)

JobsWith(handles) ==
    [file_num : Nat, file : handles \cup {None}, file_confirmed : BOOLEAN,
     file_is_waiting : BOOLEAN, file_skipped : BOOLEAN,
     default_overwrite_strategy : BOOLEAN \cup {None}, files : BOOLEAN,
     is_last_job : BOOLEAN]

(* Table js has entries in S. *)
IsTable(js, S) == js \in [DOMAIN js -> S]

ReadJobs == JobsWith(Nat)
WriteJobs == JobsWith(Names)

PlainMessages ==
    [kind : {"dir", "error", "digest", "done", "cancel", "send"}, id : Nat, num : Nat]
Blocks == [kind : {"block"}, id : Nat, num : Nat, data : Contents]
Receives == [kind : {"receive"}, id : Nat, num : Nat, resumed : BOOLEAN]
Confirms == [kind : {"confirm"}, id : Nat, num : Nat, overwrite : BOOLEAN]
Messages == PlainMessages \cup Blocks \cup Receives \cup Confirms

TypeInv ==
    /\ upload \in BOOLEAN
    /\ IsTable(read_jobs, ReadJobs)
    /\ IsTable(write_jobs, WriteJobs)
    /\ to_writer \in Seq(Messages) /\ to_reader \in Seq(Messages)
    /\ disk \in [Names -> Contents]
    /\ asked \subseteq Nat \X Files
    /\ saved \in Nat \cup {None}
    /\ jobs \in Nat /\ failures \in Nat
    /\ verdict \in [Files -> {None, "before", "overwrite", "skip"}]
    /\ kept \in [Files -> Contents]
    /\ done \in BOOLEAN /\ broken \in BOOLEAN
    /\ tainted \subseteq Files

-----------------------------------------------------------------------------
(* Which messages of which job can be under way.                           *)

W(p) == to_writer[p]
R(p) == to_reader[p]
At(q) == 1..Len(q)
InW == At(to_writer)
InR == At(to_reader)

IsW(p, kind, i) == W(p).kind = kind /\ W(p).id = i
IsR(p, kind, i) == R(p).kind = kind /\ R(p).id = i

IsToken(p, i) == R(p).kind \in {"digest", "confirm"} /\ R(p).id = i
IsEnd(p, i) == W(p).kind \in {"done", "error", "cancel"} /\ W(p).id = i

WaitsForUser(js, i) == i \in DOMAIN js /\ js[i].is_last_job

(* The host has not heard of job i of the client yet. *)
UploadFresh(i) == WaitsForUser(read_jobs, i) \/ \E p \in InW : IsW(p, "receive", i)
DownloadFresh(i) == WaitsForUser(write_jobs, i) \/ \E p \in InR : IsR(p, "send", i)

(* Job i is what verdict, kept and done are about. *)
Owner(i) ==
    i \in DOMAIN write_jobs \/ (upload /\ i \in DOMAIN read_jobs /\ ~UploadFresh(i))

UploadKinds ==
    /\ \A p \in InW : W(p).kind \in {"receive", "cancel", "digest", "block", "error", "done"}
    /\ \A p \in InR : R(p).kind \in {"digest", "confirm", "error", "done"}

DownloadKinds ==
    /\ \A p \in InW : W(p).kind \in {"dir", "error", "digest", "block", "done"}
    /\ \A p \in InR : R(p).kind \in {"send", "cancel", "confirm"}

IdInv ==
    /\ DOMAIN read_jobs \subseteq Ids /\ DOMAIN write_jobs \subseteq Ids
    /\ \A p \in InW : W(p).id \in Ids
    /\ \A p \in InR : R(p).id \in Ids
    /\ \A q \in asked : q[1] \in Ids
    /\ upload => DOMAIN read_jobs \subseteq {jobs}
    /\ ~upload => DOMAIN write_jobs \subseteq {jobs}

KindInv ==
    /\ upload => UploadKinds
    /\ ~upload => DownloadKinds
    /\ \A p \in InW : W(p).kind \in {"digest", "block"} => W(p).num \in Files
    /\ \A p \in InR : R(p).kind \in {"digest", "confirm"} => R(p).num \in Files

(* What there is not yet of a job the host has not heard of. *)
UploadNew(i) ==
    /\ i \notin DOMAIN write_jobs
    /\ i \in DOMAIN read_jobs => ~read_jobs[i].file_confirmed
    /\ \A p \in InR : ~IsToken(p, i)
    /\ \A q \in asked : q[1] # i
    /\ \A p \in InW : ~IsW(p, "block", i)

UploadFreshInv ==
    /\ \A p \in InW : W(p).kind = "receive" => UploadNew(W(p).id)
    /\ \A i \in DOMAIN read_jobs : read_jobs[i].is_last_job =>
          UploadNew(i) /\ \A p \in InW : W(p).id # i

DownloadNew(i) ==
    /\ i \notin DOMAIN read_jobs
    /\ \A p \in InR : ~IsToken(p, i)
    /\ \A q \in asked : q[1] # i
    /\ \A p \in InW : W(p).id # i

DownloadInv ==
    /\ \A p \in InR : R(p).kind = "send" => DownloadNew(R(p).id)
    /\ \A i \in DOMAIN write_jobs : write_jobs[i].is_last_job =>
          DownloadNew(i) /\ \A p \in InR : R(p).id # i
    /\ \A p, q \in InR : R(p).kind = "send" /\ IsR(q, "send", R(p).id) => p = q
    /\ \A p \in InR : R(p).kind = "cancel" => R(p).id \notin DOMAIN write_jobs

(* The messages of an upload come job after job, and what the connection   *)
(* manager has of a job that is over will be ended by one of them.         *)
Ends(i) == i \in DOMAIN read_jobs \/ \E p \in InW : IsEnd(p, i)

UploadOrder ==
    /\ \A p, q \in InW : p < q => W(p).id <= W(q).id
    /\ \A p, q \in InW : p < q /\ W(q).kind = "receive" => W(p).id # W(q).id
    /\ \A i \in DOMAIN write_jobs, p \in InW : i <= W(p).id

UploadEnds ==
    /\ \A i \in DOMAIN write_jobs : Ends(i)
    /\ \A p \in InW : W(p).kind = "receive" => Ends(W(p).id)

UploadSingle == \A i, k \in DOMAIN write_jobs : i = k

UploadOwnerInv ==
    (jobs \in DOMAIN read_jobs /\ ~UploadFresh(jobs)) =>
        DOMAIN write_jobs \subseteq {jobs} /\ \A p \in InW : W(p).id = jobs

OrderInv ==
    /\ upload => UploadFreshInv /\ UploadOrder /\ UploadEnds /\ UploadSingle /\ UploadOwnerInv
    /\ ~upload => DownloadInv

-----------------------------------------------------------------------------
(* The question about a file is in one place at a time, and while it is    *)
(* there the reader waits for the answer.                                  *)

ReaderInv ==
    \A i \in DOMAIN read_jobs :
        LET job == read_jobs[i]
        IN  /\ job.file # None => job.file_num \in Files /\ job.file <= Size[job.file_num]
            /\ job.file_confirmed \/ job.file_is_waiting => job.file # None

Waits(i, num) ==
    i \in DOMAIN read_jobs =>
        LET job == read_jobs[i]
        IN  /\ job.file_num = num /\ job.file # None
            /\ job.file_is_waiting /\ ~job.file_confirmed

TokenWaits ==
    /\ \A p \in InW : W(p).kind = "digest" => Waits(W(p).id, W(p).num)
    /\ \A p \in InR : IsToken(p, R(p).id) => Waits(R(p).id, R(p).num)
    /\ \A q \in asked : Waits(q[1], q[2])

OneW == \A p, q \in InW : W(p).kind = "digest" /\ IsW(q, "digest", W(p).id) => p = q
OneR == \A p, q \in InR : IsToken(p, R(p).id) /\ IsToken(q, R(p).id) => p = q
OneA == \A q, r \in asked : q[1] = r[1] => q = r
OneWR == \A p \in InW, q \in InR : W(p).kind = "digest" => ~IsToken(q, W(p).id)
OneWA == \A p \in InW, q \in asked : ~IsW(p, "digest", q[1])
OneRA == \A p \in InR, q \in asked : ~IsToken(p, q[1])

OneToken == OneW /\ OneR /\ OneA /\ OneWR /\ OneWA /\ OneRA

(* Where a token of job i is. *)
Asks(i) ==
    \/ \E p \in InW : IsW(p, "digest", i)
    \/ \E p \in InR : IsToken(p, i)
    \/ \E q \in asked : q[1] = i

TokenInv == \A i \in DOMAIN write_jobs : ~upload /\ Asks(i) => i \in DOMAIN read_jobs

-----------------------------------------------------------------------------
(* What has been answered, and what follows from it.                       *)

Answered(f) == verdict[f] \in {"overwrite", "skip"}

AnswersToWriter(i) ==
    \A p \in InW :
        /\ IsW(p, "digest", i) => ~Answered(W(p).num)
        /\ IsW(p, "block", i) => verdict[W(p).num] = "overwrite"

AnswersToReader(i) ==
    \A p \in InR :
        /\ IsR(p, "digest", i) => ~Answered(R(p).num)
        /\ IsR(p, "confirm", i) =>
              verdict[R(p).num] = IF R(p).overwrite THEN "overwrite" ELSE "skip"

AnswersOfUser(i) == \A q \in asked : q[1] = i => ~Answered(q[2])

AnswersOfJob(i) ==
    i \in DOMAIN read_jobs =>
        /\ read_jobs[i].file_confirmed => verdict[read_jobs[i].file_num] = "overwrite"
        /\ \A f \in Files : Answered(f) =>
              /\ f <= read_jobs[i].file_num
              /\ f = read_jobs[i].file_num =>
                    read_jobs[i].file_is_waiting \/ read_jobs[i].file_confirmed

NoAnswers == \A f \in Files : ~Answered(f)

AnsweredFrom(i) ==
    /\ AnswersToWriter(i) /\ AnswersToReader(i) /\ AnswersOfUser(i) /\ AnswersOfJob(i)
    /\ (~upload /\ DownloadFresh(i)) => NoAnswers

AnsweredInv == \A i \in Ids : Owner(i) => AnsweredFrom(i)

WriterInv ==
    \A i \in DOMAIN write_jobs :
        LET job == write_jobs[i]
        IN  /\ job.file # None => verdict[job.file[1]] = "overwrite"
            /\ ~upload /\ job.file_num \in Files => verdict[job.file_num] # "skip"
            /\ upload /\ job.file # None =>
                  job.file_num \in Files /\ verdict[job.file_num] = "overwrite"

DownloadsInv ==
    \A f \in Files \ tainted : disk[<<f, "download">>] # Absent => verdict[f] = "overwrite"

-----------------------------------------------------------------------------
(* Queues: what is taken from the front and put at the end.                *)

(* The first message of a queue is taken. *)
LEMMA Popped ==
    ASSUME NEW q \in Seq(Messages), q # <<>>
    PROVE  /\ Tail(q) \in Seq(Messages) /\ Len(q) \in Nat /\ Len(Tail(q)) = Len(q) - 1
           /\ 1 \in 1..Len(q) /\ Head(q) = q[1] /\ q[1] \in Messages
           /\ \A p \in 1..Len(q) - 1 : p + 1 \in 1..Len(q) /\ Tail(q)[p] = q[p + 1]
<1>1. Len(q) \in Nat /\ Len(q) # 0
    BY EmptySeq, LenProperties
<1>. QED BY <1>1, SMT

(* A message is put at the end of a queue. *)
LEMMA Pushed ==
    ASSUME NEW q \in Seq(Messages), NEW m \in Messages
    PROVE  /\ Append(q, m) \in Seq(Messages) /\ Len(q) \in Nat
           /\ Len(Append(q, m)) = Len(q) + 1
           /\ \A p \in 1..Len(q) : Append(q, m)[p] = q[p]
           /\ Append(q, m)[Len(q) + 1] = m
BY SMT

(* The messages there are. *)
LEMMA MessageTypes ==
    /\ \A kind \in {"dir", "error", "digest", "done", "cancel", "send"}, i, n \in Nat :
          /\ Msg(kind, i, n) \in Messages
          /\ Msg(kind, i, n).kind = kind /\ Msg(kind, i, n).id = i /\ Msg(kind, i, n).num = n
    /\ \A i, n \in Nat, d \in Contents :
          /\ Block(i, n, d) \in Messages
          /\ Block(i, n, d).kind = "block" /\ Block(i, n, d).id = i
          /\ Block(i, n, d).num = n /\ Block(i, n, d).data = d
BY DEF Msg, Block, Messages, PlainMessages, Blocks

(* See MessageTypes. *)
LEMMA BlockMessage ==
    ASSUME NEW i \in Nat, NEW n \in Nat, NEW d \in Contents
    PROVE  /\ Block(i, n, d) \in Messages
           /\ Block(i, n, d).kind = "block" /\ Block(i, n, d).id = i
           /\ Block(i, n, d).num = n /\ Block(i, n, d).data = d
BY MessageTypes

(* See MessageTypes. *)
LEMMA LastMessage ==
    ASSUME NEW kind \in {"done", "error"}, NEW i \in Nat, NEW n \in Nat
    PROVE  /\ Msg(kind, i, n) \in Messages
           /\ Msg(kind, i, n).kind = kind /\ Msg(kind, i, n).id = i /\ Msg(kind, i, n).num = n
BY MessageTypes

(* See MessageTypes. *)
LEMMA ErrorMessage ==
    ASSUME NEW i \in Nat, NEW n \in Nat
    PROVE  /\ Msg("error", i, n) \in Messages
           /\ Msg("error", i, n).kind = "error" /\ Msg("error", i, n).id = i
           /\ Msg("error", i, n).num = n
BY MessageTypes

(* The fields of a message. *)
LEMMA MessageFields ==
    ASSUME NEW m \in Messages
    PROVE  /\ m.id \in Nat /\ m.num \in Nat
           /\ m.kind \in {"dir", "error", "digest", "done", "cancel", "send", "block",
                          "receive", "confirm"}
           /\ m.kind = "block" => m.data \in Contents
           /\ m.kind = "receive" => m.resumed \in BOOLEAN
           /\ m.kind = "confirm" => m.overwrite \in BOOLEAN
BY DEF Messages, PlainMessages, Blocks, Receives, Confirms

-----------------------------------------------------------------------------
(* The operations of TransferJob, field by field.                          *)

(* A job as it begins with file n. *)
IsNew(job, n, known, last) ==
    /\ job.file_num = n /\ job.file = None /\ ~job.file_confirmed /\ ~job.file_is_waiting
    /\ job.files = known /\ job.is_last_job = last

(* new_read and new_write. *)
LEMMA NewJobFields ==
    ASSUME NEW n \in Nat, NEW handles, NEW b \in BOOLEAN
    PROVE  /\ NewJob(n) \in JobsWith(handles)
           /\ [NewJob(n) EXCEPT !.files = b] \in JobsWith(handles)
           /\ [NewJob(n) EXCEPT !.files = b].file_num = n
           /\ [NewJob(n) EXCEPT !.files = b].file = None
           /\ [NewJob(n) EXCEPT !.files = b].file_confirmed = FALSE
           /\ [NewJob(n) EXCEPT !.files = b].file_is_waiting = FALSE
           /\ [NewJob(n) EXCEPT !.files = b].files = b
           /\ [NewJob(n) EXCEPT !.files = b].is_last_job = FALSE
BY DEF NewJob, JobsWith

(* The jobs of a reader or of the connection manager, and of the client    *)
(* that writes.                                                            *)
LEMMA NewJobIsNew ==
    ASSUME NEW n \in Nat, NEW handles
    PROVE  /\ [NewJob(n) EXCEPT !.files = TRUE] \in JobsWith(handles)
           /\ IsNew([NewJob(n) EXCEPT !.files = TRUE], n, TRUE, FALSE)
           /\ [NewJob(n) EXCEPT !.files = FALSE] \in JobsWith(handles)
           /\ IsNew([NewJob(n) EXCEPT !.files = FALSE], n, FALSE, FALSE)
BY DEF NewJob, JobsWith, IsNew

(* See NewJobIsNew: jobs that wait to be resumed. *)
LEMMA LastJobIsNew ==
    ASSUME NEW n \in Nat, NEW handles
    PROVE  /\ [[NewJob(n) EXCEPT !.files = TRUE] EXCEPT !.is_last_job = TRUE] \in JobsWith(handles)
           /\ IsNew([[NewJob(n) EXCEPT !.files = TRUE] EXCEPT !.is_last_job = TRUE], n, TRUE, TRUE)
           /\ [[NewJob(n) EXCEPT !.files = FALSE] EXCEPT !.is_last_job = TRUE] \in JobsWith(handles)
           /\ IsNew([[NewJob(n) EXCEPT !.files = FALSE] EXCEPT !.is_last_job = TRUE], n, FALSE, TRUE)
BY DEF NewJob, JobsWith, IsNew

(* set_file_skipped, set_file_confirmed, next_file. *)
LEMMA SkipFields ==
    ASSUME NEW handles, NEW job \in JobsWith(handles)
    PROVE  /\ set_file_skipped(job) \in JobsWith(handles)
           /\ set_file_skipped(job).file_num = job.file_num + 1
           /\ set_file_skipped(job).file = None
           /\ set_file_skipped(job).file_confirmed = FALSE
           /\ set_file_skipped(job).file_is_waiting = FALSE
           /\ set_file_skipped(job).files = job.files
           /\ set_file_skipped(job).is_last_job = job.is_last_job
<1>. DEFINE n == job.file_num + 1
<1>1. n \in Nat
    BY DEF JobsWith
<1>2. set_file_skipped(job) =
        [job EXCEPT !.file = None, !.file_confirmed = FALSE, !.file_is_waiting = FALSE,
                    !.file_num = n, !.file_skipped = TRUE]
    BY Zenon DEF set_file_skipped
<1>. HIDE DEF n
<1>3. set_file_skipped(job).file_num = n
    BY <1>2 DEF JobsWith
<1>. QED BY <1>1, <1>2, <1>3 DEF JobsWith, n

(* See SkipFields. *)
LEMMA ConfirmedFields ==
    ASSUME NEW handles, NEW job \in JobsWith(handles)
    PROVE  /\ set_file_confirmed(job) \in JobsWith(handles)
           /\ set_file_confirmed(job).file_num = job.file_num
           /\ set_file_confirmed(job).file = job.file
           /\ set_file_confirmed(job).file_confirmed = TRUE
           /\ set_file_confirmed(job).file_is_waiting = job.file_is_waiting
           /\ set_file_confirmed(job).files = job.files
           /\ set_file_confirmed(job).is_last_job = job.is_last_job
BY DEF set_file_confirmed, JobsWith

(* See SkipFields. *)
LEMMA NextFields ==
    ASSUME NEW handles, NEW job \in JobsWith(handles)
    PROVE  /\ next_file(job) \in JobsWith(handles)
           /\ next_file(job).file_num = job.file_num + 1
           /\ next_file(job).file = None
           /\ next_file(job).file_confirmed = FALSE
           /\ next_file(job).file_is_waiting = FALSE
           /\ next_file(job).files = job.files
           /\ next_file(job).is_last_job = job.is_last_job
<1>. DEFINE n == job.file_num + 1
<1>1. n \in Nat
    BY DEF JobsWith
<1>2. next_file(job) = [job EXCEPT !.file_num = n, !.file = None, !.file_confirmed = FALSE,
                                   !.file_is_waiting = FALSE]
    BY Zenon DEF next_file
<1>. HIDE DEF n
<1>3. next_file(job).file_num = n
    BY <1>2 DEF JobsWith
<1>. QED BY <1>1, <1>2, <1>3 DEF JobsWith, n

-----------------------------------------------------------------------------
(* What the steps do to the tables of jobs and to the queues, put so that  *)
(* the proofs below need not know how.                                     *)

Updates(js, js2, i) ==
    /\ DOMAIN js2 = DOMAIN js \cup {i}
    /\ \A k \in DOMAIN js : k # i => js2[k] = js[k]

Removes(js, js2, i) ==
    /\ DOMAIN js2 = DOMAIN js \ {i}
    /\ \A k \in DOMAIN js2 : js2[k] = js[k]

Pops(q, q2) ==
    /\ 1 \in At(q)
    /\ \A p \in At(q) : p \in Nat /\ p >= 1
    /\ \A p \in At(q2) : p \in Nat /\ p + 1 \in At(q) /\ q2[p] = q[p + 1]
    /\ \A p \in At(q) : p # 1 => p - 1 \in At(q2) /\ q2[p - 1] = q[p]

Pushes(q, q2, kind, i, n) ==
    /\ \A p \in At(q) : p \in Nat /\ p < Len(q) + 1 /\ p \in At(q2) /\ q2[p] = q[p]
    /\ \A p \in At(q2) : p # Len(q) + 1 => p \in At(q) /\ q2[p] = q[p]
    /\ Len(q) + 1 \in Nat /\ Len(q) + 1 \in At(q2)
    /\ q2[Len(q) + 1].kind = kind /\ q2[Len(q) + 1].id = i /\ q2[Len(q) + 1].num = n

(* A table with another entry, a changed one, one less. *)
LEMMA PutUpdates ==
    ASSUME NEW S, NEW js, IsTable(js, S), NEW i, NEW job \in S
    PROVE  /\ Updates(js, Put(js, i, job), i) /\ Put(js, i, job)[i] = job
           /\ IsTable(Put(js, i, job), S)
BY DEF Put, Updates, IsTable

(* See PutUpdates. *)
LEMMA ExceptUpdates ==
    ASSUME NEW S, NEW js, IsTable(js, S), NEW i \in DOMAIN js, NEW job \in S
    PROVE  /\ Updates(js, [js EXCEPT ![i] = job], i) /\ [js EXCEPT ![i] = job][i] = job
           /\ IsTable([js EXCEPT ![i] = job], S)
BY DEF Updates, IsTable

(* See PutUpdates. *)
LEMMA RemoveRemoves ==
    ASSUME NEW S, NEW js, IsTable(js, S), NEW i
    PROVE  /\ Removes(js, remove_job(i, js), i)
           /\ IsTable(remove_job(i, js), S)
BY DEF remove_job, Restrict, Removes, IsTable

(* The first message is taken, or one is put at the end. *)
LEMMA TailPops ==
    ASSUME NEW q \in Seq(Messages), q # <<>>
    PROVE  /\ Pops(q, Tail(q)) /\ Tail(q) \in Seq(Messages)
           /\ Head(q) = q[1] /\ q[1] \in Messages
BY Popped, SMT DEF Pops, At

(* See TailPops. *)
LEMMA AppendPushes ==
    ASSUME NEW q \in Seq(Messages), NEW m \in Messages
    PROVE  /\ Pushes(q, Append(q, m), m.kind, m.id, m.num)
           /\ Append(q, m) \in Seq(Messages) /\ Append(q, m)[Len(q) + 1] = m
<1>1. /\ Append(q, m) \in Seq(Messages) /\ Len(q) \in Nat /\ Len(Append(q, m)) = Len(q) + 1
      /\ \A p \in 1..Len(q) : Append(q, m)[p] = q[p]
      /\ Append(q, m)[Len(q) + 1] = m
    BY Pushed
<1>2. /\ \A p \in At(q) : p \in Nat /\ p < Len(q) + 1 /\ p \in At(Append(q, m))
      /\ \A p \in At(Append(q, m)) : p # Len(q) + 1 => p \in At(q)
      /\ Len(q) + 1 \in Nat /\ Len(q) + 1 \in At(Append(q, m))
    BY <1>1 DEF At
<1>. QED BY <1>1, <1>2, Zenon DEF Pushes, At

(* One pass of handle_read_jobs over job i, which sends one message. *)
readerFrame == <<upload, write_jobs, asked, disk, saved, jobs, verdict, kept, done, tainted, broken>>

Timer(i, kind, n) ==
    /\ i \in DOMAIN read_jobs /\ read_jobs[i].file_num \in Files
    /\ ~read_jobs[i].is_last_job /\ ~read_jobs'[i].is_last_job
    /\ Updates(read_jobs, read_jobs', i)
    /\ Pushes(to_writer, to_writer', kind, i, n)
    /\ UNCHANGED readerFrame /\ UNCHANGED to_reader

SendsDigest(i) ==
    /\ Timer(i, "digest", read_jobs[i].file_num)
    /\ \/ read_jobs[i].file = None
       \/ ~read_jobs[i].file_confirmed /\ ~read_jobs[i].file_is_waiting
    /\ read_jobs'[i].file_num = read_jobs[i].file_num /\ read_jobs'[i].file = 0
    /\ ~read_jobs'[i].file_confirmed /\ read_jobs'[i].file_is_waiting

SendsBlock(i) ==
    /\ Timer(i, "block", read_jobs[i].file_num)
    /\ read_jobs[i].file_confirmed /\ read_jobs[i].file # None
    /\ read_jobs[i].file < Size[read_jobs[i].file_num]
    /\ read_jobs'[i].file_num = read_jobs[i].file_num
    /\ read_jobs'[i].file = read_jobs[i].file + 1 /\ read_jobs[i].file \in Nat
    /\ read_jobs'[i].file_confirmed
    /\ read_jobs'[i].file_is_waiting = read_jobs[i].file_is_waiting
    /\ to_writer'[Len(to_writer) + 1].data = << <<read_jobs[i].file_num, read_jobs[i].file + 1>> >>

SendsEnd(i) ==
    /\ Timer(i, "block", read_jobs[i].file_num)
    /\ read_jobs[i].file_confirmed /\ read_jobs[i].file # None
    /\ read_jobs[i].file = Size[read_jobs[i].file_num]
    /\ read_jobs'[i].file_num = read_jobs[i].file_num + 1 /\ read_jobs'[i].file = None
    /\ ~read_jobs'[i].file_confirmed /\ ~read_jobs'[i].file_is_waiting
    /\ to_writer'[Len(to_writer) + 1].data = <<>>

SendsReadError(i) ==
    /\ Timer(i, "error", read_jobs[i].file_num + 1)
    /\ read_jobs[i].file = None \/ read_jobs[i].file_confirmed
    /\ read_jobs'[i].file_num = read_jobs[i].file_num + 1 /\ read_jobs'[i].file = None
    /\ ~read_jobs'[i].file_confirmed /\ ~read_jobs'[i].file_is_waiting

SendsDigestError(i) ==
    /\ Timer(i, "error", read_jobs[i].file_num)
    /\ \/ read_jobs[i].file = None
       \/ ~read_jobs[i].file_confirmed /\ ~read_jobs[i].file_is_waiting
    /\ read_jobs'[i].file_num = read_jobs[i].file_num /\ read_jobs'[i].file = 0
    /\ ~read_jobs'[i].file_confirmed /\ ~read_jobs'[i].file_is_waiting

SendsLast(i, kind) ==
    /\ i \in DOMAIN read_jobs /\ read_jobs[i].file_num \notin Files
    /\ ~read_jobs[i].is_last_job
    /\ ~read_jobs[i].file_confirmed /\ ~read_jobs[i].file_is_waiting
    /\ kind \in {"done", "error"}
    /\ Removes(read_jobs, read_jobs', i)
    /\ Pushes(to_writer, to_writer', kind, i, read_jobs[i].file_num)
    /\ UNCHANGED readerFrame /\ UNCHANGED to_reader

(* The first message of a queue: what the reader, and the writer, gets. *)
Gets(kind, i, n) ==
    /\ Pops(to_reader, to_reader')
    /\ to_reader[1].kind = kind /\ to_reader[1].id = i /\ to_reader[1].num = n

Takes(kind, i, n) ==
    /\ Pops(to_writer, to_writer')
    /\ to_writer[1].kind = kind /\ to_writer[1].id = i /\ to_writer[1].num = n

(* Job after the answer b for file n. *)
IsAnswered(job, job2, n, b) ==
    /\ job2.files = job.files /\ job2.is_last_job = job.is_last_job
    /\ job.file_num # n =>
          /\ job2.file_num = job.file_num /\ job2.file = job.file
          /\ job2.file_confirmed = job.file_confirmed
          /\ job2.file_is_waiting = job.file_is_waiting
    /\ (job.file_num = n /\ b) =>
          /\ job2.file_num = n /\ job2.file = job.file /\ job2.file_confirmed
          /\ job2.file_is_waiting = job.file_is_waiting
    /\ (job.file_num = n /\ ~b) =>
          /\ job2.file_num = n + 1 /\ job2.file = None
          /\ ~job2.file_confirmed /\ ~job2.file_is_waiting

IsDecided(n, b) ==
    /\ verdict'[n] = IF b THEN "overwrite" ELSE "skip"
    /\ \A f \in Files : f # n => verdict'[f] = verdict[f]
    /\ kept'[n] = disk[<<n, "final">>]
    /\ \A f \in Files : f # n => kept'[f] = kept[f]
    /\ done' = done /\ tainted' = tainted

GetsSend(i, n) ==
    /\ Gets("send", i, n)
    /\ Updates(read_jobs, read_jobs', i) /\ IsNew(read_jobs'[i], n, TRUE, FALSE)
    /\ Pushes(to_writer, to_writer', "dir", i, 0)
    /\ UNCHANGED readerFrame

GetsSendInVain(i, n) ==
    /\ Gets("send", i, n)
    /\ Pushes(to_writer, to_writer', "error", i, 0)
    /\ UNCHANGED readerFrame /\ UNCHANGED read_jobs

GetsCancel(i, n) ==
    /\ Gets("cancel", i, n)
    /\ Removes(read_jobs, read_jobs', i)
    /\ UNCHANGED readerFrame /\ UNCHANGED to_writer

GetsConfirm(i, n) ==
    /\ Gets("confirm", i, n)
    /\ i \in DOMAIN read_jobs /\ Updates(read_jobs, read_jobs', i)
    /\ IsAnswered(read_jobs[i], read_jobs'[i], n, to_reader[1].overwrite)
    /\ UNCHANGED readerFrame /\ UNCHANGED to_writer

(* A message that finds no job, or the state of one, which is only shown. *)
GetsOther(kind, i, n) ==
    /\ Gets(kind, i, n)
    /\ kind \in {"done", "error"} \/ (kind \in {"confirm", "digest"} /\ i \notin DOMAIN read_jobs)
    /\ UNCHANGED readerFrame /\ UNCHANGED <<read_jobs, to_writer>>

GetsDigestAsks(i, n) ==
    /\ upload /\ Gets("digest", i, n) /\ i \in DOMAIN read_jobs
    /\ asked' = asked \cup {<<i, n>>}
    /\ UNCHANGED <<upload, read_jobs, write_jobs, to_writer, disk, saved, jobs, verdict, kept,
                   done, tainted, broken>>

GetsDigestKnows(i, n, b) ==
    /\ upload /\ Gets("digest", i, n) /\ i \in DOMAIN read_jobs
    /\ Updates(read_jobs, read_jobs', i)
    /\ IsAnswered(read_jobs[i], read_jobs'[i], n, b)
    /\ IsDecided(n, b)
    /\ UNCHANGED <<upload, asked, write_jobs, to_writer, disk, saved, jobs, broken>>

-----------------------------------------------------------------------------
(* The reader's timer.                                                     *)

(* The tables and the queues. *)
LEMMA Tables ==
    ASSUME TypeInv
    PROVE  /\ IsTable(read_jobs, ReadJobs)
           /\ IsTable(write_jobs, WriteJobs)
           /\ to_writer \in Seq(Messages) /\ to_reader \in Seq(Messages)
BY DEF TypeInv

(* What every step of a read job begins with. *)
LEMMA ReaderHas ==
    ASSUME TypeInv, NEW i \in 1..MaxJobs, Runs(i)
    PROVE  /\ i \in DOMAIN read_jobs /\ i \in Nat /\ read_jobs[i] \in ReadJobs
           /\ read_jobs[i].file_num \in Nat /\ read_jobs[i].file \in Nat \cup {None}
           /\ read_jobs[i].is_last_job = FALSE
           /\ read_jobs[i].file_confirmed \in BOOLEAN /\ read_jobs[i].file_is_waiting \in BOOLEAN
BY DEF TypeInv, IsTable, Runs, ReadJobs, JobsWith

(* What the reader sends when its timer ticks, and its job then. *)
LEMMA RepliesDoes ==
    ASSUME TypeInv, NEW i \in 1..MaxJobs, HasNext(i), NEW job \in ReadJobs,
           job.is_last_job = FALSE, NEW m \in Messages, m.id = i,
           Replies(i, job, m), failures' \in Nat
    PROVE  /\ Timer(i, m.kind, m.num) /\ read_jobs'[i] = job
           /\ to_writer'[Len(to_writer) + 1] = m
           /\ TypeInv'
<1>0. i \in DOMAIN read_jobs /\ read_jobs[i].file_num \in Files /\ read_jobs[i].is_last_job = FALSE
    BY ReaderHas DEF HasNext
<1>1. read_jobs' = [read_jobs EXCEPT ![i] = job] /\ to_writer' = Append(to_writer, m)
    BY DEF Replies
<1>2. IsTable(read_jobs, ReadJobs) /\ to_writer \in Seq(Messages)
    BY DEF TypeInv
<1>3. UNCHANGED readerFrame /\ UNCHANGED to_reader
    BY DEF Replies, readerOnly, readerFrame, historyVars
<1>4. /\ Updates(read_jobs, read_jobs', i) /\ read_jobs'[i] = job
      /\ IsTable(read_jobs', ReadJobs)
    BY <1>0, <1>1, <1>2, ExceptUpdates
<1>5. /\ Pushes(to_writer, to_writer', m.kind, m.id, m.num)
      /\ to_writer' \in Seq(Messages) /\ to_writer'[Len(to_writer) + 1] = m
    BY <1>1, <1>2, AppendPushes
<1>6. TypeInv'
    BY <1>3, <1>4, <1>5 DEF TypeInv, readerFrame
<1>. QED BY <1>0, <1>3, <1>4, <1>5, <1>6 DEF Timer

(* send_current_digest. *)
LEMMA SendDigestDoes ==
    ASSUME TypeInv, NEW i \in 1..MaxJobs, send_current_digest(i)
    PROVE  SendsDigest(i) /\ TypeInv'
<1>. DEFINE old == read_jobs[i]
            job == [old EXCEPT !.file = 0, !.file_confirmed = FALSE, !.file_is_waiting = TRUE]
            m == Msg("digest", i, old.file_num)
<1>1. /\ HasNext(i) /\ old.file_num \in Files
      /\ old.file = None \/ (~old.file_confirmed /\ ~old.file_is_waiting)
      /\ Replies(i, job, m) /\ failures' = failures
    BY Zenon DEF send_current_digest, HasNext
<1>2. i \in Nat /\ old \in ReadJobs /\ old.file_num \in Nat /\ old.is_last_job = FALSE
    BY <1>1, ReaderHas DEF HasNext
<1>3. /\ job \in ReadJobs /\ job.file_num = old.file_num /\ job.file = 0
      /\ job.file_confirmed = FALSE /\ job.file_is_waiting = TRUE /\ job.is_last_job = FALSE
    BY <1>2 DEF ReadJobs, JobsWith
<1>4. m \in Messages /\ m.kind = "digest" /\ m.id = i /\ m.num = old.file_num
    BY <1>2, MessageTypes
<1>. HIDE DEF job, m
<1>5. Timer(i, m.kind, m.num) /\ read_jobs'[i] = job /\ TypeInv'
    BY <1>1, <1>3, <1>4, RepliesDoes DEF TypeInv
<1>. QED BY <1>1, <1>3, <1>4, <1>5 DEF SendsDigest

(* read_block. *)
LEMMA ReadBlockDoes ==
    ASSUME TypeInv, NEW i \in 1..MaxJobs, read_block(i)
    PROVE  SendsBlock(i) /\ TypeInv'
<1>. DEFINE old == read_jobs[i]
            job == [old EXCEPT !.file = old.file + 1]
            data == << <<old.file_num, old.file + 1>> >>
            m == Block(i, old.file_num, data)
<1>1. /\ HasNext(i) /\ old.file_num \in Files /\ old.file # None /\ old.file_confirmed
      /\ old.file < Size[old.file_num]
      /\ Replies(i, job, m) /\ failures' = failures
    BY Zenon DEF read_block, HasNext
<1>2. /\ i \in Nat /\ old \in ReadJobs /\ old.file_num \in Nat /\ old.file \in Nat
      /\ old.is_last_job = FALSE /\ old.file_confirmed = TRUE
    BY <1>1, ReaderHas DEF HasNext
<1>3. /\ job \in ReadJobs /\ job.file_num = old.file_num /\ job.file = old.file + 1
      /\ job.file_confirmed = TRUE /\ job.file_is_waiting = old.file_is_waiting
      /\ job.is_last_job = FALSE
  <2>. DEFINE n == old.file + 1
  <2>1. n \in Nat
    BY <1>2
  <2>2. job = [old EXCEPT !.file = n]
    OBVIOUS
  <2>. HIDE DEF n
  <2>3. job.file = n
    BY <1>2, <2>2 DEF ReadJobs, JobsWith
  <2>. QED BY <1>2, <2>1, <2>2, <2>3 DEF ReadJobs, JobsWith, n
<1>4. data \in Contents
    BY <1>2 DEF Contents
<1>. HIDE DEF job, data
<1>5. m \in Messages /\ m.kind = "block" /\ m.id = i /\ m.num = old.file_num /\ m.data = data
    BY <1>2, <1>4, MessageTypes
<1>. HIDE DEF m
<1>6. /\ Timer(i, m.kind, m.num) /\ read_jobs'[i] = job /\ TypeInv'
      /\ to_writer'[Len(to_writer) + 1] = m
    BY <1>1, <1>3, <1>5, RepliesDoes DEF TypeInv
<1>. QED BY <1>1, <1>2, <1>3, <1>5, <1>6, Zenon DEF SendsBlock, data

(* read_end. *)
LEMMA ReadEndDoes ==
    ASSUME TypeInv, NEW i \in 1..MaxJobs, read_end(i)
    PROVE  SendsEnd(i) /\ TypeInv'
<1>. DEFINE old == read_jobs[i]
            job == next_file(old)
            m == Block(i, old.file_num, <<>>)
<1>1. /\ HasNext(i) /\ old.file_num \in Files /\ old.file # None /\ old.file_confirmed
      /\ old.file = Size[old.file_num]
      /\ Replies(i, job, m) /\ failures' = failures
    BY Zenon DEF read_end, HasNext
<1>2. i \in Nat /\ old \in ReadJobs /\ old.file_num \in Nat /\ old.is_last_job = FALSE
    BY <1>1, ReaderHas DEF HasNext
<1>3. /\ job \in ReadJobs /\ job.file_num = old.file_num + 1 /\ job.file = None
      /\ job.file_confirmed = FALSE /\ job.file_is_waiting = FALSE /\ job.is_last_job = FALSE
    BY <1>2, NextFields, Zenon DEF ReadJobs
<1>4. <<>> \in Contents
    BY DEF Contents
<1>5. m \in Messages /\ m.kind = "block" /\ m.id = i /\ m.num = old.file_num /\ m.data = <<>>
    BY <1>2, <1>4, BlockMessage
<1>. HIDE DEF job, m
<1>6. failures' \in Nat
    BY <1>1 DEF TypeInv
<1>7. /\ Timer(i, m.kind, m.num) /\ read_jobs'[i] = job /\ TypeInv'
      /\ to_writer'[Len(to_writer) + 1] = m
    BY <1>1, <1>3, <1>5, <1>6, RepliesDoes
<1>. QED BY <1>1, <1>3, <1>5, <1>7, Zenon DEF SendsEnd

(* read_fails. *)
LEMMA ReadFailsDoes ==
    ASSUME TypeInv, NEW i \in 1..MaxJobs, read_fails(i)
    PROVE  SendsReadError(i) /\ TypeInv'
<1>. DEFINE old == read_jobs[i]
            job == next_file(old)
            m == Msg("error", i, job.file_num)
<1>1. /\ HasNext(i) /\ old.file_num \in Files /\ (old.file = None \/ old.file_confirmed)
      /\ Replies(i, job, m) /\ failures' = failures + 1
    BY Zenon DEF read_fails, HasNext
<1>2. i \in Nat /\ old \in ReadJobs /\ old.file_num \in Nat /\ old.is_last_job = FALSE
    BY <1>1, ReaderHas DEF HasNext
<1>3. /\ job \in ReadJobs /\ job.file_num = old.file_num + 1 /\ job.file = None
      /\ job.file_confirmed = FALSE /\ job.file_is_waiting = FALSE /\ job.is_last_job = FALSE
    BY <1>2, NextFields, Zenon DEF ReadJobs
<1>. HIDE DEF job
<1>4. job.file_num \in Nat
    BY <1>2, <1>3
<1>5. m \in Messages /\ m.kind = "error" /\ m.id = i /\ m.num = old.file_num + 1
    BY <1>2, <1>3, <1>4, ErrorMessage
<1>. HIDE DEF m
<1>6. failures' \in Nat
    BY <1>1 DEF TypeInv
<1>7. /\ Timer(i, m.kind, m.num) /\ read_jobs'[i] = job /\ TypeInv'
    BY <1>1, <1>3, <1>5, <1>6, RepliesDoes
<1>. QED BY <1>1, <1>3, <1>5, <1>7, Zenon DEF SendsReadError

(* digest_fails. *)
LEMMA DigestFailsDoes ==
    ASSUME TypeInv, NEW i \in 1..MaxJobs, digest_fails(i)
    PROVE  SendsDigestError(i) /\ TypeInv'
<1>. DEFINE old == read_jobs[i]
            job == [old EXCEPT !.file = 0, !.file_confirmed = FALSE, !.file_is_waiting = FALSE]
            m == Msg("error", i, old.file_num)
<1>1. /\ HasNext(i) /\ old.file_num \in Files
      /\ old.file = None \/ (~old.file_confirmed /\ ~old.file_is_waiting)
      /\ Replies(i, job, m) /\ failures' = failures + 1
    BY Zenon DEF digest_fails, HasNext
<1>2. i \in Nat /\ old \in ReadJobs /\ old.file_num \in Nat /\ old.is_last_job = FALSE
    BY <1>1, ReaderHas DEF HasNext
<1>3. /\ job \in ReadJobs /\ job.file_num = old.file_num /\ job.file = 0
      /\ job.file_confirmed = FALSE /\ job.file_is_waiting = FALSE /\ job.is_last_job = FALSE
    BY <1>2 DEF ReadJobs, JobsWith
<1>4. m \in Messages /\ m.kind = "error" /\ m.id = i /\ m.num = old.file_num
    BY <1>2, MessageTypes
<1>. HIDE DEF job, m
<1>5. failures' \in Nat
    BY <1>1 DEF TypeInv
<1>6. Timer(i, m.kind, m.num) /\ read_jobs'[i] = job /\ TypeInv'
    BY <1>1, <1>3, <1>4, <1>5, RepliesDoes
<1>. QED BY <1>1, <1>3, <1>4, <1>6 DEF SendsDigestError

(* read_past_end. *)
LEMMA PastEndDoes ==
    ASSUME TypeInv, NEW i \in 1..MaxJobs, read_past_end(i)
    PROVE  (\E kind \in {"done", "error"} : SendsLast(i, kind)) /\ TypeInv'
<1>. DEFINE old == read_jobs[i]
            kind == IF job_skipped(old) THEN "error" ELSE "done"
            m == Msg(kind, i, old.file_num)
<1>1. /\ Runs(i) /\ old.file_num \notin Files /\ ~old.file_confirmed /\ ~old.file_is_waiting
      /\ read_jobs' = remove_job(i, read_jobs) /\ to_writer' = Append(to_writer, m)
      /\ UNCHANGED <<readerOnly, to_reader, failures>>
    BY Zenon DEF read_past_end, job_completed
<1>2. i \in DOMAIN read_jobs /\ i \in Nat /\ old.file_num \in Nat /\ old.is_last_job = FALSE
    BY <1>1, ReaderHas
<1>3. kind \in {"done", "error"}
    OBVIOUS
<1>. HIDE DEF kind
<1>4. m \in Messages /\ m.kind = kind /\ m.id = i /\ m.num = old.file_num
    BY <1>2, <1>3, LastMessage
<1>. HIDE DEF m
<1>5. UNCHANGED readerFrame /\ to_reader' = to_reader /\ failures' = failures
    BY <1>1 DEF readerOnly, readerFrame, historyVars
<1>6. Removes(read_jobs, read_jobs', i) /\ IsTable(read_jobs', ReadJobs)
    BY <1>1, RemoveRemoves DEF TypeInv
<1>7. Pushes(to_writer, to_writer', m.kind, m.id, m.num) /\ to_writer' \in Seq(Messages)
    BY <1>1, <1>4, AppendPushes DEF TypeInv
<1>8. TypeInv'
    BY <1>5, <1>6, <1>7 DEF TypeInv, readerFrame
<1>9. SendsLast(i, kind)
    BY <1>1, <1>2, <1>3, <1>4, <1>5, <1>6, <1>7, Zenon DEF SendsLast
<1>. QED BY <1>3, <1>8, <1>9

-----------------------------------------------------------------------------
(* What the reader gets.                                                   *)

(* The first message to the reader. *)
LEMMA ReceiveDoes ==
    ASSUME TypeInv, Receive, NEW kind, Head(to_reader).kind = kind
    PROVE  /\ Gets(kind, to_reader[1].id, to_reader[1].num)
           /\ Head(to_reader) = to_reader[1] /\ to_reader[1] \in Messages
           /\ to_reader[1].id \in Nat /\ to_reader[1].num \in Nat
           /\ 1 \in InR /\ to_reader' \in Seq(Messages)
<1>1. to_reader \in Seq(Messages) /\ to_reader # <<>> /\ to_reader' = Tail(to_reader)
    BY DEF TypeInv, Receive
<1>2. /\ Pops(to_reader, to_reader') /\ to_reader' \in Seq(Messages)
      /\ Head(to_reader) = to_reader[1] /\ to_reader[1] \in Messages
    BY <1>1, TailPops
<1>3. 1 \in InR
    BY <1>2 DEF Pops, InR
<1>. QED BY <1>2, <1>3, MessageFields DEF Gets

(* confirm: only the file the job is at is answered. *)
LEMMA ConfirmFields ==
    ASSUME NEW handles, NEW job \in JobsWith(handles), NEW n, NEW b \in BOOLEAN
    PROVE  confirm(job, n, b) \in JobsWith(handles) /\ IsAnswered(job, confirm(job, n, b), n, b)
<1>1. CASE job.file_num # n
  <2>1. confirm(job, n, b) = job
    BY <1>1, Zenon DEF confirm
  <2>. QED BY <1>1, <2>1 DEF IsAnswered
<1>2. CASE job.file_num = n /\ b
  <2>1. confirm(job, n, b) = set_file_confirmed(job)
    BY <1>2, Zenon DEF confirm
  <2>2. set_file_confirmed(job) \in JobsWith(handles)
    BY ConfirmedFields
  <2>3. IsAnswered(job, set_file_confirmed(job), n, b)
    BY <1>2, ConfirmedFields DEF IsAnswered
  <2>. QED BY <2>1, <2>2, <2>3, Zenon
<1>3. CASE job.file_num = n /\ ~b
  <2>1. confirm(job, n, b) = set_file_skipped(job)
    BY <1>3, Zenon DEF confirm
  <2>2. set_file_skipped(job) \in JobsWith(handles)
    BY SkipFields
  <2>3. IsAnswered(job, set_file_skipped(job), n, b)
    BY <1>3, SkipFields DEF IsAnswered
  <2>. QED BY <2>1, <2>2, <2>3, Zenon
<1>. QED BY <1>1, <1>2, <1>3

(* An answer that is also remembered. *)
LEMMA ConfirmAnswers ==
    ASSUME NEW handles, NEW job \in JobsWith(handles), NEW n, NEW b \in BOOLEAN,
           NEW strategy \in BOOLEAN \cup {None}
    PROVE  /\ confirm([job EXCEPT !.default_overwrite_strategy = strategy], n, b)
                 \in JobsWith(handles)
           /\ IsAnswered(job, confirm([job EXCEPT !.default_overwrite_strategy = strategy], n, b),
                         n, b)
<1>. DEFINE job2 == [job EXCEPT !.default_overwrite_strategy = strategy]
<1>1. /\ job2 \in JobsWith(handles) /\ job2.file_num = job.file_num /\ job2.file = job.file
      /\ job2.file_confirmed = job.file_confirmed /\ job2.file_is_waiting = job.file_is_waiting
      /\ job2.files = job.files /\ job2.is_last_job = job.is_last_job
    BY DEF JobsWith
<1>. HIDE DEF job2
<1>2. confirm(job2, n, b) \in JobsWith(handles)
    BY <1>1, ConfirmFields
<1>3. IsAnswered(job2, confirm(job2, n, b), n, b)
    BY <1>1, ConfirmFields
<1>4. IsAnswered(job, confirm(job2, n, b), n, b)
    BY <1>1, <1>3, Zenon DEF IsAnswered
<1>. QED BY <1>2, <1>4 DEF job2

(* A decision about a file. *)
LEMMA DecidedDoes ==
    ASSUME TypeInv, NEW n \in Files, NEW b \in BOOLEAN, Decided(n, b)
    PROVE  /\ IsDecided(n, b)
           /\ verdict' \in [Files -> {None, "before", "overwrite", "skip"}]
           /\ kept' \in [Files -> Contents] /\ done' \in BOOLEAN /\ tainted' \subseteq Files
<1>1. /\ verdict' = [verdict EXCEPT ![n] = IF b THEN "overwrite" ELSE "skip"]
      /\ kept' = [kept EXCEPT ![n] = disk[<<n, "final">>]]
      /\ done' = done /\ tainted' = tainted
    BY DEF Decided
<1>2. /\ verdict \in [Files -> {None, "before", "overwrite", "skip"}]
      /\ kept \in [Files -> Contents] /\ disk[<<n, "final">>] \in Contents
      /\ done \in BOOLEAN /\ tainted \subseteq Files
    BY DEF TypeInv, Names
<1>3. (IF b THEN "overwrite" ELSE "skip") \in {None, "before", "overwrite", "skip"}
    OBVIOUS
<1>. QED BY <1>1, <1>2, <1>3 DEF IsDecided

(* on_send. *)
LEMMA OnSendDoes ==
    ASSUME TypeInv, on_send
    PROVE  (\E i, n \in Nat : GetsSend(i, n)) /\ TypeInv'
<1>. DEFINE m == to_reader[1]
            job == [NewJob(m.num) EXCEPT !.files = TRUE]
            dir == Msg("dir", m.id, 0)
<1>1. /\ Gets("send", m.id, m.num) /\ Head(to_reader) = m /\ m.id \in Nat /\ m.num \in Nat
      /\ to_reader' \in Seq(Messages)
    BY ReceiveDoes DEF on_send
<1>2. /\ read_jobs' = Put(read_jobs, m.id, job) /\ to_writer' = Append(to_writer, dir)
      /\ UNCHANGED <<readerOnly, failures>>
    BY <1>1, Zenon DEF on_send
<1>3. job \in ReadJobs
    BY <1>1, NewJobFields DEF ReadJobs
<1>3a. IsNew(job, m.num, TRUE, FALSE)
    BY <1>1, NewJobFields DEF IsNew
<1>4. dir \in Messages /\ dir.kind = "dir" /\ dir.id = m.id /\ dir.num = 0
    BY <1>1, MessageTypes
<1>. HIDE DEF job, dir
<1>5. /\ Updates(read_jobs, read_jobs', m.id) /\ read_jobs'[m.id] = job
      /\ IsTable(read_jobs', ReadJobs)
    BY <1>2, <1>3, PutUpdates, Tables
<1>6. Pushes(to_writer, to_writer', "dir", m.id, 0) /\ to_writer' \in Seq(Messages)
    BY <1>2, <1>4, AppendPushes DEF TypeInv
<1>7. UNCHANGED readerFrame /\ failures' = failures
    BY <1>2 DEF readerOnly, readerFrame, historyVars
<1>8. TypeInv'
    BY <1>1, <1>5, <1>6, <1>7 DEF TypeInv, readerFrame
<1>9. GetsSend(m.id, m.num)
    BY <1>1, <1>3a, <1>5, <1>6, <1>7, Zenon DEF GetsSend
<1>. QED BY <1>1, <1>8, <1>9

(* on_send_fails. *)
LEMMA OnSendFailsDoes ==
    ASSUME TypeInv, on_send_fails
    PROVE  (\E i, n \in Nat : GetsSendInVain(i, n)) /\ TypeInv'
<1>. DEFINE m == to_reader[1]
            error == Msg("error", m.id, 0)
<1>1. /\ Gets("send", m.id, m.num) /\ Head(to_reader) = m /\ m.id \in Nat /\ m.num \in Nat
      /\ to_reader' \in Seq(Messages)
    BY ReceiveDoes DEF on_send_fails
<1>2. /\ to_writer' = Append(to_writer, error) /\ failures' = failures + 1
      /\ UNCHANGED <<readerOnly, read_jobs>>
    BY <1>1, Zenon DEF on_send_fails
<1>4. error \in Messages /\ error.kind = "error" /\ error.id = m.id /\ error.num = 0
    BY <1>1, ErrorMessage
<1>. HIDE DEF error
<1>6. Pushes(to_writer, to_writer', "error", m.id, 0) /\ to_writer' \in Seq(Messages)
    BY <1>2, <1>4, AppendPushes DEF TypeInv
<1>7. UNCHANGED readerFrame /\ read_jobs' = read_jobs
    BY <1>2 DEF readerOnly, readerFrame, historyVars
<1>8. TypeInv'
    BY <1>1, <1>2, <1>6, <1>7 DEF TypeInv, readerFrame
<1>9. GetsSendInVain(m.id, m.num)
    BY <1>1, <1>6, <1>7, Zenon DEF GetsSendInVain
<1>. QED BY <1>1, <1>8, <1>9

(* on_cancel. *)
LEMMA OnCancelDoes ==
    ASSUME TypeInv, on_cancel
    PROVE  (\E i, n \in Nat : GetsCancel(i, n)) /\ TypeInv'
<1>. DEFINE m == to_reader[1]
<1>1. /\ Gets("cancel", m.id, m.num) /\ Head(to_reader) = m /\ m.id \in Nat /\ m.num \in Nat
      /\ to_reader' \in Seq(Messages)
    BY ReceiveDoes DEF on_cancel
<1>2. /\ read_jobs' = remove_job(m.id, read_jobs)
      /\ UNCHANGED <<readerOnly, failures, to_writer>>
    BY <1>1, Zenon DEF on_cancel
<1>3. Removes(read_jobs, read_jobs', m.id) /\ IsTable(read_jobs', ReadJobs)
    BY <1>2, RemoveRemoves DEF TypeInv
<1>4. UNCHANGED readerFrame /\ to_writer' = to_writer /\ failures' = failures
    BY <1>2 DEF readerOnly, readerFrame, historyVars
<1>5. TypeInv'
    BY <1>1, <1>3, <1>4 DEF TypeInv, readerFrame
<1>6. GetsCancel(m.id, m.num)
    BY <1>1, <1>3, <1>4, Zenon DEF GetsCancel
<1>. QED BY <1>1, <1>5, <1>6

(* on_send_confirm. *)
LEMMA OnSendConfirmDoes ==
    ASSUME TypeInv, on_send_confirm
    PROVE  /\ \E i, n \in Nat : GetsConfirm(i, n) \/ GetsOther("confirm", i, n)
           /\ TypeInv'
<1>. DEFINE m == to_reader[1]
            job == confirm(read_jobs[m.id], m.num, m.overwrite)
<1>1. /\ Gets("confirm", m.id, m.num) /\ Head(to_reader) = m /\ m.id \in Nat /\ m.num \in Nat
      /\ to_reader' \in Seq(Messages) /\ m.overwrite \in BOOLEAN
    BY ReceiveDoes, MessageFields DEF on_send_confirm
<1>2. /\ read_jobs' = IF m.id \in DOMAIN read_jobs
                      THEN [read_jobs EXCEPT ![m.id] = job] ELSE read_jobs
      /\ UNCHANGED <<readerOnly, failures, to_writer>>
    BY <1>1, Zenon DEF on_send_confirm
<1>3. UNCHANGED readerFrame /\ to_writer' = to_writer /\ failures' = failures
    BY <1>2 DEF readerOnly, readerFrame, historyVars
<1>4. CASE m.id \in DOMAIN read_jobs
  <2>1. read_jobs[m.id] \in ReadJobs
    BY <1>4 DEF TypeInv, IsTable
  <2>2. job \in ReadJobs
    BY <1>1, <2>1, ConfirmFields DEF ReadJobs
  <2>2a. IsAnswered(read_jobs[m.id], job, m.num, m.overwrite)
    BY <1>1, <2>1, ConfirmFields DEF ReadJobs
  <2>. HIDE DEF job
  <2>3. /\ Updates(read_jobs, read_jobs', m.id) /\ read_jobs'[m.id] = job
        /\ IsTable(read_jobs', ReadJobs)
    BY <1>2, <1>4, <2>2, ExceptUpdates, Tables
  <2>4. TypeInv'
    BY <1>1, <1>3, <2>3 DEF TypeInv, readerFrame
  <2>5. GetsConfirm(m.id, m.num)
    BY <1>1, <1>3, <1>4, <2>2a, <2>3, Zenon DEF GetsConfirm
  <2>. QED BY <1>1, <2>4, <2>5
<1>5. CASE m.id \notin DOMAIN read_jobs
  <2>1. read_jobs' = read_jobs
    BY <1>2, <1>5
  <2>2. TypeInv'
    BY <1>1, <1>3, <2>1 DEF TypeInv, readerFrame
  <2>3. GetsOther("confirm", m.id, m.num)
    BY <1>1, <1>3, <1>5, <2>1 DEF GetsOther
  <2>. QED BY <1>1, <2>2, <2>3
<1>. QED BY <1>4, <1>5

(* on_job_status. *)
LEMMA OnJobStatusDoes ==
    ASSUME TypeInv, on_job_status
    PROVE  /\ \E i, n \in Nat, kind \in {"done", "error"} : GetsOther(kind, i, n)
           /\ TypeInv'
<1>. DEFINE m == to_reader[1]
<1>1. PICK kind \in {"done", "error"} : Head(to_reader).kind = kind
    BY DEF on_job_status
<1>2. /\ Gets(kind, m.id, m.num) /\ m.id \in Nat /\ m.num \in Nat /\ to_reader' \in Seq(Messages)
    BY <1>1, ReceiveDoes DEF on_job_status
<1>3. UNCHANGED readerFrame /\ UNCHANGED <<read_jobs, to_writer>> /\ failures' = failures
    BY DEF on_job_status, readerOnly, readerFrame, historyVars
<1>4. TypeInv'
    BY <1>2, <1>3 DEF TypeInv, readerFrame
<1>5. GetsOther(kind, m.id, m.num)
    BY <1>2, <1>3, Zenon DEF GetsOther
<1>. QED BY <1>2, <1>4, <1>5

(* on_digest_upload. *)
LEMMA OnDigestUploadDoes ==
    ASSUME TypeInv, KindInv, on_digest_upload
    PROVE  /\ \E i, n \in Nat : \/ GetsOther("digest", i, n) \/ GetsDigestAsks(i, n)
                                \/ \E b \in BOOLEAN : GetsDigestKnows(i, n, b)
           /\ TypeInv'
<1>. DEFINE m == to_reader[1]
            strategy == read_jobs[m.id].default_overwrite_strategy
            job == confirm(read_jobs[m.id], m.num, strategy)
<1>1. /\ Gets("digest", m.id, m.num) /\ Head(to_reader) = m /\ m.id \in Nat /\ m.num \in Nat
      /\ to_reader' \in Seq(Messages) /\ 1 \in InR /\ m.kind = "digest"
    BY ReceiveDoes DEF on_digest_upload, Gets
<1>2. m.num \in Files
    BY <1>1, Zenon DEF KindInv, R
<1>3. /\ upload
      /\ UNCHANGED <<clientOnly, write_jobs, to_writer, disk, saved, jobs>>
      /\ IF m.id \notin DOMAIN read_jobs THEN UNCHANGED <<read_jobs, asked, historyVars>>
         ELSE IF strategy = None
         THEN asked' = asked \cup {<<m.id, m.num>>} /\ UNCHANGED <<read_jobs, historyVars>>
         ELSE /\ read_jobs' = [read_jobs EXCEPT ![m.id] = job]
              /\ Decided(m.num, strategy) /\ UNCHANGED asked
    BY <1>1, Zenon DEF on_digest_upload
<1>4. CASE m.id \notin DOMAIN read_jobs
  <2>1. UNCHANGED readerFrame /\ UNCHANGED <<read_jobs, to_writer>> /\ failures' = failures
    BY <1>3, <1>4 DEF clientOnly, readerFrame, historyVars
  <2>2. TypeInv'
    BY <1>1, <2>1 DEF TypeInv, readerFrame
  <2>3. GetsOther("digest", m.id, m.num)
    BY <1>1, <1>4, <2>1 DEF GetsOther
  <2>. QED BY <1>1, <2>2, <2>3
<1>5. CASE m.id \in DOMAIN read_jobs /\ strategy = None
  <2>. HIDE DEF strategy
  <2>1. /\ asked' = asked \cup {<<m.id, m.num>>} /\ failures' = failures
        /\ UNCHANGED <<upload, read_jobs, write_jobs, to_writer, disk, saved, jobs, verdict, kept,
                       done, tainted, broken>>
    BY <1>3, <1>5 DEF clientOnly, historyVars
  <2>2. TypeInv'
    BY <1>1, <1>2, <2>1 DEF TypeInv
  <2>3. GetsDigestAsks(m.id, m.num)
    BY <1>1, <1>3, <1>5, <2>1, Zenon DEF GetsDigestAsks
  <2>. QED BY <1>1, <2>2, <2>3
<1>6. CASE m.id \in DOMAIN read_jobs /\ strategy # None
  <2>1. read_jobs[m.id] \in ReadJobs /\ strategy \in BOOLEAN
    BY <1>6 DEF TypeInv, IsTable, ReadJobs, JobsWith
  <2>2. /\ read_jobs' = [read_jobs EXCEPT ![m.id] = job] /\ Decided(m.num, strategy)
        /\ failures' = failures
        /\ UNCHANGED <<upload, asked, write_jobs, to_writer, disk, saved, jobs, broken>>
    BY <1>3, <1>6, Zenon DEF clientOnly
  <2>. HIDE DEF strategy
  <2>3. job \in ReadJobs
    BY <2>1, ConfirmFields DEF ReadJobs
  <2>3a. IsAnswered(read_jobs[m.id], job, m.num, strategy)
    BY <2>1, ConfirmFields DEF ReadJobs
  <2>. HIDE DEF job
  <2>4. /\ Updates(read_jobs, read_jobs', m.id) /\ read_jobs'[m.id] = job
        /\ IsTable(read_jobs', ReadJobs)
    <3>1. read_jobs' = [read_jobs EXCEPT ![m.id] = job] /\ m.id \in DOMAIN read_jobs
      BY <1>6, <2>2, Zenon
    <3>. QED BY <2>3, <3>1, ExceptUpdates, Tables
  <2>5. /\ IsDecided(m.num, strategy)
        /\ verdict' \in [Files -> {None, "before", "overwrite", "skip"}]
        /\ kept' \in [Files -> Contents] /\ done' \in BOOLEAN /\ tainted' \subseteq Files
    BY <1>2, <2>1, <2>2, DecidedDoes
  <2>6. TypeInv'
    BY <1>1, <2>2, <2>4, <2>5 DEF TypeInv
  <2>7. GetsDigestKnows(m.id, m.num, strategy)
    BY <1>1, <1>3, <1>6, <2>2, <2>3a, <2>4, <2>5, Zenon DEF GetsDigestKnows
  <2>. QED BY <1>1, <2>1, <2>6, <2>7
<1>. QED BY <1>4, <1>5, <1>6

-----------------------------------------------------------------------------
(* What the writer gets.                                                   *)

(* The writer answers, if it is the connection manager. *)
Told(kind, i, n) ==
    IF upload THEN Pushes(to_reader, to_reader', kind, i, n) ELSE to_reader' = to_reader

TakesOther(kind, i, n) ==
    /\ Takes(kind, i, n) /\ kind # "receive" /\ i \notin DOMAIN write_jobs
    /\ UNCHANGED <<upload, read_jobs, write_jobs, to_reader, asked, disk, saved, jobs, verdict,
                   kept, done, tainted, broken>>

TakesReceive(i, n) ==
    /\ Takes("receive", i, n)
    /\ Updates(write_jobs, write_jobs', i) /\ IsNew(write_jobs'[i], n, TRUE, FALSE)
    /\ disk' \in {disk} \cup Directories /\ NewHistory(n)
    /\ UNCHANGED <<upload, read_jobs, to_reader, asked, saved, jobs, broken>>

TakesCancel(i, n) ==
    /\ Takes("cancel", i, n) /\ i \in DOMAIN write_jobs
    /\ Removes(write_jobs, write_jobs', i)
    /\ disk' = remove_download_file(write_jobs[i])
    /\ UNCHANGED <<upload, read_jobs, to_reader, asked, saved, jobs, verdict, kept, done,
                   tainted, broken>>

TakesDone(i, n) ==
    /\ Takes("done", i, n) /\ i \in DOMAIN write_jobs
    /\ Removes(write_jobs, write_jobs', i)
    /\ disk' = modify_time(write_jobs[i]) /\ done' = TRUE
    /\ Told("done", i, n)
    /\ UNCHANGED <<upload, read_jobs, asked, saved, jobs, verdict, kept, tainted, broken>>

TakesError(i, n) ==
    /\ Takes("error", i, n) /\ i \in DOMAIN write_jobs
    /\ Removes(write_jobs, write_jobs', i)
    /\ Told("error", i, n)
    /\ UNCHANGED <<upload, read_jobs, asked, disk, saved, jobs, verdict, kept, done, tainted,
                   broken>>

TakesDir(i, n) ==
    /\ Takes("dir", i, n) /\ i \in DOMAIN write_jobs
    /\ Updates(write_jobs, write_jobs', i)
    /\ write_jobs'[i].file_num = write_jobs[i].file_num
    /\ write_jobs'[i].file = write_jobs[i].file /\ write_jobs'[i].files
    /\ write_jobs'[i].is_last_job = write_jobs[i].is_last_job
    /\ UNCHANGED <<upload, read_jobs, to_reader, asked, disk, saved, jobs, verdict, kept, done,
                   tainted, broken>>

TakesDigestAsks(i, n) ==
    /\ ~upload /\ Takes("digest", i, n) /\ i \in DOMAIN write_jobs
    /\ asked' = asked \cup {<<i, n>>}
    /\ UNCHANGED <<upload, read_jobs, write_jobs, to_reader, disk, saved, jobs, verdict, kept,
                   done, tainted, broken>>

TakesDigestKnows(i, n, b) ==
    /\ ~upload /\ Takes("digest", i, n) /\ i \in DOMAIN write_jobs
    /\ Updates(write_jobs, write_jobs', i)
    /\ IsAnswered(write_jobs[i], write_jobs'[i], n, b)
    /\ Pushes(to_reader, to_reader', "confirm", i, n)
    /\ to_reader'[Len(to_reader) + 1].overwrite = b
    /\ IsDecided(n, b)
    /\ UNCHANGED <<upload, read_jobs, asked, disk, saved, jobs, broken>>

TakesDigestReturns(i, n) ==
    /\ upload /\ Takes("digest", i, n) /\ i \in DOMAIN write_jobs
    /\ Pushes(to_reader, to_reader', "digest", i, n)
    /\ UNCHANGED <<upload, read_jobs, write_jobs, asked, disk, saved, jobs, verdict, kept, done,
                   tainted, broken>>

TakesDigestWants(i, n) ==
    /\ upload /\ Takes("digest", i, n) /\ i \in DOMAIN write_jobs
    /\ Pushes(to_reader, to_reader', "confirm", i, n)
    /\ to_reader'[Len(to_reader) + 1].overwrite = TRUE
    /\ IsDecided(n, TRUE)
    /\ UNCHANGED <<upload, read_jobs, write_jobs, asked, disk, saved, jobs, broken>>

TakesDigestInVain(i, n) ==
    /\ Takes("digest", i, n) /\ i \in DOMAIN write_jobs
    /\ Told("error", i, n)
    /\ UNCHANGED <<upload, read_jobs, write_jobs, asked, disk, saved, jobs, verdict, kept, done,
                   tainted, broken>>

IsWriting(job, job2, n, file) ==
    /\ job2.file_num = n /\ job2.file = file
    /\ job2.files = job.files /\ job2.is_last_job = job.is_last_job

TakesBlock(i, n) ==
    /\ Takes("block", i, n) /\ i \in DOMAIN write_jobs
    /\ Updates(write_jobs, write_jobs', i)
    /\ IsFirst(write_jobs[i], n) =>
          /\ IsWriting(write_jobs[i], write_jobs'[i], n, <<n, "download">>)
          /\ disk'[<<n, "download">>] = to_writer[1].data
          /\ \A x \in Names : x # <<n, "download">> => disk'[x] = modify_time(write_jobs[i])[x]
    /\ ~IsFirst(write_jobs[i], n) =>
          /\ IsWriting(write_jobs[i], write_jobs'[i], n, write_jobs[i].file)
          /\ disk'[write_jobs[i].file] = disk[write_jobs[i].file] \o to_writer[1].data
          /\ \A x \in Names : x # write_jobs[i].file => disk'[x] = disk[x]
    /\ UNCHANGED <<upload, read_jobs, to_reader, asked, saved, jobs, verdict, kept, done,
                   tainted, broken>>

TakesBlockInVain(i, n) ==
    /\ Takes("block", i, n) /\ i \in DOMAIN write_jobs
    /\ Updates(write_jobs, write_jobs', i)
    /\ \/ /\ IsFirst(write_jobs[i], n) /\ disk' = modify_time(write_jobs[i])
          /\ \E num \in {write_jobs[i].file_num, n} :
                IsWriting(write_jobs[i], write_jobs'[i], num, moved(write_jobs[i]))
       \/ /\ IsFirst(write_jobs[i], n) /\ disk' = created(write_jobs[i], n)
          /\ IsWriting(write_jobs[i], write_jobs'[i], n, <<n, "download">>)
       \/ disk' = disk /\ write_jobs' = write_jobs
    /\ Told("error", i, n) /\ broken' = TRUE
    /\ UNCHANGED <<upload, read_jobs, asked, saved, jobs, verdict, kept, done, tainted>>

(* The first message to the writer. *)
LEMMA ArrivesDoes ==
    ASSUME TypeInv, NEW kind, Arrives(kind)
    PROVE  /\ Takes(kind, to_writer[1].id, to_writer[1].num)
           /\ Head(to_writer) = to_writer[1] /\ to_writer[1] \in Messages
           /\ to_writer[1].kind = kind
           /\ to_writer[1].id \in Nat /\ to_writer[1].num \in Nat
           /\ 1 \in InW /\ to_writer' \in Seq(Messages)
<1>1. /\ to_writer \in Seq(Messages) /\ to_writer # <<>> /\ to_writer' = Tail(to_writer)
      /\ Head(to_writer).kind = kind
    BY DEF TypeInv, Arrives
<1>2. /\ Pops(to_writer, to_writer') /\ to_writer' \in Seq(Messages)
      /\ Head(to_writer) = to_writer[1] /\ to_writer[1] \in Messages
    BY <1>1, TailPops
<1>3. 1 \in InW
    BY <1>2 DEF Pops, InW
<1>. QED BY <1>1, <1>2, <1>3, MessageFields DEF Takes

(* The answer of the connection manager. *)
LEMMA ReplyDoes ==
    ASSUME TypeInv, NEW m \in Messages, Reply(m)
    PROVE  /\ Told(m.kind, m.id, m.num) /\ to_reader' \in Seq(Messages)
           /\ upload => /\ Pushes(to_reader, to_reader', m.kind, m.id, m.num)
                        /\ to_reader'[Len(to_reader) + 1] = m
<1>1. CASE upload
  <2>1. to_reader' = Append(to_reader, m)
    BY <1>1 DEF Reply
  <2>2. /\ Pushes(to_reader, to_reader', m.kind, m.id, m.num)
        /\ to_reader' \in Seq(Messages) /\ to_reader'[Len(to_reader) + 1] = m
    BY <2>1, AppendPushes, Tables
  <2>. QED BY <1>1, <2>2 DEF Told
<1>2. CASE ~upload
    BY <1>2, Tables DEF Reply, Told
<1>. QED BY <1>1, <1>2

(* A file that is over is renamed, if there is a .download of it. *)
LEMMA ModifyTimeDoes ==
    ASSUME TypeInv, NEW job \in WriteJobs
    PROVE  /\ modify_time(job) \in [Names -> Contents]
           /\ \/ modify_time(job) = disk
              \/ /\ job.files /\ job.file_num \in Files
                 /\ disk[<<job.file_num, "download">>] # Absent
                 /\ modify_time(job)[<<job.file_num, "final">>]
                       = disk[<<job.file_num, "download">>]
                 /\ modify_time(job)[<<job.file_num, "download">>] = Absent
                 /\ \A f \in Files : f # job.file_num =>
                       /\ modify_time(job)[<<f, "final">>] = disk[<<f, "final">>]
                       /\ modify_time(job)[<<f, "download">>] = disk[<<f, "download">>]
           /\ (job.files /\ job.file_num \in Files) =>
                 modify_time(job)[<<job.file_num, "download">>] = Absent
<1>. DEFINE n == job.file_num
            d == disk[<<n, "download">>]
<1>1. disk \in [Names -> Contents]
    BY DEF TypeInv
<1>2. CASE job.files /\ n \in Files /\ d # Absent
  <2>1. modify_time(job) = [disk EXCEPT ![<<n, "final">>] = d, ![<<n, "download">>] = Absent]
    BY <1>2, Zenon DEF modify_time
  <2>2. d \in Contents /\ Absent \in Contents
    BY <1>1, <1>2 DEF Names, Absent, Contents
  <2>. HIDE DEF d, n
  <2>. QED BY <1>1, <1>2, <2>1, <2>2 DEF Names, n, d
<1>3. CASE ~(job.files /\ n \in Files /\ d # Absent)
  <2>1. modify_time(job) = disk
    BY <1>3, Zenon DEF modify_time
  <2>. QED BY <1>1, <1>3, <2>1
<1>. QED BY <1>2, <1>3

(* The .download of a cancelled job is removed. *)
LEMMA RemoveDownloadDoes ==
    ASSUME TypeInv, NEW job \in WriteJobs
    PROVE  /\ remove_download_file(job) \in [Names -> Contents]
           /\ \A f \in Files :
                 /\ remove_download_file(job)[<<f, "final">>] = disk[<<f, "final">>]
                 /\ remove_download_file(job)[<<f, "download">>] \in
                       {Absent, disk[<<f, "download">>]}
<1>1. disk \in [Names -> Contents] /\ Absent \in Contents
    BY DEF TypeInv, Absent, Contents
<1>. QED BY <1>1 DEF remove_download_file, Names

(* ignore. *)
LEMMA IgnoreDoes ==
    ASSUME TypeInv, ignore
    PROVE  (\E i, n \in Nat : \E kind : TakesOther(kind, i, n)) /\ TypeInv'
<1>. DEFINE m == to_writer[1]
<1>1. Arrives(Head(to_writer).kind)
    BY Zenon DEF ignore, Arrives
<1>2. /\ Takes(m.kind, m.id, m.num) /\ Head(to_writer) = m /\ to_writer' \in Seq(Messages)
      /\ m.id \in Nat /\ m.num \in Nat
    BY <1>1, ArrivesDoes
<1>3. /\ m.kind # "receive" /\ m.id \notin DOMAIN write_jobs /\ failures' = failures
      /\ UNCHANGED <<upload, read_jobs, write_jobs, to_reader, asked, disk, saved, jobs, verdict,
                     kept, done, tainted, broken>>
    BY <1>2 DEF ignore, Mine, writerOnly, historyVars
<1>4. TypeInv'
    BY <1>2, <1>3 DEF TypeInv
<1>5. TakesOther(m.kind, m.id, m.num)
    BY <1>2, <1>3, Zenon DEF TakesOther
<1>. QED BY <1>2, <1>4, <1>5, Zenon

(* What a job begins with. *)
LEMMA NewHistoryDoes ==
    ASSUME TypeInv, NEW n \in Nat, NewHistory(n)
    PROVE  /\ verdict' \in [Files -> {None, "before", "overwrite", "skip"}]
           /\ kept' \in [Files -> Contents] /\ done' \in BOOLEAN /\ tainted' \subseteq Files
           /\ \A f \in Files : verdict'[f] = IF f < n THEN "before" ELSE None
           /\ done' = FALSE
           /\ \A f \in Files : f \in tainted' <=> f \in tainted \/ disk[<<f, "download">>] # Absent
<1>1. Absent \in Contents
    BY DEF Absent, Contents
<1>2. \A f \in Files : (IF f < n THEN "before" ELSE None) \in {None, "before", "overwrite", "skip"}
    OBVIOUS
<1>. QED BY <1>1, <1>2 DEF NewHistory, Leftovers, TypeInv

(* on_receive. *)
LEMMA OnReceiveDoes ==
    ASSUME TypeInv, on_receive
    PROVE  (\E i, n \in Nat : TakesReceive(i, n)) /\ TypeInv'
<1>. DEFINE m == to_writer[1]
            job == [NewJob(m.num) EXCEPT !.files = TRUE]
<1>1. /\ Takes("receive", m.id, m.num) /\ Head(to_writer) = m /\ m.id \in Nat /\ m.num \in Nat
      /\ to_writer' \in Seq(Messages)
    BY ArrivesDoes DEF on_receive
<1>2. /\ write_jobs' = Put(write_jobs, m.id, job)
      /\ disk' \in (IF m.resumed THEN {disk} \cup Directories ELSE {disk})
      /\ NewHistory(m.num)
      /\ UNCHANGED <<writerOnly, failures, broken, to_reader>>
    BY <1>1, Zenon DEF on_receive
<1>3. job \in WriteJobs
    BY <1>1, NewJobFields DEF WriteJobs
<1>4. IsNew(job, m.num, TRUE, FALSE)
    BY <1>1, NewJobFields DEF IsNew
<1>. HIDE DEF job
<1>5. /\ Updates(write_jobs, write_jobs', m.id) /\ write_jobs'[m.id] = job
      /\ IsTable(write_jobs', WriteJobs)
    BY <1>2, <1>3, PutUpdates, Tables
<1>6. disk' \in {disk} \cup Directories
    BY <1>2
<1>7. \A d \in Directories : d \in [Names -> Contents]
  <2>1. Absent \in Contents /\ Old \in Contents
    BY DEF Contents, Absent, Old
  <2>2. Directories \subseteq [Names -> {Absent, Old}]
    BY Zenon DEF Directories, Names
  <2>. QED BY <2>1, <2>2
<1>8. disk' \in [Names -> Contents]
    BY <1>6, <1>7 DEF TypeInv
<1>9. /\ failures' = failures
      /\ UNCHANGED <<upload, read_jobs, to_reader, asked, saved, jobs, broken>>
    BY <1>2 DEF writerOnly
<1>10. /\ verdict' \in [Files -> {None, "before", "overwrite", "skip"}]
       /\ kept' \in [Files -> Contents] /\ done' \in BOOLEAN /\ tainted' \subseteq Files
    BY <1>1, <1>2, NewHistoryDoes
<1>11. TypeInv'
    BY <1>1, <1>5, <1>8, <1>9, <1>10 DEF TypeInv
<1>12. TakesReceive(m.id, m.num)
    BY <1>1, <1>2, <1>4, <1>5, <1>6, <1>9 DEF TakesReceive
<1>. QED BY <1>1, <1>11, <1>12

(* The writer's job, looked at. *)
LEMMA WriterHas ==
    ASSUME TypeInv, NEW i \in DOMAIN write_jobs
    PROVE  /\ write_jobs[i] \in WriteJobs /\ write_jobs[i].file_num \in Nat
           /\ write_jobs[i].file \in Names \cup {None}
           /\ write_jobs[i].files \in BOOLEAN
           /\ write_jobs[i].default_overwrite_strategy \in BOOLEAN \cup {None}
BY DEF TypeInv, IsTable, WriteJobs, JobsWith

(* on_cancel_write. *)
LEMMA OnCancelWriteDoes ==
    ASSUME TypeInv, on_cancel_write
    PROVE  (\E i, n \in Nat : TakesCancel(i, n)) /\ TypeInv'
<1>. DEFINE m == to_writer[1]
<1>1. /\ Takes("cancel", m.id, m.num) /\ Head(to_writer) = m /\ m.id \in Nat /\ m.num \in Nat
      /\ to_writer' \in Seq(Messages)
    BY ArrivesDoes DEF on_cancel_write
<1>2. /\ m.id \in DOMAIN write_jobs /\ disk' = remove_download_file(write_jobs[m.id])
      /\ write_jobs' = remove_job(m.id, write_jobs)
    BY <1>1, Zenon DEF on_cancel_write, Mine
<1>3. /\ failures' = failures
      /\ UNCHANGED <<upload, read_jobs, to_reader, asked, saved, jobs, verdict, kept, done,
                     tainted, broken>>
    BY DEF on_cancel_write, writerOnly, historyVars
<1>4. Removes(write_jobs, write_jobs', m.id) /\ IsTable(write_jobs', WriteJobs)
    BY <1>2, RemoveRemoves, Tables
<1>5. disk' \in [Names -> Contents]
    BY <1>2, WriterHas, RemoveDownloadDoes
<1>6. TypeInv'
    BY <1>1, <1>3, <1>4, <1>5 DEF TypeInv
<1>7. TakesCancel(m.id, m.num)
    BY <1>1, <1>2, <1>3, <1>4, Zenon DEF TakesCancel
<1>. QED BY <1>1, <1>6, <1>7

(* on_done. *)
LEMMA OnDoneDoes ==
    ASSUME TypeInv, on_done
    PROVE  (\E i, n \in Nat : TakesDone(i, n)) /\ TypeInv'
<1>. DEFINE m == to_writer[1]
<1>1. /\ Takes("done", m.id, m.num) /\ Head(to_writer) = m /\ m.id \in Nat /\ m.num \in Nat
      /\ to_writer' \in Seq(Messages) /\ m \in Messages /\ m.kind = "done"
    BY ArrivesDoes DEF on_done
<1>2. /\ m.id \in DOMAIN write_jobs /\ disk' = modify_time(write_jobs[m.id])
      /\ write_jobs' = remove_job(m.id, write_jobs) /\ Reply(m) /\ done' = TRUE
    BY <1>1, Zenon DEF on_done, Mine
<1>3. /\ failures' = failures
      /\ UNCHANGED <<upload, read_jobs, asked, saved, jobs, verdict, kept, tainted, broken>>
    BY DEF on_done, writerOnly
<1>4. Removes(write_jobs, write_jobs', m.id) /\ IsTable(write_jobs', WriteJobs)
    BY <1>2, RemoveRemoves, Tables
<1>5. disk' \in [Names -> Contents]
    BY <1>2, WriterHas, ModifyTimeDoes
<1>6. Told("done", m.id, m.num) /\ to_reader' \in Seq(Messages)
    BY <1>1, <1>2, ReplyDoes
<1>7. TypeInv'
    BY <1>1, <1>2, <1>3, <1>4, <1>5, <1>6 DEF TypeInv
<1>8. TakesDone(m.id, m.num)
    BY <1>1, <1>2, <1>3, <1>4, <1>6, Zenon DEF TakesDone
<1>. QED BY <1>1, <1>7, <1>8

(* on_error. *)
LEMMA OnErrorDoes ==
    ASSUME TypeInv, on_error
    PROVE  (\E i, n \in Nat : TakesError(i, n)) /\ TypeInv'
<1>. DEFINE m == to_writer[1]
<1>1. /\ Takes("error", m.id, m.num) /\ Head(to_writer) = m /\ m.id \in Nat /\ m.num \in Nat
      /\ to_writer' \in Seq(Messages) /\ m \in Messages /\ m.kind = "error"
    BY ArrivesDoes DEF on_error
<1>2. /\ m.id \in DOMAIN write_jobs
      /\ write_jobs' = remove_job(m.id, write_jobs) /\ Reply(m)
    BY <1>1, Zenon DEF on_error, Mine
<1>3. /\ failures' = failures
      /\ UNCHANGED <<upload, read_jobs, asked, disk, saved, jobs, verdict, kept, done, tainted,
                     broken>>
    BY DEF on_error, writerOnly, historyVars
<1>4. Removes(write_jobs, write_jobs', m.id) /\ IsTable(write_jobs', WriteJobs)
    BY <1>2, RemoveRemoves, Tables
<1>6. Told("error", m.id, m.num) /\ to_reader' \in Seq(Messages)
    BY <1>1, <1>2, ReplyDoes
<1>7. TypeInv'
    BY <1>1, <1>3, <1>4, <1>6 DEF TypeInv
<1>8. TakesError(m.id, m.num)
    BY <1>1, <1>2, <1>3, <1>4, <1>6, Zenon DEF TakesError
<1>. QED BY <1>1, <1>7, <1>8

(* on_dir. *)
LEMMA OnDirDoes ==
    ASSUME TypeInv, on_dir
    PROVE  (\E i, n \in Nat : TakesDir(i, n)) /\ TypeInv'
<1>. DEFINE m == to_writer[1]
            old == write_jobs[m.id]
            job == [old EXCEPT !.files = TRUE]
<1>1. /\ Takes("dir", m.id, m.num) /\ Head(to_writer) = m /\ m.id \in Nat /\ m.num \in Nat
      /\ to_writer' \in Seq(Messages)
    BY ArrivesDoes DEF on_dir
<1>2. m.id \in DOMAIN write_jobs /\ write_jobs' = [write_jobs EXCEPT ![m.id] = job]
    BY <1>1, Zenon DEF on_dir, Mine
<1>3. /\ failures' = failures
      /\ UNCHANGED <<upload, read_jobs, to_reader, asked, disk, saved, jobs, verdict, kept, done,
                     tainted, broken>>
    BY DEF on_dir, writerOnly, historyVars
<1>4. old \in WriteJobs
    BY <1>2, WriterHas
<1>5. /\ job \in WriteJobs /\ job.file_num = old.file_num /\ job.file = old.file
      /\ job.files = TRUE /\ job.is_last_job = old.is_last_job
    BY <1>4 DEF WriteJobs, JobsWith
<1>. HIDE DEF job
<1>6. /\ Updates(write_jobs, write_jobs', m.id) /\ write_jobs'[m.id] = job
      /\ IsTable(write_jobs', WriteJobs)
    BY <1>2, <1>5, ExceptUpdates, Tables
<1>7. TypeInv'
    BY <1>1, <1>3, <1>6 DEF TypeInv
<1>8. TakesDir(m.id, m.num)
    BY <1>1, <1>2, <1>3, <1>5, <1>6, Zenon DEF TakesDir
<1>. QED BY <1>1, <1>7, <1>8

(* CheckDigest. *)
LEMMA CheckDigestDoes ==
    ASSUME TypeInv, KindInv, CheckDigest
    PROVE  (\E i, n \in Nat : TakesDigestReturns(i, n) \/ TakesDigestWants(i, n)) /\ TypeInv'
<1>. DEFINE m == to_writer[1]
            answer == Confirmation(m.id, m.num, TRUE)
<1>1. /\ Takes("digest", m.id, m.num) /\ Head(to_writer) = m /\ m.id \in Nat /\ m.num \in Nat
      /\ to_writer' \in Seq(Messages) /\ m \in Messages /\ m.kind = "digest" /\ 1 \in InW
    BY ArrivesDoes DEF CheckDigest
<1>2. m.num \in Files
    BY <1>1, Zenon DEF KindInv, W
<1>3. /\ upload /\ m.id \in DOMAIN write_jobs
      /\ IF disk[<<m.num, "final">>] # Absent THEN Reply(m) /\ UNCHANGED historyVars
         ELSE Reply(answer) /\ Decided(m.num, TRUE)
    BY <1>1, Zenon DEF CheckDigest, Mine
<1>4. /\ failures' = failures
      /\ UNCHANGED <<upload, read_jobs, write_jobs, asked, disk, saved, jobs, broken>>
    BY DEF CheckDigest, writerOnly
<1>5. CASE disk[<<m.num, "final">>] # Absent
  <2>1. Reply(m) /\ UNCHANGED <<verdict, kept, done, tainted>>
    BY <1>3, <1>5 DEF historyVars
  <2>2. Pushes(to_reader, to_reader', "digest", m.id, m.num) /\ to_reader' \in Seq(Messages)
    BY <1>1, <1>3, <2>1, ReplyDoes
  <2>3. TypeInv'
    BY <1>1, <1>4, <2>1, <2>2 DEF TypeInv
  <2>4. TakesDigestReturns(m.id, m.num)
    BY <1>1, <1>3, <1>4, <2>1, <2>2, Zenon DEF TakesDigestReturns
  <2>. QED BY <1>1, <2>3, <2>4
<1>6. CASE disk[<<m.num, "final">>] = Absent
  <2>1. Reply(answer)
    BY <1>3, <1>6, Zenon
  <2>1a. Decided(m.num, TRUE)
    BY <1>3, <1>6, Zenon
  <2>2. /\ answer \in Messages /\ answer.kind = "confirm" /\ answer.id = m.id
        /\ answer.num = m.num /\ answer.overwrite = TRUE
    BY <1>1 DEF Confirmation, Messages, Confirms
  <2>. HIDE DEF answer
  <2>3. /\ Pushes(to_reader, to_reader', "confirm", m.id, m.num) /\ to_reader' \in Seq(Messages)
        /\ to_reader'[Len(to_reader) + 1] = answer
    BY <1>3, <2>1, <2>2, ReplyDoes
  <2>4. IsDecided(m.num, TRUE)
    BY <1>2, <2>1a, DecidedDoes
  <2>5. /\ verdict' \in [Files -> {None, "before", "overwrite", "skip"}]
        /\ kept' \in [Files -> Contents] /\ done' \in BOOLEAN /\ tainted' \subseteq Files
    BY <1>2, <2>1a, DecidedDoes
  <2>6. TypeInv'
    BY <1>1, <1>4, <2>3, <2>5 DEF TypeInv
  <2>7. TakesDigestWants(m.id, m.num)
    BY <1>1, <1>3, <1>4, <2>2, <2>3, <2>4, Zenon DEF TakesDigestWants
  <2>. QED BY <1>1, <2>6, <2>7
<1>. QED BY <1>5, <1>6

(* on_digest_fails. *)
LEMMA OnDigestFailsDoes ==
    ASSUME TypeInv, on_digest_fails
    PROVE  (\E i, n \in Nat : TakesDigestInVain(i, n)) /\ TypeInv'
<1>. DEFINE m == to_writer[1]
            error == Msg("error", m.id, m.num)
<1>1. /\ Takes("digest", m.id, m.num) /\ Head(to_writer) = m /\ m.id \in Nat /\ m.num \in Nat
      /\ to_writer' \in Seq(Messages)
    BY ArrivesDoes DEF on_digest_fails
<1>2. m.id \in DOMAIN write_jobs /\ Reply(error) /\ failures' = failures + 1
    BY <1>1, Zenon DEF on_digest_fails, Mine
<1>3. error \in Messages /\ error.kind = "error" /\ error.id = m.id /\ error.num = m.num
    BY <1>1 DEF Msg, Messages, PlainMessages
<1>. HIDE DEF error
<1>4. Told("error", m.id, m.num) /\ to_reader' \in Seq(Messages)
    BY <1>2, <1>3, ReplyDoes
<1>5. UNCHANGED <<upload, read_jobs, write_jobs, asked, disk, saved, jobs, verdict, kept, done,
                  tainted, broken>>
    BY DEF on_digest_fails, writerOnly, historyVars
<1>6. TypeInv'
    BY <1>1, <1>2, <1>4, <1>5 DEF TypeInv
<1>7. TakesDigestInVain(m.id, m.num)
    BY <1>1, <1>2, <1>4, <1>5, Zenon DEF TakesDigestInVain
<1>. QED BY <1>1, <1>6, <1>7

(* on_digest. *)
LEMMA OnDigestDoes ==
    ASSUME TypeInv, KindInv, on_digest
    PROVE  /\ \E i, n \in Nat : TakesDigestAsks(i, n) \/ \E b \in BOOLEAN : TakesDigestKnows(i, n, b)
           /\ TypeInv'
<1>. DEFINE m == to_writer[1]
            old == write_jobs[m.id]
            strategy == old.default_overwrite_strategy
            exists == disk[<<m.num, "final">>] # Absent
            b == ~exists \/ strategy
<1>1. /\ Takes("digest", m.id, m.num) /\ Head(to_writer) = m /\ m.id \in Nat /\ m.num \in Nat
      /\ to_writer' \in Seq(Messages) /\ m \in Messages /\ m.kind = "digest" /\ 1 \in InW
    BY ArrivesDoes DEF on_digest
<1>2. m.num \in Files
    BY <1>1, Zenon DEF KindInv, W
<1>3. /\ ~upload /\ m.id \in DOMAIN write_jobs
      /\ IF exists /\ strategy = None
         THEN /\ asked' = asked \cup {<<m.id, m.num>>}
              /\ UNCHANGED <<read_jobs, write_jobs, to_reader, historyVars>>
         ELSE Answer(m.id, old, m.num, b) /\ UNCHANGED asked
      /\ UNCHANGED <<clientOnly, disk, saved, jobs>>
    BY <1>1, Zenon DEF on_digest, Mine
<1>4. CASE exists /\ strategy = None
  <2>1. /\ asked' = asked \cup {<<m.id, m.num>>} /\ failures' = failures
        /\ UNCHANGED <<upload, read_jobs, write_jobs, to_reader, disk, saved, jobs, verdict, kept,
                       done, tainted, broken>>
    BY <1>3, <1>4 DEF clientOnly, historyVars
  <2>2. TypeInv'
    BY <1>1, <1>2, <2>1 DEF TypeInv
  <2>3. TakesDigestAsks(m.id, m.num)
    BY <1>1, <1>3, <2>1, Zenon DEF TakesDigestAsks
  <2>. QED BY <1>1, <2>2, <2>3
<1>5. CASE ~(exists /\ strategy = None)
  <2>1. old \in WriteJobs /\ strategy \in BOOLEAN \cup {None}
    BY <1>3, WriterHas
  <2>2. b \in BOOLEAN
    BY <1>5, <2>1, Zenon
  <2>3. /\ Answer(m.id, old, m.num, b) /\ asked' = asked /\ failures' = failures
        /\ UNCHANGED <<upload, disk, saved, jobs, broken>>
    BY <1>3, <1>5, Zenon DEF clientOnly
  <2>. HIDE DEF b
  <2>. DEFINE answer == Confirmation(m.id, m.num, b)
              job == confirm(old, m.num, b)
  <2>4. /\ write_jobs' = [write_jobs EXCEPT ![m.id] = job]
        /\ to_reader' = Append(to_reader, answer) /\ read_jobs' = read_jobs
    BY <1>3, <2>3, Zenon DEF Answer
  <2>4a. Decided(m.num, b)
    BY <2>3, Zenon DEF Answer
  <2>5. job \in WriteJobs
    BY <2>1, <2>2, ConfirmFields DEF WriteJobs
  <2>5a. IsAnswered(old, job, m.num, b)
    BY <2>1, <2>2, ConfirmFields DEF WriteJobs
  <2>6. /\ answer \in Messages /\ answer.kind = "confirm" /\ answer.id = m.id
        /\ answer.num = m.num /\ answer.overwrite = b
    BY <1>1, <2>2 DEF Confirmation, Messages, Confirms
  <2>. HIDE DEF job, answer
  <2>7. /\ Updates(write_jobs, write_jobs', m.id) /\ write_jobs'[m.id] = job
        /\ IsTable(write_jobs', WriteJobs)
    BY <1>3, <2>4, <2>5, ExceptUpdates, Tables
  <2>8. /\ Pushes(to_reader, to_reader', "confirm", m.id, m.num)
        /\ to_reader' \in Seq(Messages) /\ to_reader'[Len(to_reader) + 1] = answer
    BY <2>4, <2>6, AppendPushes, Tables
  <2>9. IsDecided(m.num, b)
    BY <1>2, <2>2, <2>4a, DecidedDoes
  <2>10. /\ verdict' \in [Files -> {None, "before", "overwrite", "skip"}]
         /\ kept' \in [Files -> Contents] /\ done' \in BOOLEAN /\ tainted' \subseteq Files
    BY <1>2, <2>2, <2>4a, DecidedDoes
  <2>11. TypeInv'
    BY <1>1, <2>3, <2>4, <2>7, <2>8, <2>10 DEF TypeInv
  <2>12. TakesDigestKnows(m.id, m.num, b)
    BY <1>1, <1>3, <2>3, <2>4, <2>5a, <2>6, <2>7, <2>8, <2>9, Zenon DEF TakesDigestKnows
  <2>. QED BY <1>1, <2>2, <2>11, <2>12
<1>. QED BY <1>4, <1>5

(* The fields of a job that writes. *)
LEMMA WritingFields ==
    ASSUME NEW job \in WriteJobs, NEW n \in Nat, NEW file \in Names \cup {None}
    PROVE  /\ [job EXCEPT !.file_num = n, !.file = file] \in WriteJobs
           /\ IsWriting(job, [job EXCEPT !.file_num = n, !.file = file], n, file)
           /\ [job EXCEPT !.file = file] \in WriteJobs
           /\ IsWriting(job, [job EXCEPT !.file = file], job.file_num, file)
BY DEF WriteJobs, JobsWith, IsWriting

(* The open file of a job, also after it was renamed. *)
LEMMA MovedType ==
    ASSUME NEW job \in WriteJobs
    PROVE  moved(job) \in Names \cup {None}
<1>1. job.file \in Names \cup {None} /\ job.file_num \in Nat
    BY DEF WriteJobs, JobsWith
<1>2. job.file = <<job.file_num, "download">> => <<job.file_num, "final">> \in Names
    BY <1>1, FileAssumption DEF Names
<1>. QED BY <1>1, <1>2 DEF moved

(* What the disk holds when the next file has been created. *)
LEMMA CreatedDoes ==
    ASSUME TypeInv, NEW job \in WriteJobs, NEW n \in Files
    PROVE  /\ created(job, n) \in [Names -> Contents]
           /\ created(job, n)[<<n, "download">>] = <<>>
           /\ \A x \in Names : x # <<n, "download">> => created(job, n)[x] = modify_time(job)[x]
<1>1. modify_time(job) \in [Names -> Contents]
    BY ModifyTimeDoes
<1>2. <<n, "download">> \in Names /\ <<>> \in Contents
    BY DEF Names, Contents
<1>. QED BY <1>1, <1>2 DEF created

(* on_block. *)
LEMMA OnBlockDoes ==
    ASSUME TypeInv, KindInv, on_block
    PROVE  (\E i, n \in Nat : TakesBlock(i, n)) /\ TypeInv'
<1>. DEFINE m == to_writer[1]
            i == m.id
            n == m.num
            old == write_jobs[i]
            first == IsFirst(old, n)
            file == IF first THEN <<n, "download">> ELSE old.file
            before == IF first THEN created(old, n) ELSE disk
            job == [old EXCEPT !.file_num = n, !.file = file]
<1>1. /\ Takes("block", i, n) /\ Head(to_writer) = m /\ i \in Nat /\ n \in Nat
      /\ to_writer' \in Seq(Messages) /\ m \in Messages /\ m.kind = "block" /\ 1 \in InW
    BY ArrivesDoes DEF on_block
<1>2. n \in Files /\ m.data \in Contents
    BY <1>1, MessageFields DEF KindInv, W
<1>3. /\ i \in DOMAIN write_jobs
      /\ disk' = [before EXCEPT ![file] = before[file] \o m.data]
      /\ write_jobs' = [write_jobs EXCEPT ![i].file_num = n, ![i].file = file]
    BY <1>1, Zenon DEF on_block, Mine
<1>4. /\ failures' = failures
      /\ UNCHANGED <<upload, read_jobs, to_reader, asked, saved, jobs, verdict, kept, done,
                     tainted, broken>>
    BY DEF on_block, writerOnly, historyVars
<1>5. old \in WriteJobs /\ old.file \in Names \cup {None}
    BY <1>3, WriterHas
<1>6. first \in BOOLEAN /\ (~first => old.file # None)
    BY DEF IsFirst
<1>. HIDE DEF first
<1>7. <<n, "download">> \in Names
    BY <1>2 DEF Names
<1>8. file \in Names
    BY <1>5, <1>6, <1>7
<1>9. before \in [Names -> Contents]
    BY <1>2, <1>5, CreatedDoes DEF TypeInv
<1>10. /\ first => file = <<n, "download">> /\ before = created(old, n)
       /\ ~first => file = old.file /\ before = disk
    OBVIOUS
<1>. HIDE DEF file, before, n, i
<1>11. /\ disk' \in [Names -> Contents] /\ disk'[file] = before[file] \o m.data
       /\ \A x \in Names : x # file => disk'[x] = before[x]
  <2>1. before[file] \in Contents
    BY <1>8, <1>9
  <2>2. before[file] \o m.data \in Contents
    BY <1>2, <2>1 DEF Contents
  <2>. QED BY <1>3, <1>8, <1>9, <2>2
<1>12. write_jobs' = [write_jobs EXCEPT ![i] = job]
    BY <1>3, Tables DEF IsTable
<1>13. job \in WriteJobs /\ IsWriting(old, job, n, file)
    BY <1>1, <1>5, <1>8, WritingFields
<1>. HIDE DEF job
<1>14. /\ Updates(write_jobs, write_jobs', i) /\ write_jobs'[i] = job
       /\ IsTable(write_jobs', WriteJobs)
  <2>1. i \in DOMAIN write_jobs /\ job \in WriteJobs
    BY <1>3, <1>13
  <2>. QED BY <1>12, <2>1, ExceptUpdates, Tables
<1>15. TypeInv'
    BY <1>1, <1>4, <1>11, <1>14 DEF TypeInv
<1>16. first => /\ IsWriting(old, write_jobs'[i], n, <<n, "download">>)
                /\ disk'[<<n, "download">>] = m.data
                /\ \A x \in Names : x # <<n, "download">> => disk'[x] = modify_time(old)[x]
  <2>. SUFFICES ASSUME first
                PROVE  /\ IsWriting(old, write_jobs'[i], n, <<n, "download">>)
                       /\ disk'[<<n, "download">>] = m.data
                       /\ \A x \in Names : x # <<n, "download">> => disk'[x] = modify_time(old)[x]
    OBVIOUS
  <2>1. file = <<n, "download">> /\ before = created(old, n)
    BY <1>10
  <2>2. before[file] = <<>> /\ \A x \in Names : x # file => before[x] = modify_time(old)[x]
    BY <1>2, <1>5, <2>1, CreatedDoes
  <2>3. <<>> \o m.data = m.data
    BY <1>2 DEF Contents
  <2>4. disk'[file] = m.data
    BY <1>11, <2>2, <2>3, Zenon
  <2>. QED BY <1>11, <1>13, <1>14, <2>1, <2>2, <2>4
<1>17. ~first => /\ IsWriting(old, write_jobs'[i], n, old.file)
                 /\ disk'[old.file] = disk[old.file] \o m.data
                 /\ \A x \in Names : x # old.file => disk'[x] = disk[x]
    BY <1>10, <1>11, <1>13, <1>14, Zenon
<1>18. TakesBlock(i, n)
    BY <1>1, <1>3, <1>4, <1>14, <1>16, <1>17, Zenon DEF TakesBlock, first
<1>. QED BY <1>1, <1>15, <1>18

(* The errors of write. *)
LEMMA WriteFailsDoes ==
    ASSUME TypeInv, KindInv, WriteFails
    PROVE  /\ Takes("block", to_writer[1].id, to_writer[1].num) /\ Head(to_writer) = to_writer[1]
           /\ to_writer[1].id \in DOMAIN write_jobs /\ write_jobs[to_writer[1].id] \in WriteJobs
           /\ to_writer[1].id \in Nat /\ to_writer[1].num \in Files /\ to_writer[1].num \in Nat
           /\ to_writer' \in Seq(Messages) /\ to_reader' \in Seq(Messages)
           /\ Told("error", to_writer[1].id, to_writer[1].num) /\ broken' = TRUE
           /\ failures' \in Nat
           /\ UNCHANGED <<upload, read_jobs, asked, saved, jobs, verdict, kept, done, tainted>>
<1>. DEFINE m == to_writer[1]
            error == Msg("error", m.id, m.num)
<1>1. /\ Takes("block", m.id, m.num) /\ Head(to_writer) = m /\ m.id \in Nat /\ m.num \in Nat
      /\ to_writer' \in Seq(Messages) /\ m.kind = "block" /\ 1 \in InW
    BY ArrivesDoes DEF WriteFails
<1>2. m.num \in Files
    BY <1>1 DEF KindInv, W
<1>3. m.id \in DOMAIN write_jobs /\ Reply(error) /\ failures' = failures + 1 /\ broken' = TRUE
    BY <1>1, Zenon DEF WriteFails, Mine
<1>4. error \in Messages /\ error.kind = "error" /\ error.id = m.id /\ error.num = m.num
    BY <1>1 DEF Msg, Messages, PlainMessages
<1>. HIDE DEF error
<1>5. Told("error", m.id, m.num) /\ to_reader' \in Seq(Messages)
    BY <1>3, <1>4, ReplyDoes
<1>6. UNCHANGED <<upload, read_jobs, asked, saved, jobs, verdict, kept, done, tainted>>
    BY DEF WriteFails, writerOnly, historyVars
<1>7. failures' \in Nat
    BY <1>3 DEF TypeInv
<1>8. write_jobs[m.id] \in WriteJobs
    BY <1>3, WriterHas
<1>. QED BY <1>1, <1>2, <1>3, <1>5, <1>6, <1>7, <1>8

(* on_block_sync_fails, on_block_create_fails. *)
LEMMA OnBlockMoveFailsDoes ==
    ASSUME TypeInv, KindInv, on_block_sync_fails \/ on_block_create_fails
    PROVE  (\E i, n \in Nat : TakesBlockInVain(i, n)) /\ TypeInv'
<1>. DEFINE i == to_writer[1].id
            n == to_writer[1].num
            old == write_jobs[i]
            file == moved(old)
<1>1. /\ Takes("block", i, n) /\ Head(to_writer) = to_writer[1]
      /\ i \in DOMAIN write_jobs /\ old \in WriteJobs
      /\ i \in Nat /\ n \in Files /\ n \in Nat
      /\ to_writer' \in Seq(Messages) /\ to_reader' \in Seq(Messages)
      /\ Told("error", i, n) /\ broken' = TRUE /\ failures' \in Nat
      /\ UNCHANGED <<upload, read_jobs, asked, saved, jobs, verdict, kept, done, tainted>>
    BY WriteFailsDoes DEF on_block_sync_fails, on_block_create_fails
<1>2. PICK num \in {old.file_num, n} :
        /\ IsFirst(old, n) /\ disk' = modify_time(old)
        /\ \/ num = old.file_num /\ write_jobs' = [write_jobs EXCEPT ![i].file = file]
           \/ num = n /\ write_jobs' = [write_jobs EXCEPT ![i].file_num = n, ![i].file = file]
    BY <1>1, Zenon DEF on_block_sync_fails, on_block_create_fails
<1>3. PICK job : /\ write_jobs' = [write_jobs EXCEPT ![i] = job]
                 /\ \/ num = old.file_num /\ job = [old EXCEPT !.file = file]
                    \/ num = n /\ job = [old EXCEPT !.file_num = n, !.file = file]
  <2>1. CASE num = old.file_num /\ write_jobs' = [write_jobs EXCEPT ![i].file = file]
    BY <2>1, Zenon
  <2>2. CASE num = n /\ write_jobs' = [write_jobs EXCEPT ![i].file_num = n, ![i].file = file]
    BY <2>2, Zenon
  <2>. QED BY <1>2, <2>1, <2>2, Zenon
<1>4. file \in Names \cup {None} /\ old.file_num \in Nat
    BY <1>1, MovedType DEF WriteJobs, JobsWith
<1>. HIDE DEF file, i, n
<1>5. job \in WriteJobs /\ IsWriting(old, job, num, file)
  <2>1. CASE num = old.file_num /\ job = [old EXCEPT !.file = file]
    BY <1>1, <1>4, <2>1, WritingFields
  <2>2. CASE num = n /\ job = [old EXCEPT !.file_num = n, !.file = file]
    BY <1>1, <1>4, <2>2, WritingFields
  <2>. QED BY <1>3, <2>1, <2>2
<1>6. /\ Updates(write_jobs, write_jobs', i) /\ write_jobs'[i] = job
      /\ IsTable(write_jobs', WriteJobs)
    BY <1>1, <1>3, <1>5, ExceptUpdates, Tables
<1>7. disk' \in [Names -> Contents]
    BY <1>1, <1>2, ModifyTimeDoes
<1>8. TypeInv'
    BY <1>1, <1>6, <1>7 DEF TypeInv
<1>9. TakesBlockInVain(i, n)
    BY <1>1, <1>2, <1>5, <1>6, Zenon DEF TakesBlockInVain, file
<1>. QED BY <1>1, <1>8, <1>9

(* on_block_write_fails. *)
LEMMA OnBlockWriteFailsDoes ==
    ASSUME TypeInv, KindInv, on_block_write_fails
    PROVE  (\E i, n \in Nat : TakesBlockInVain(i, n)) /\ TypeInv'
<1>. DEFINE i == to_writer[1].id
            n == to_writer[1].num
            old == write_jobs[i]
            job == [old EXCEPT !.file_num = n, !.file = <<n, "download">>]
<1>1. /\ Takes("block", i, n) /\ Head(to_writer) = to_writer[1]
      /\ i \in DOMAIN write_jobs /\ old \in WriteJobs
      /\ i \in Nat /\ n \in Files /\ n \in Nat
      /\ to_writer' \in Seq(Messages) /\ to_reader' \in Seq(Messages)
      /\ Told("error", i, n) /\ broken' = TRUE /\ failures' \in Nat
      /\ UNCHANGED <<upload, read_jobs, asked, saved, jobs, verdict, kept, done, tainted>>
    BY WriteFailsDoes DEF on_block_write_fails
<1>2. \/ /\ IsFirst(old, n) /\ disk' = created(old, n)
         /\ write_jobs' = [write_jobs EXCEPT ![i].file_num = n, ![i].file = <<n, "download">>]
      \/ disk' = disk /\ write_jobs' = write_jobs
    BY <1>1, Zenon DEF on_block_write_fails
<1>3. CASE /\ IsFirst(old, n) /\ disk' = created(old, n)
           /\ write_jobs' = [write_jobs EXCEPT ![i].file_num = n, ![i].file = <<n, "download">>]
  <2>1. write_jobs' = [write_jobs EXCEPT ![i] = job]
    BY <1>3, Tables DEF IsTable
  <2>2. <<n, "download">> \in Names
    BY <1>1 DEF Names
  <2>3. job \in WriteJobs /\ IsWriting(old, job, n, <<n, "download">>)
    BY <1>1, <2>2, WritingFields
  <2>. HIDE DEF job, i, n
  <2>4. /\ Updates(write_jobs, write_jobs', i) /\ write_jobs'[i] = job
        /\ IsTable(write_jobs', WriteJobs)
    BY <1>1, <2>1, <2>3, ExceptUpdates, Tables
  <2>5. disk' \in [Names -> Contents]
    BY <1>1, <1>3, CreatedDoes
  <2>6. TypeInv'
    BY <1>1, <2>4, <2>5 DEF TypeInv
  <2>7. TakesBlockInVain(i, n)
    BY <1>1, <1>3, <2>3, <2>4, Zenon DEF TakesBlockInVain
  <2>. QED BY <1>1, <2>6, <2>7
<1>4. CASE disk' = disk /\ write_jobs' = write_jobs
  <2>. HIDE DEF i, n
  <2>1. TypeInv'
    BY <1>1, <1>4 DEF TypeInv
  <2>2. Updates(write_jobs, write_jobs', i)
    BY <1>1, <1>4 DEF Updates
  <2>3. TakesBlockInVain(i, n)
    BY <1>1, <1>4, <2>2, Zenon DEF TakesBlockInVain
  <2>. QED BY <1>1, <2>1, <2>3
<1>. QED BY <1>2, <1>3, <1>4

-----------------------------------------------------------------------------
(* The user, and a lost connection.                                        *)

StartsUpload(i, n) ==
    /\ upload /\ DOMAIN read_jobs = {} /\ jobs' = jobs + 1 /\ i = jobs + 1
    /\ Updates(read_jobs, read_jobs', i) /\ IsNew(read_jobs'[i], n, TRUE, FALSE)
    /\ Pushes(to_writer, to_writer', "receive", i, n)
    /\ UNCHANGED <<upload, write_jobs, to_reader, asked, disk, verdict, kept, done, tainted,
                   broken>>

StartsDownload(i, n) ==
    /\ ~upload /\ DOMAIN write_jobs = {} /\ jobs' = jobs + 1 /\ i = jobs + 1
    /\ Updates(write_jobs, write_jobs', i) /\ IsNew(write_jobs'[i], n, FALSE, FALSE)
    /\ Pushes(to_reader, to_reader', "send", i, n)
    /\ NewHistory(n)
    /\ UNCHANGED <<upload, read_jobs, to_writer, asked, disk, broken>>

AddsUpload(i, n) ==
    /\ upload /\ DOMAIN read_jobs = {} /\ jobs' = jobs + 1 /\ i = jobs + 1
    /\ Updates(read_jobs, read_jobs', i) /\ IsNew(read_jobs'[i], n, TRUE, TRUE)
    /\ UNCHANGED <<upload, write_jobs, to_writer, to_reader, asked, disk, verdict, kept, done,
                   tainted, broken>>

AddsDownload(i, n) ==
    /\ ~upload /\ DOMAIN write_jobs = {} /\ jobs' = jobs + 1 /\ i = jobs + 1
    /\ Updates(write_jobs, write_jobs', i) /\ IsNew(write_jobs'[i], n, FALSE, TRUE)
    /\ NewHistory(n)
    /\ UNCHANGED <<upload, read_jobs, to_writer, to_reader, asked, disk, broken>>

IsResumed(job, job2) ==
    /\ job.is_last_job /\ ~job2.is_last_job
    /\ job2.file_num = job.file_num /\ job2.file = job.file /\ job2.files = job.files
    /\ job2.file_confirmed = job.file_confirmed /\ job2.file_is_waiting = job.file_is_waiting

ResumesUpload(i, n) ==
    /\ upload /\ i \in DOMAIN read_jobs /\ n = read_jobs[i].file_num
    /\ Updates(read_jobs, read_jobs', i) /\ IsResumed(read_jobs[i], read_jobs'[i])
    /\ Pushes(to_writer, to_writer', "receive", i, n)
    /\ UNCHANGED <<upload, write_jobs, to_reader, asked, disk, saved, jobs, verdict, kept, done,
                   tainted, broken>>

ResumesDownload(i, n) ==
    /\ ~upload /\ i \in DOMAIN write_jobs /\ n = write_jobs[i].file_num
    /\ Updates(write_jobs, write_jobs', i) /\ IsResumed(write_jobs[i], write_jobs'[i])
    /\ Pushes(to_reader, to_reader', "send", i, n)
    /\ UNCHANGED <<upload, read_jobs, to_writer, asked, disk, saved, jobs, verdict, kept, done,
                   tainted, broken>>

CancelsUpload(i) ==
    /\ upload /\ i \in DOMAIN read_jobs
    /\ Removes(read_jobs, read_jobs', i)
    /\ Pushes(to_writer, to_writer', "cancel", i, 0)
    /\ UNCHANGED <<upload, write_jobs, to_reader, asked, disk, saved, jobs, verdict, kept, done,
                   tainted, broken>>

CancelsDownload(i) ==
    /\ ~upload /\ i \in DOMAIN write_jobs
    /\ Removes(write_jobs, write_jobs', i)
    /\ Pushes(to_reader, to_reader', "cancel", i, 0)
    /\ disk' = remove_download_file(write_jobs[i])
    /\ UNCHANGED <<upload, read_jobs, to_writer, asked, saved, jobs, verdict, kept, done, tainted,
                   broken>>

AnswersUpload(i, n, b) ==
    /\ upload /\ <<i, n>> \in asked /\ asked' = asked \ {<<i, n>>} /\ i \in DOMAIN read_jobs
    /\ Updates(read_jobs, read_jobs', i)
    /\ IsAnswered(read_jobs[i], read_jobs'[i], n, b)
    /\ IsDecided(n, b)
    /\ UNCHANGED <<upload, write_jobs, to_writer, to_reader, disk, saved, jobs, broken>>

AnswersDownload(i, n, b) ==
    /\ ~upload /\ <<i, n>> \in asked /\ asked' = asked \ {<<i, n>>} /\ i \in DOMAIN write_jobs
    /\ Updates(write_jobs, write_jobs', i)
    /\ IsAnswered(write_jobs[i], write_jobs'[i], n, b)
    /\ Pushes(to_reader, to_reader', "confirm", i, n)
    /\ to_reader'[Len(to_reader) + 1].overwrite = b
    /\ IsDecided(n, b)
    /\ UNCHANGED <<upload, read_jobs, to_writer, disk, saved, jobs, broken>>

AnswersNobody(i, n) ==
    /\ <<i, n>> \in asked /\ asked' = asked \ {<<i, n>>} /\ i \notin DOMAIN ClientJobs
    /\ UNCHANGED <<upload, read_jobs, write_jobs, to_writer, to_reader, disk, saved, jobs, verdict,
                   kept, done, tainted, broken>>

Reconnects ==
    /\ DOMAIN read_jobs' = {} /\ DOMAIN write_jobs' = {}
    /\ At(to_writer') = {} /\ At(to_reader') = {} /\ asked' = {}
    /\ UNCHANGED <<upload, disk, jobs, verdict, kept, done, tainted, broken>>

(* A table without entries. *)
LEMMA EmptyTable ==
    ASSUME NEW S, NEW js, IsTable(js, S), DOMAIN js = {}
    PROVE  js = <<>>
<1>1. js \in [1..0 -> S]
    BY DEF IsTable
<1>2. js \in Seq(S) /\ Len(js) = 0
    BY <1>1
<1>. QED BY <1>2, EmptySeq

(* The number of a new job. *)
LEMMA StartJobDoes ==
    ASSUME TypeInv, NEW n \in Nat, StartJob(n)
    PROVE  /\ DOMAIN ClientJobs = {} /\ jobs' = jobs + 1 /\ jobs' \in Nat
           /\ verdict' \in [Files -> {None, "before", "overwrite", "skip"}]
           /\ kept' \in [Files -> Contents] /\ done' \in BOOLEAN /\ tainted' \subseteq Files
           /\ upload => UNCHANGED <<verdict, kept, done, tainted>>
           /\ ~upload => NewHistory(n)
<1>1. ClientJobs = <<>> /\ jobs' = jobs + 1
    BY DEF StartJob
<1>2. DOMAIN ClientJobs = {}
    BY <1>1, EmptySeq
<1>3. jobs' \in Nat
    BY <1>1 DEF TypeInv
<1>4. CASE upload
  <2>1. UNCHANGED <<verdict, kept, done, tainted>>
    BY <1>4 DEF StartJob, historyVars
  <2>. QED BY <1>1, <1>2, <1>3, <1>4, <2>1 DEF TypeInv
<1>5. CASE ~upload
  <2>1. NewHistory(n)
    BY <1>5 DEF StartJob
  <2>2. /\ verdict' \in [Files -> {None, "before", "overwrite", "skip"}]
        /\ kept' \in [Files -> Contents] /\ done' \in BOOLEAN /\ tainted' \subseteq Files
    BY <2>1, NewHistoryDoes
  <2>. QED BY <1>1, <1>2, <1>3, <1>5, <2>1, <2>2
<1>. QED BY <1>4, <1>5

(* SendFiles. *)
LEMMA SendFilesDoes ==
    ASSUME TypeInv, SendFiles
    PROVE  (\E i \in Nat : StartsUpload(i, 0) \/ StartsDownload(i, 0)) /\ TypeInv'
<1>. DEFINE i == jobs'
            m == Request(i, 0, FALSE)
            job == ClientJob(0)
<1>1. /\ DOMAIN ClientJobs = {} /\ jobs' = jobs + 1 /\ jobs' \in Nat
      /\ verdict' \in [Files -> {None, "before", "overwrite", "skip"}]
      /\ kept' \in [Files -> Contents] /\ done' \in BOOLEAN /\ tainted' \subseteq Files
      /\ upload => UNCHANGED <<verdict, kept, done, tainted>>
      /\ ~upload => NewHistory(0)
    BY StartJobDoes DEF SendFiles
<1>2. /\ ClientSends(Put(ClientJobs, i, job), m) /\ failures' = failures
      /\ UNCHANGED <<upload, broken, disk, asked, saved>>
    BY DEF SendFiles, clientOnly
<1>3. CASE upload
  <2>1. /\ read_jobs' = Put(read_jobs, i, job) /\ to_writer' = Append(to_writer, m)
        /\ UNCHANGED <<write_jobs, to_reader>> /\ DOMAIN read_jobs = {}
    BY <1>1, <1>2, <1>3 DEF ClientSends, ClientJobs
  <2>2. job = [NewJob(0) EXCEPT !.files = TRUE]
    <3>1. upload = TRUE
      BY <1>3 DEF TypeInv
    <3>. QED BY <3>1, Zenon DEF ClientJob
  <2>3. job \in ReadJobs
    BY <2>2, NewJobIsNew, 0 \in Nat, Zenon DEF ReadJobs
  <2>3a. IsNew(job, 0, TRUE, FALSE)
    BY <2>2, NewJobIsNew, 0 \in Nat, Zenon
  <2>4. m \in Messages /\ m.kind = "receive" /\ m.id = i /\ m.num = 0
    BY <1>1, <1>3 DEF Request, Messages, Receives
  <2>. HIDE DEF job, m
  <2>5. /\ Updates(read_jobs, read_jobs', i) /\ read_jobs'[i] = job /\ IsTable(read_jobs', ReadJobs)
    BY <2>1, <2>3, PutUpdates, Tables
  <2>6. Pushes(to_writer, to_writer', "receive", i, 0) /\ to_writer' \in Seq(Messages)
    BY <2>1, <2>4, AppendPushes, Tables
  <2>7. TypeInv'
    BY <1>1, <1>2, <2>1, <2>5, <2>6 DEF TypeInv
  <2>8. StartsUpload(i, 0)
    BY <1>1, <1>2, <1>3, <2>1, <2>3a, <2>5, <2>6, Zenon DEF StartsUpload
  <2>. QED BY <1>1, <2>7, <2>8
<1>4. CASE ~upload
  <2>1. /\ write_jobs' = Put(write_jobs, i, job) /\ to_reader' = Append(to_reader, m)
        /\ UNCHANGED <<read_jobs, to_writer>> /\ DOMAIN write_jobs = {}
    BY <1>1, <1>2, <1>4 DEF ClientSends, ClientJobs
  <2>2. job = [NewJob(0) EXCEPT !.files = FALSE]
    <3>1. upload = FALSE
      BY <1>4 DEF TypeInv
    <3>. QED BY <3>1, Zenon DEF ClientJob
  <2>3. job \in WriteJobs
    BY <2>2, NewJobIsNew, 0 \in Nat, Zenon DEF WriteJobs
  <2>3a. IsNew(job, 0, FALSE, FALSE)
    BY <2>2, NewJobIsNew, 0 \in Nat, Zenon
  <2>4. m \in Messages /\ m.kind = "send" /\ m.id = i /\ m.num = 0
    BY <1>1, <1>4 DEF Request, Messages, PlainMessages, Msg
  <2>. HIDE DEF job, m
  <2>5. /\ Updates(write_jobs, write_jobs', i) /\ write_jobs'[i] = job
        /\ IsTable(write_jobs', WriteJobs)
    BY <2>1, <2>3, PutUpdates, Tables
  <2>6. Pushes(to_reader, to_reader', "send", i, 0) /\ to_reader' \in Seq(Messages)
    BY <2>1, <2>4, AppendPushes, Tables
  <2>7. TypeInv'
    BY <1>1, <1>2, <2>1, <2>5, <2>6 DEF TypeInv
  <2>8. StartsDownload(i, 0)
    BY <1>1, <1>2, <1>4, <2>1, <2>3a, <2>5, <2>6, Zenon DEF StartsDownload
  <2>. QED BY <1>1, <2>7, <2>8
<1>. QED BY <1>3, <1>4

(* AddJob. *)
LEMMA AddJobDoes ==
    ASSUME TypeInv, AddJob
    PROVE  (\E i, n \in Nat : AddsUpload(i, n) \/ AddsDownload(i, n)) /\ TypeInv'
<1>. DEFINE i == jobs'
            n == saved
            job == [ClientJob(n) EXCEPT !.is_last_job = TRUE]
<1>0. n \in Nat
    BY DEF AddJob, TypeInv
<1>1. /\ DOMAIN ClientJobs = {} /\ jobs' = jobs + 1 /\ jobs' \in Nat
      /\ verdict' \in [Files -> {None, "before", "overwrite", "skip"}]
      /\ kept' \in [Files -> Contents] /\ done' \in BOOLEAN /\ tainted' \subseteq Files
      /\ upload => UNCHANGED <<verdict, kept, done, tainted>>
      /\ ~upload => NewHistory(n)
    BY <1>0, StartJobDoes DEF AddJob
<1>2. /\ failures' = failures /\ saved' = None
      /\ UNCHANGED <<upload, broken, to_writer, to_reader, disk, asked>>
    BY DEF AddJob, clientOnly
<1>3. CASE upload
  <2>1. /\ read_jobs' = Put(read_jobs, i, job) /\ UNCHANGED write_jobs /\ DOMAIN read_jobs = {}
    BY <1>1, <1>3, Zenon DEF AddJob, ClientJobs
  <2>2. job = [[NewJob(n) EXCEPT !.files = TRUE] EXCEPT !.is_last_job = TRUE]
    <3>1. upload = TRUE
      BY <1>3 DEF TypeInv
    <3>. QED BY <3>1, Zenon DEF ClientJob
  <2>3. job \in ReadJobs
    BY <1>0, <2>2, LastJobIsNew, Zenon DEF ReadJobs
  <2>3a. IsNew(job, n, TRUE, TRUE)
    BY <1>0, <2>2, LastJobIsNew, Zenon
  <2>. HIDE DEF job, n
  <2>5. /\ Updates(read_jobs, read_jobs', i) /\ read_jobs'[i] = job /\ IsTable(read_jobs', ReadJobs)
    BY <2>1, <2>3, PutUpdates, Tables
  <2>7. TypeInv'
    BY <1>1, <1>2, <2>1, <2>5 DEF TypeInv
  <2>8. AddsUpload(i, n)
    BY <1>1, <1>2, <1>3, <2>1, <2>3a, <2>5, Zenon DEF AddsUpload
  <2>. QED BY <1>0, <1>1, <2>7, <2>8
<1>4. CASE ~upload
  <2>1. /\ write_jobs' = Put(write_jobs, i, job) /\ UNCHANGED read_jobs /\ DOMAIN write_jobs = {}
    BY <1>1, <1>4, Zenon DEF AddJob, ClientJobs
  <2>2. job = [[NewJob(n) EXCEPT !.files = FALSE] EXCEPT !.is_last_job = TRUE]
    <3>1. upload = FALSE
      BY <1>4 DEF TypeInv
    <3>. QED BY <3>1, Zenon DEF ClientJob
  <2>3. job \in WriteJobs
    BY <1>0, <2>2, LastJobIsNew, Zenon DEF WriteJobs
  <2>3a. IsNew(job, n, FALSE, TRUE)
    BY <1>0, <2>2, LastJobIsNew, Zenon
  <2>. HIDE DEF job, n
  <2>5. /\ Updates(write_jobs, write_jobs', i) /\ write_jobs'[i] = job
        /\ IsTable(write_jobs', WriteJobs)
    BY <2>1, <2>3, PutUpdates, Tables
  <2>7. TypeInv'
    BY <1>1, <1>2, <2>1, <2>5 DEF TypeInv
  <2>8. AddsDownload(i, n)
    BY <1>1, <1>2, <1>4, <2>1, <2>3a, <2>5, Zenon DEF AddsDownload
  <2>. QED BY <1>0, <1>1, <2>7, <2>8
<1>. QED BY <1>3, <1>4

(* ResumeJob. *)
LEMMA ResumeJobDoes ==
    ASSUME TypeInv, NEW i \in 1..MaxJobs, ResumeJob(i)
    PROVE  (\E n \in Nat : ResumesUpload(i, n) \/ ResumesDownload(i, n)) /\ TypeInv'
<1>. DEFINE old == ClientJobs[i]
            n == old.file_num
            m == Request(i, n, TRUE)
            job == [old EXCEPT !.is_last_job = FALSE]
<1>1. /\ i \in DOMAIN ClientJobs /\ old.is_last_job /\ failures' = failures
      /\ ClientSends([ClientJobs EXCEPT ![i] = job], m)
      /\ UNCHANGED <<upload, broken, disk, asked, saved, jobs, verdict, kept, done, tainted>>
    BY Zenon DEF ResumeJob, clientOnly, historyVars
<1>2. i \in Nat
    OBVIOUS
<1>3. CASE upload
  <2>1. ClientJobs = read_jobs
    BY <1>3 DEF ClientJobs
  <2>2. i \in DOMAIN read_jobs /\ old = read_jobs[i]
    BY <1>1, <2>1
  <2>3. /\ read_jobs' = [read_jobs EXCEPT ![i] = job] /\ to_writer' = Append(to_writer, m)
        /\ UNCHANGED <<write_jobs, to_reader>>
    BY <1>1, <1>3, <2>1, Zenon DEF ClientSends
  <2>4. old \in ReadJobs
    BY <2>2, Tables DEF IsTable
  <2>5. job \in ReadJobs /\ IsResumed(old, job) /\ n \in Nat
    BY <1>1, <2>4 DEF ReadJobs, JobsWith, IsResumed
  <2>6. m \in Messages /\ m.kind = "receive" /\ m.id = i /\ m.num = n
    BY <1>2, <1>3, <2>5 DEF Request, Messages, Receives
  <2>. HIDE DEF job, m, n, old
  <2>7. Updates(read_jobs, read_jobs', i) /\ read_jobs'[i] = job /\ IsTable(read_jobs', ReadJobs)
    BY <2>2, <2>3, <2>5, ExceptUpdates, Tables
  <2>8. Pushes(to_writer, to_writer', "receive", i, n) /\ to_writer' \in Seq(Messages)
    BY <2>3, <2>6, AppendPushes, Tables
  <2>9. TypeInv'
    BY <1>1, <2>3, <2>7, <2>8 DEF TypeInv
  <2>10. n = read_jobs[i].file_num
    BY <2>2 DEF n
  <2>11. ResumesUpload(i, n)
    BY <1>1, <1>3, <2>2, <2>3, <2>5, <2>7, <2>8, <2>10, Zenon DEF ResumesUpload
  <2>. QED BY <2>5, <2>9, <2>11
<1>4. CASE ~upload
  <2>1. ClientJobs = write_jobs
    BY <1>4 DEF ClientJobs
  <2>2. i \in DOMAIN write_jobs /\ old = write_jobs[i]
    BY <1>1, <2>1
  <2>3. /\ write_jobs' = [write_jobs EXCEPT ![i] = job] /\ to_reader' = Append(to_reader, m)
        /\ UNCHANGED <<read_jobs, to_writer>>
    BY <1>1, <1>4, <2>1, Zenon DEF ClientSends
  <2>4. old \in WriteJobs
    BY <2>2, Tables DEF IsTable
  <2>5. job \in WriteJobs /\ IsResumed(old, job) /\ n \in Nat
    BY <1>1, <2>4 DEF WriteJobs, JobsWith, IsResumed
  <2>6. m \in Messages /\ m.kind = "send" /\ m.id = i /\ m.num = n
    BY <1>2, <1>4, <2>5 DEF Request, Messages, PlainMessages, Msg
  <2>. HIDE DEF job, m, n, old
  <2>7. Updates(write_jobs, write_jobs', i) /\ write_jobs'[i] = job /\ IsTable(write_jobs', WriteJobs)
    BY <2>2, <2>3, <2>5, ExceptUpdates, Tables
  <2>8. Pushes(to_reader, to_reader', "send", i, n) /\ to_reader' \in Seq(Messages)
    BY <2>3, <2>6, AppendPushes, Tables
  <2>9. TypeInv'
    BY <1>1, <2>3, <2>7, <2>8 DEF TypeInv
  <2>10. n = write_jobs[i].file_num
    BY <2>2 DEF n
  <2>11. ResumesDownload(i, n)
    BY <1>1, <1>4, <2>2, <2>3, <2>5, <2>7, <2>8, <2>10, Zenon DEF ResumesDownload
  <2>. QED BY <2>5, <2>9, <2>11
<1>. QED BY <1>3, <1>4

(* CancelJob. *)
LEMMA CancelJobDoes ==
    ASSUME TypeInv, NEW i \in 1..MaxJobs, CancelJob(i)
    PROVE  (CancelsUpload(i) \/ CancelsDownload(i)) /\ TypeInv'
<1>. DEFINE m == Msg("cancel", i, 0)
<1>1. /\ i \in DOMAIN ClientJobs /\ failures' = failures
      /\ ClientSends(remove_job(i, ClientJobs), m)
      /\ disk' = IF upload THEN disk ELSE remove_download_file(write_jobs[i])
      /\ UNCHANGED <<upload, broken, asked, saved, jobs, verdict, kept, done, tainted>>
    BY Zenon DEF CancelJob, clientOnly, historyVars
<1>2. m \in Messages /\ m.kind = "cancel" /\ m.id = i /\ m.num = 0
    BY DEF Msg, Messages, PlainMessages
<1>. HIDE DEF m
<1>3. CASE upload
  <2>1. /\ i \in DOMAIN read_jobs /\ read_jobs' = remove_job(i, read_jobs)
        /\ to_writer' = Append(to_writer, m) /\ UNCHANGED <<write_jobs, to_reader, disk>>
    BY <1>1, <1>3 DEF ClientSends, ClientJobs
  <2>2. Removes(read_jobs, read_jobs', i) /\ IsTable(read_jobs', ReadJobs)
    BY <2>1, RemoveRemoves, Tables
  <2>3. Pushes(to_writer, to_writer', "cancel", i, 0) /\ to_writer' \in Seq(Messages)
    BY <1>2, <2>1, AppendPushes, Tables
  <2>4. TypeInv'
    BY <1>1, <2>1, <2>2, <2>3 DEF TypeInv
  <2>5. CancelsUpload(i)
    BY <1>1, <1>3, <2>1, <2>2, <2>3, Zenon DEF CancelsUpload
  <2>. QED BY <2>4, <2>5
<1>4. CASE ~upload
  <2>1. /\ i \in DOMAIN write_jobs /\ write_jobs' = remove_job(i, write_jobs)
        /\ to_reader' = Append(to_reader, m) /\ UNCHANGED <<read_jobs, to_writer>>
        /\ disk' = remove_download_file(write_jobs[i])
    BY <1>1, <1>4 DEF ClientSends, ClientJobs
  <2>2. Removes(write_jobs, write_jobs', i) /\ IsTable(write_jobs', WriteJobs)
    BY <2>1, RemoveRemoves, Tables
  <2>3. Pushes(to_reader, to_reader', "cancel", i, 0) /\ to_reader' \in Seq(Messages)
    BY <1>2, <2>1, AppendPushes, Tables
  <2>4. disk' \in [Names -> Contents]
    BY <2>1, WriterHas, RemoveDownloadDoes
  <2>5. TypeInv'
    BY <1>1, <2>1, <2>2, <2>3, <2>4 DEF TypeInv
  <2>6. CancelsDownload(i)
    BY <1>1, <1>4, <2>1, <2>2, <2>3, Zenon DEF CancelsDownload
  <2>. QED BY <2>5, <2>6
<1>. QED BY <1>3, <1>4

(* SetConfirmOverrideFile. *)
LEMMA SetConfirmDoes ==
    ASSUME TypeInv, NEW i, NEW n, NEW b \in BOOLEAN, NEW remember \in BOOLEAN,
           SetConfirmOverrideFile(i, n, b, remember)
    PROVE  /\ i \in Nat /\ n \in Files
           /\ AnswersUpload(i, n, b) \/ AnswersDownload(i, n, b) \/ AnswersNobody(i, n)
           /\ TypeInv'
<1>. DEFINE old == ClientJobs[i]
            new == IF remember THEN [old EXCEPT !.default_overwrite_strategy = b] ELSE old
            job == confirm(new, n, b)
<1>1. /\ <<i, n>> \in asked /\ asked' = asked \ {<<i, n>>} /\ failures' = failures
      /\ IF i \in DOMAIN ClientJobs THEN Answer(i, new, n, b)
         ELSE UNCHANGED <<read_jobs, write_jobs, to_reader, historyVars>>
      /\ UNCHANGED <<upload, broken, to_writer, disk, saved, jobs>>
    BY Zenon DEF SetConfirmOverrideFile, clientOnly
<1>2. i \in Nat /\ n \in Files /\ asked' \subseteq Nat \X Files
    BY <1>1 DEF TypeInv
<1>3. CASE i \notin DOMAIN ClientJobs
  <2>1. UNCHANGED <<read_jobs, write_jobs, to_reader, verdict, kept, done, tainted>>
    BY <1>1, <1>3 DEF historyVars
  <2>2. TypeInv'
    BY <1>1, <1>2, <2>1 DEF TypeInv
  <2>3. AnswersNobody(i, n)
    BY <1>1, <1>3, <2>1, Zenon DEF AnswersNobody
  <2>. QED BY <1>2, <2>2, <2>3
<1>4. CASE i \in DOMAIN ClientJobs
  <2>1. Answer(i, new, n, b)
    BY <1>1, <1>4, Zenon
  <2>2. \A handles : old \in JobsWith(handles) =>
            job \in JobsWith(handles) /\ IsAnswered(old, job, n, b)
    <3>. SUFFICES ASSUME NEW handles, old \in JobsWith(handles)
                  PROVE  job \in JobsWith(handles) /\ IsAnswered(old, job, n, b)
      OBVIOUS
    <3>1. CASE remember
      <4>1. job = confirm([old EXCEPT !.default_overwrite_strategy = b], n, b)
        BY <3>1, Zenon
      <4>2. b \in BOOLEAN \cup {None}
        OBVIOUS
      <4>. HIDE DEF old, new, job
      <4>. QED BY <4>1, <4>2, ConfirmAnswers, Zenon
    <3>2. CASE ~remember
      <4>1. job = confirm(old, n, b)
        BY <3>2, Zenon
      <4>. HIDE DEF old, new, job
      <4>. QED BY <4>1, ConfirmFields, Zenon
    <3>. QED BY <3>1, <3>2
  <2>3. Decided(n, b)
    BY <2>1, Zenon DEF Answer
  <2>4. IsDecided(n, b)
    BY <1>2, <2>3, DecidedDoes
  <2>5. /\ verdict' \in [Files -> {None, "before", "overwrite", "skip"}]
        /\ kept' \in [Files -> Contents] /\ done' \in BOOLEAN /\ tainted' \subseteq Files
    BY <1>2, <2>3, DecidedDoes
  <2>6. CASE upload
    <3>1. ClientJobs = read_jobs
      BY <2>6 DEF ClientJobs
    <3>2. /\ i \in DOMAIN read_jobs /\ old = read_jobs[i] /\ UNCHANGED <<write_jobs, to_reader>>
          /\ read_jobs' = [read_jobs EXCEPT ![i] = job]
      BY <1>4, <2>1, <2>6, <3>1, Zenon DEF Answer
    <3>3. old \in ReadJobs
      BY <3>2, Tables DEF IsTable
    <3>. HIDE DEF job, old
    <3>4. job \in ReadJobs
      BY <2>2, <3>3, Zenon DEF ReadJobs
    <3>5. IsAnswered(old, job, n, b)
      BY <2>2, <3>3, Zenon DEF ReadJobs
    <3>6. /\ Updates(read_jobs, read_jobs', i) /\ read_jobs'[i] = job
          /\ IsTable(read_jobs', ReadJobs)
      BY <3>2, <3>4, ExceptUpdates, Tables
    <3>7. TypeInv'
      BY <1>1, <1>2, <2>5, <3>2, <3>6 DEF TypeInv
    <3>8. AnswersUpload(i, n, b)
      BY <1>1, <2>4, <2>6, <3>2, <3>5, <3>6, Zenon DEF AnswersUpload
    <3>. QED BY <1>2, <3>7, <3>8, Zenon
  <2>7. CASE ~upload
    <3>. DEFINE answer == Confirmation(i, n, b)
    <3>1. ClientJobs = write_jobs
      BY <2>7 DEF ClientJobs
    <3>2. /\ i \in DOMAIN write_jobs /\ old = write_jobs[i] /\ UNCHANGED read_jobs
          /\ write_jobs' = [write_jobs EXCEPT ![i] = job]
          /\ to_reader' = Append(to_reader, answer)
      BY <1>4, <2>1, <2>7, <3>1, Zenon DEF Answer
    <3>3. old \in WriteJobs
      BY <3>2, Tables DEF IsTable
    <3>3a. n \in Nat
      BY <1>2, FileAssumption DEF Files
    <3>3b. /\ answer \in Messages /\ answer.kind = "confirm" /\ answer.id = i
           /\ answer.num = n /\ answer.overwrite = b
      BY <1>2, <3>3a DEF Confirmation, Messages, Confirms
    <3>. HIDE DEF job, old, answer
    <3>4. job \in WriteJobs
      BY <2>2, <3>3, Zenon DEF WriteJobs
    <3>5. IsAnswered(old, job, n, b)
      BY <2>2, <3>3, Zenon DEF WriteJobs
    <3>6. /\ Updates(write_jobs, write_jobs', i) /\ write_jobs'[i] = job
          /\ IsTable(write_jobs', WriteJobs)
      BY <3>2, <3>4, ExceptUpdates, Tables
    <3>6a. /\ Pushes(to_reader, to_reader', "confirm", i, n)
           /\ to_reader' \in Seq(Messages) /\ to_reader'[Len(to_reader) + 1] = answer
      BY <3>2, <3>3b, AppendPushes, Tables
    <3>7. TypeInv'
      BY <1>1, <1>2, <2>5, <3>2, <3>6, <3>6a DEF TypeInv
    <3>8. AnswersDownload(i, n, b)
      BY <1>1, <2>4, <2>7, <3>2, <3>3b, <3>5, <3>6, <3>6a, Zenon DEF AnswersDownload
    <3>. QED BY <1>2, <3>7, <3>8, Zenon
  <2>. QED BY <2>6, <2>7
<1>. QED BY <1>3, <1>4

(* reconnect. *)
LEMMA ReconnectDoes ==
    ASSUME TypeInv, reconnect
    PROVE  Reconnects /\ TypeInv'
<1>1. /\ read_jobs' = <<>> /\ write_jobs' = <<>> /\ to_writer' = <<>> /\ to_reader' = <<>>
      /\ asked' = {} /\ failures' = failures
      /\ UNCHANGED <<upload, disk, jobs, verdict, kept, done, tainted, broken>>
    BY DEF reconnect, historyVars
<1>2. saved' \in Nat \cup {None}
  <2>1. CASE ClientJobs = <<>>
    BY <2>1 DEF reconnect
  <2>2. CASE ClientJobs # <<>>
    <3>1. PICK S : S \in {ReadJobs, WriteJobs} /\ IsTable(ClientJobs, S)
      BY Tables DEF ClientJobs
    <3>2. DOMAIN ClientJobs # {}
      <4>. HIDE DEF ClientJobs
      <4>. QED BY <2>2, <3>1, EmptyTable
    <3>3. (CHOOSE id \in DOMAIN ClientJobs : TRUE) \in DOMAIN ClientJobs
      BY <3>2
    <3>4. ClientJobs[CHOOSE id \in DOMAIN ClientJobs : TRUE] \in S
      BY <3>1, <3>3 DEF IsTable
    <3>5. ClientJobs[CHOOSE id \in DOMAIN ClientJobs : TRUE].file_num \in Nat
      BY <3>1, <3>4 DEF ReadJobs, WriteJobs, JobsWith
    <3>. QED BY <2>2, <3>5 DEF reconnect
  <2>. QED BY <2>1, <2>2
<1>3. /\ IsTable(<<>>, ReadJobs) /\ IsTable(<<>>, WriteJobs) /\ <<>> \in Seq(Messages)
      /\ DOMAIN <<>> = {} /\ Len(<<>>) = 0
    BY EmptySeq DEF IsTable
<1>4. TypeInv'
    BY <1>1, <1>2, <1>3 DEF TypeInv
<1>. QED BY <1>1, <1>3, <1>4 DEF Reconnects, At

-----------------------------------------------------------------------------
(* All the steps.                                                          *)

Stutters ==
    UNCHANGED <<upload, read_jobs, write_jobs, to_writer, to_reader, asked, disk, saved, jobs, verdict,
                kept, done, tainted, broken>>

(* What a step of the system does: to which job and file, after or with    *)
(* which message.                                                          *)
Step(i, n, kind) ==
    \/ SendsDigest(i)
    \/ SendsBlock(i)
    \/ SendsEnd(i)
    \/ SendsReadError(i)
    \/ SendsDigestError(i)
    \/ SendsLast(i, kind)
    \/ GetsSend(i, n)
    \/ GetsSendInVain(i, n)
    \/ GetsCancel(i, n)
    \/ GetsConfirm(i, n)
    \/ GetsOther(kind, i, n)
    \/ GetsDigestAsks(i, n)
    \/ \E b \in BOOLEAN : GetsDigestKnows(i, n, b)
    \/ TakesOther(kind, i, n)
    \/ TakesReceive(i, n)
    \/ TakesCancel(i, n)
    \/ TakesDone(i, n)
    \/ TakesError(i, n)
    \/ TakesDir(i, n)
    \/ TakesDigestAsks(i, n)
    \/ \E b \in BOOLEAN : TakesDigestKnows(i, n, b)
    \/ TakesDigestReturns(i, n)
    \/ TakesDigestWants(i, n)
    \/ TakesDigestInVain(i, n)
    \/ TakesBlock(i, n)
    \/ TakesBlockInVain(i, n)
    \/ StartsUpload(i, n)
    \/ StartsDownload(i, n)
    \/ AddsUpload(i, n)
    \/ AddsDownload(i, n)
    \/ ResumesUpload(i, n)
    \/ ResumesDownload(i, n)
    \/ CancelsUpload(i)
    \/ CancelsDownload(i)
    \/ \E b \in BOOLEAN : AnswersUpload(i, n, b)
    \/ \E b \in BOOLEAN : AnswersDownload(i, n, b)
    \/ AnswersNobody(i, n)
    \/ Reconnects
    \/ Stutters

(* Every step of the system is one of these. *)
LEMMA NextDoes ==
    ASSUME TypeInv, KindInv, [Next]_vars
    PROVE  (\E i, n \in Nat : \E kind : Step(i, n, kind)) /\ TypeInv'
<1>. DEFINE Goal == (\E i, n \in Nat : \E kind : Step(i, n, kind)) /\ TypeInv'
<1>. SUFFICES Goal
    OBVIOUS
<1>0. 0 \in Nat
    OBVIOUS
<1>1. ASSUME NEW i \in 1..MaxJobs, read_past_end(i) PROVE Goal
  <2>1. i \in Nat
    OBVIOUS
  <2>. QED BY <1>1, <1>0, <2>1, PastEndDoes, Zenon DEF Step
<1>2. ASSUME NEW i \in 1..MaxJobs, send_current_digest(i) PROVE Goal
  <2>1. i \in Nat
    OBVIOUS
  <2>. QED BY <1>2, <1>0, <2>1, SendDigestDoes, Zenon DEF Step
<1>3. ASSUME NEW i \in 1..MaxJobs, read_block(i) PROVE Goal
  <2>1. i \in Nat
    OBVIOUS
  <2>. QED BY <1>3, <1>0, <2>1, ReadBlockDoes, Zenon DEF Step
<1>4. ASSUME NEW i \in 1..MaxJobs, read_end(i) PROVE Goal
  <2>1. i \in Nat
    OBVIOUS
  <2>. QED BY <1>4, <1>0, <2>1, ReadEndDoes, Zenon DEF Step
<1>5. ASSUME NEW i \in 1..MaxJobs, read_fails(i) PROVE Goal
  <2>1. i \in Nat
    OBVIOUS
  <2>. QED BY <1>5, <1>0, <2>1, ReadFailsDoes, Zenon DEF Step
<1>6. ASSUME NEW i \in 1..MaxJobs, digest_fails(i) PROVE Goal
  <2>1. i \in Nat
    OBVIOUS
  <2>. QED BY <1>6, <1>0, <2>1, DigestFailsDoes, Zenon DEF Step
<1>7. CASE on_send
    BY <1>7, <1>0, OnSendDoes, Zenon DEF Step
<1>8. CASE on_send_fails
    BY <1>8, <1>0, OnSendFailsDoes, Zenon DEF Step
<1>9. CASE on_cancel
    BY <1>9, <1>0, OnCancelDoes, Zenon DEF Step
<1>10. CASE on_send_confirm
    BY <1>10, <1>0, OnSendConfirmDoes, Zenon DEF Step
<1>11. CASE on_digest_upload
    BY <1>11, <1>0, OnDigestUploadDoes, Zenon DEF Step
<1>12. CASE on_job_status
    BY <1>12, <1>0, OnJobStatusDoes, Zenon DEF Step
<1>13. CASE ignore
    BY <1>13, <1>0, IgnoreDoes, Zenon DEF Step
<1>14. CASE on_receive
    BY <1>14, <1>0, OnReceiveDoes, Zenon DEF Step
<1>15. CASE on_cancel_write
    BY <1>15, <1>0, OnCancelWriteDoes, Zenon DEF Step
<1>16. CASE on_dir
    BY <1>16, <1>0, OnDirDoes, Zenon DEF Step
<1>17. CASE on_digest
    BY <1>17, <1>0, OnDigestDoes, Zenon DEF Step
<1>18. CASE CheckDigest
    BY <1>18, <1>0, CheckDigestDoes, Zenon DEF Step
<1>19. CASE on_digest_fails
    BY <1>19, <1>0, OnDigestFailsDoes, Zenon DEF Step
<1>20. CASE on_block
    BY <1>20, <1>0, OnBlockDoes, Zenon DEF Step
<1>21. CASE on_done
    BY <1>21, <1>0, OnDoneDoes, Zenon DEF Step
<1>22. CASE on_error
    BY <1>22, <1>0, OnErrorDoes, Zenon DEF Step
<1>23. CASE on_block_sync_fails
    BY <1>23, <1>0, OnBlockMoveFailsDoes, Zenon DEF Step
<1>24. CASE on_block_create_fails
    BY <1>24, <1>0, OnBlockMoveFailsDoes, Zenon DEF Step
<1>25. CASE on_block_write_fails
    BY <1>25, <1>0, OnBlockWriteFailsDoes, Zenon DEF Step
<1>26. CASE SendFiles
    BY <1>26, <1>0, SendFilesDoes, Zenon DEF Step
<1>27. CASE AddJob
    BY <1>27, <1>0, AddJobDoes, Zenon DEF Step
<1>28. ASSUME NEW i \in 1..MaxJobs, ResumeJob(i) PROVE Goal
  <2>1. i \in Nat
    OBVIOUS
  <2>. QED BY <1>28, <1>0, <2>1, ResumeJobDoes, Zenon DEF Step
<1>29. ASSUME NEW i \in 1..MaxJobs, CancelJob(i) PROVE Goal
  <2>1. i \in Nat
    OBVIOUS
  <2>. QED BY <1>29, <1>0, <2>1, CancelJobDoes, Zenon DEF Step
<1>30. ASSUME NEW question \in asked, NEW overwrite \in BOOLEAN, NEW remember \in BOOLEAN,
               SetConfirmOverrideFile(question[1], question[2], overwrite, remember)
       PROVE  Goal
  <2>. DEFINE i == question[1]
              n == question[2]
  <2>1. /\ i \in Nat /\ n \in Files
        /\ \/ AnswersUpload(i, n, overwrite) \/ AnswersDownload(i, n, overwrite)
           \/ AnswersNobody(i, n)
        /\ TypeInv'
    BY <1>30, SetConfirmDoes, Zenon
  <2>. HIDE DEF i, n
  <2>2. n \in Nat
    BY <2>1, FileAssumption DEF Files
  <2>. QED BY <2>1, <2>2, Zenon DEF Step
<1>31. CASE reconnect
    BY <1>31, <1>0, ReconnectDoes, Zenon DEF Step
<1>32. CASE UNCHANGED vars
  <2>1. Stutters /\ failures' = failures
    BY <1>32 DEF vars, jobVars, historyVars, Stutters
  <2>2. TypeInv'
    BY <2>1 DEF TypeInv, Stutters
  <2>. QED BY <1>0, <2>1, <2>2, Zenon DEF Step
<1>. HIDE DEF Goal
<1>. QED BY <1>1, <1>2, <1>3, <1>4, <1>5, <1>6, <1>7, <1>8, <1>9, <1>10, <1>11, <1>12, <1>13,
   <1>14, <1>15, <1>16, <1>17, <1>18, <1>19, <1>20, <1>21, <1>22, <1>23, <1>24, <1>25, <1>26,
   <1>27, <1>28, <1>29, <1>30, <1>31, <1>32, Zenon DEF Next, ReaderReceives, WriterReceives,
   UserStep, handle_read_job

-----------------------------------------------------------------------------
(* Ids and kinds.                                                          *)

(* The ids given so far are the only ones, and the client has one job. *)
LEMMA IdStep ==
    ASSUME TypeInv, TypeInv', IdInv, KindInv, NEW i \in Nat, NEW n \in Nat, NEW kind, Step(i, n,
           kind)
    PROVE  IdInv'
<1>0. jobs \in Nat /\ upload \in BOOLEAN
    BY DEF TypeInv
<1>1. CASE SendsDigest(i)
    BY <1>1 DEF SendsDigest, Timer, Updates, Pushes, readerFrame, IdInv, InW, InR, W, R, Ids
<1>2. CASE SendsBlock(i)
    BY <1>2 DEF SendsBlock, Timer, Updates, Pushes, readerFrame, IdInv, InW, InR, W, R, Ids
<1>3. CASE SendsEnd(i)
    BY <1>3 DEF SendsEnd, Timer, Updates, Pushes, readerFrame, IdInv, InW, InR, W, R, Ids
<1>4. CASE SendsReadError(i)
    BY <1>4 DEF SendsReadError, Timer, Updates, Pushes, readerFrame, IdInv, InW, InR, W, R, Ids
<1>5. CASE SendsDigestError(i)
    BY <1>5 DEF SendsDigestError, Timer, Updates, Pushes, readerFrame, IdInv, InW, InR, W, R, Ids
<1>6. CASE SendsLast(i, kind)
    BY <1>6 DEF SendsLast, Removes, Pushes, readerFrame, IdInv, InW, InR, W, R, Ids
<1>7. CASE GetsSend(i, n)
    BY <1>7 DEF GetsSend, Gets, Pops, Updates, IsNew, Pushes, readerFrame, IdInv, InW, InR, W, R,
       Ids, KindInv, UploadKinds, DownloadKinds
<1>8. CASE GetsSendInVain(i, n)
    BY <1>8 DEF GetsSendInVain, Gets, Pops, Pushes, readerFrame, IdInv, InW, InR, W, R, Ids
<1>9. CASE GetsCancel(i, n)
    BY <1>9 DEF GetsCancel, Gets, Pops, Removes, readerFrame, IdInv, InW, InR, W, R, Ids
<1>10. CASE GetsConfirm(i, n)
    BY <1>10 DEF GetsConfirm, Gets, Pops, Updates, IsAnswered, readerFrame, IdInv, InW, InR, W, R,
       Ids
<1>11. CASE GetsOther(kind, i, n)
    BY <1>11 DEF GetsOther, Gets, Pops, readerFrame, IdInv, InW, InR, W, R, Ids
<1>12. CASE GetsDigestAsks(i, n)
    BY <1>12 DEF GetsDigestAsks, Gets, Pops, IdInv, InW, InR, W, R, Ids
<1>13. ASSUME NEW b \in BOOLEAN, GetsDigestKnows(i, n, b) PROVE IdInv'
    BY <1>13 DEF GetsDigestKnows, Gets, Pops, Updates, IsAnswered, IsDecided, IdInv, InW, InR, W,
       R, Ids
<1>14. CASE TakesOther(kind, i, n)
    BY <1>14 DEF TakesOther, Takes, Pops, IdInv, InW, InR, W, R, Ids
<1>15. CASE TakesReceive(i, n)
    BY <1>15 DEF TakesReceive, Takes, Pops, Updates, IsNew, IdInv, InW, InR, W, R, Ids, KindInv,
       UploadKinds, DownloadKinds
<1>16. CASE TakesCancel(i, n)
    BY <1>16 DEF TakesCancel, Takes, Pops, Removes, IdInv, InW, InR, W, R, Ids
<1>17. CASE TakesDone(i, n)
    BY <1>17 DEF TakesDone, Takes, Pops, Removes, Told, Pushes, IdInv, InW, InR, W, R, Ids
<1>18. CASE TakesError(i, n)
    BY <1>18 DEF TakesError, Takes, Pops, Removes, Told, Pushes, IdInv, InW, InR, W, R, Ids
<1>19. CASE TakesDir(i, n)
    BY <1>19 DEF TakesDir, Takes, Pops, Updates, IdInv, InW, InR, W, R, Ids
<1>20. CASE TakesDigestAsks(i, n)
    BY <1>20 DEF TakesDigestAsks, Takes, Pops, IdInv, InW, InR, W, R, Ids
<1>21. ASSUME NEW b \in BOOLEAN, TakesDigestKnows(i, n, b) PROVE IdInv'
  <2>1. /\ ~upload /\ Takes("digest", i, n) /\ i \in DOMAIN write_jobs
        /\ Updates(write_jobs, write_jobs', i)
        /\ Pushes(to_reader, to_reader', "confirm", i, n)
        /\ UNCHANGED <<upload, read_jobs, asked, disk, saved, jobs, broken>>
    BY <1>21, Zenon DEF TakesDigestKnows
  <2>. QED BY <2>1 DEF Takes, Pops, Updates, Pushes, IdInv, InW, InR, W, R, Ids
<1>22. CASE TakesDigestReturns(i, n)
    BY <1>22 DEF TakesDigestReturns, Takes, Pops, Pushes, IdInv, InW, InR, W, R, Ids
<1>23. CASE TakesDigestWants(i, n)
  <2>1. /\ upload /\ Takes("digest", i, n) /\ i \in DOMAIN write_jobs
        /\ Pushes(to_reader, to_reader', "confirm", i, n)
        /\ UNCHANGED <<upload, read_jobs, write_jobs, asked, disk, saved, jobs, broken>>
    BY <1>23, Zenon DEF TakesDigestWants
  <2>. QED BY <2>1 DEF Takes, Pops, Pushes, IdInv, InW, InR, W, R, Ids
<1>24. CASE TakesDigestInVain(i, n)
    BY <1>24 DEF TakesDigestInVain, Takes, Pops, Told, Pushes, IdInv, InW, InR, W, R, Ids
<1>25. CASE TakesBlock(i, n)
    BY <1>25 DEF TakesBlock, Takes, Pops, Updates, IsWriting, IdInv, InW, InR, W, R, Ids
<1>26. CASE TakesBlockInVain(i, n)
    BY <1>26 DEF TakesBlockInVain, Takes, Pops, Updates, IsWriting, Told, Pushes, IdInv, InW, InR,
       W, R, Ids
<1>27. CASE StartsUpload(i, n)
    BY <1>27, <1>0 DEF StartsUpload, Updates, IsNew, Pushes, IdInv, InW, InR, W, R, Ids
<1>28. CASE StartsDownload(i, n)
    BY <1>28, <1>0 DEF StartsDownload, Updates, IsNew, Pushes, IdInv, InW, InR, W, R, Ids
<1>29. CASE AddsUpload(i, n)
    BY <1>29, <1>0 DEF AddsUpload, Updates, IsNew, IdInv, InW, InR, W, R, Ids
<1>30. CASE AddsDownload(i, n)
    BY <1>30, <1>0 DEF AddsDownload, Updates, IsNew, IdInv, InW, InR, W, R, Ids
<1>31. CASE ResumesUpload(i, n)
    BY <1>31 DEF ResumesUpload, Updates, IsResumed, Pushes, IdInv, InW, InR, W, R, Ids
<1>32. CASE ResumesDownload(i, n)
    BY <1>32 DEF ResumesDownload, Updates, IsResumed, Pushes, IdInv, InW, InR, W, R, Ids
<1>33. CASE CancelsUpload(i)
    BY <1>33 DEF CancelsUpload, Removes, Pushes, IdInv, InW, InR, W, R, Ids
<1>34. CASE CancelsDownload(i)
    BY <1>34 DEF CancelsDownload, Removes, Pushes, IdInv, InW, InR, W, R, Ids
<1>35. ASSUME NEW b \in BOOLEAN, AnswersUpload(i, n, b) PROVE IdInv'
    BY <1>35 DEF AnswersUpload, Updates, IsAnswered, IsDecided, IdInv, InW, InR, W, R, Ids
<1>36. ASSUME NEW b \in BOOLEAN, AnswersDownload(i, n, b) PROVE IdInv'
    BY <1>36 DEF AnswersDownload, Updates, IsAnswered, IsDecided, Pushes, IdInv, InW, InR, W, R,
       Ids
<1>37. CASE AnswersNobody(i, n)
    BY <1>37 DEF AnswersNobody, IdInv, InW, InR, W, R, Ids
<1>38. CASE Reconnects
    BY <1>38 DEF Reconnects, IdInv, InW, InR, W, R, Ids
<1>39. CASE Stutters
    BY <1>39 DEF Stutters, IdInv, InW, InR, W, R, Ids
<1>. QED BY <1>1, <1>2, <1>3, <1>4, <1>5, <1>6, <1>7, <1>8, <1>9, <1>10, <1>11, <1>12, <1>13,
   <1>14, <1>15, <1>16, <1>17, <1>18, <1>19, <1>20, <1>21, <1>22, <1>23, <1>24, <1>25, <1>26,
   <1>27, <1>28, <1>29, <1>30, <1>31, <1>32, <1>33, <1>34, <1>35, <1>36, <1>37, <1>38, <1>39,
   Zenon DEF Step

(* Which messages there are in an upload and in a download, and about which files. *)
LEMMA KindStep ==
    ASSUME TypeInv, TypeInv', KindInv, NEW i \in Nat, NEW n \in Nat, NEW kind, Step(i, n, kind)
    PROVE  KindInv'
<1>0. asked \subseteq Nat \X Files
    BY DEF TypeInv
<1>1. CASE SendsDigest(i)
    BY <1>1 DEF SendsDigest, Timer, Updates, Pushes, readerFrame, KindInv, UploadKinds,
       DownloadKinds, InW, InR, W, R
<1>2. CASE SendsBlock(i)
    BY <1>2 DEF SendsBlock, Timer, Updates, Pushes, readerFrame, KindInv, UploadKinds,
       DownloadKinds, InW, InR, W, R
<1>3. CASE SendsEnd(i)
    BY <1>3 DEF SendsEnd, Timer, Updates, Pushes, readerFrame, KindInv, UploadKinds,
       DownloadKinds, InW, InR, W, R
<1>4. CASE SendsReadError(i)
    BY <1>4 DEF SendsReadError, Timer, Updates, Pushes, readerFrame, KindInv, UploadKinds,
       DownloadKinds, InW, InR, W, R
<1>5. CASE SendsDigestError(i)
    BY <1>5 DEF SendsDigestError, Timer, Updates, Pushes, readerFrame, KindInv, UploadKinds,
       DownloadKinds, InW, InR, W, R
<1>6. CASE SendsLast(i, kind)
    BY <1>6 DEF SendsLast, Removes, Pushes, readerFrame, KindInv, UploadKinds, DownloadKinds, InW,
       InR, W, R
<1>7. CASE GetsSend(i, n)
  <2>1. /\ Gets("send", i, n) /\ Pushes(to_writer, to_writer', "dir", i, 0) /\ upload' = upload
    BY <1>7, Zenon DEF GetsSend, readerFrame
  <2>2. \A p \in InR' : p + 1 \in InR /\ R(p)' = R(p + 1)
    BY <2>1 DEF Gets, Pops, InR, R
  <2>3. \A p \in InW' : W(p)'.kind = "dir" \/ (p \in InW /\ W(p)' = W(p))
    BY <2>1 DEF Pushes, InW, W
  <2>4. ~upload
    BY <2>1 DEF Gets, Pops, KindInv, UploadKinds, InR, R
  <2>. QED BY <2>1, <2>2, <2>3, <2>4 DEF KindInv, UploadKinds, DownloadKinds
<1>8. CASE GetsSendInVain(i, n)
    BY <1>8 DEF GetsSendInVain, Gets, Pops, Pushes, readerFrame, KindInv, UploadKinds,
       DownloadKinds, InW, InR, W, R
<1>9. CASE GetsCancel(i, n)
    BY <1>9 DEF GetsCancel, Gets, Pops, Removes, readerFrame, KindInv, UploadKinds, DownloadKinds,
       InW, InR, W, R
<1>10. CASE GetsConfirm(i, n)
    BY <1>10 DEF GetsConfirm, Gets, Pops, readerFrame, KindInv, UploadKinds, DownloadKinds, InW,
       InR, W, R
<1>11. CASE GetsOther(kind, i, n)
    BY <1>11 DEF GetsOther, Gets, Pops, readerFrame, KindInv, UploadKinds, DownloadKinds, InW,
       InR, W, R
<1>12. CASE GetsDigestAsks(i, n)
    BY <1>12 DEF GetsDigestAsks, Gets, Pops, KindInv, UploadKinds, DownloadKinds, InW, InR, W, R
<1>13. ASSUME NEW b \in BOOLEAN, GetsDigestKnows(i, n, b) PROVE KindInv'
    BY <1>13 DEF GetsDigestKnows, Gets, Pops, Updates, IsAnswered, IsDecided, KindInv,
       UploadKinds, DownloadKinds, InW, InR, W, R
<1>14. CASE TakesOther(kind, i, n)
    BY <1>14 DEF TakesOther, Takes, Pops, KindInv, UploadKinds, DownloadKinds, InW, InR, W, R
<1>15. CASE TakesReceive(i, n)
    BY <1>15 DEF TakesReceive, Takes, Pops, Updates, IsNew, KindInv, UploadKinds, DownloadKinds,
       InW, InR, W, R
<1>16. CASE TakesCancel(i, n)
    BY <1>16 DEF TakesCancel, Takes, Pops, Removes, KindInv, UploadKinds, DownloadKinds, InW, InR,
       W, R
<1>17. CASE TakesDone(i, n)
  <2>1. /\ Takes("done", i, n) /\ i \in DOMAIN write_jobs
        /\ Told("done", i, n) /\ upload' = upload
    BY <1>17, Zenon DEF TakesDone
  <2>2. \A p \in InW' : p + 1 \in InW /\ W(p)' = W(p + 1)
    BY <2>1 DEF Takes, Pops, InW, W
  <2>3. \A p \in InR' : (p \in InR /\ R(p)' = R(p)) \/ (upload /\ R(p)'.kind \in {"done", "error"})
    BY <2>1 DEF Told, Pushes, InR, R
  <2>. QED BY <2>1, <2>2, <2>3 DEF KindInv, UploadKinds, DownloadKinds
<1>18. CASE TakesError(i, n)
  <2>1. CASE upload
    BY <1>18, <2>1 DEF TakesError, Takes, Pops, Removes, Told, Pushes, KindInv, UploadKinds, DownloadKinds, InW, InR, W, R
  <2>2. CASE ~upload
    BY <1>18, <2>2 DEF TakesError, Takes, Pops, Removes, Told, KindInv, UploadKinds, DownloadKinds, InW, InR, W, R
  <2>. QED BY <2>1, <2>2
<1>19. CASE TakesDir(i, n)
    BY <1>19 DEF TakesDir, Takes, Pops, Updates, KindInv, UploadKinds, DownloadKinds, InW, InR, W,
       R
<1>20. CASE TakesDigestAsks(i, n)
    BY <1>20 DEF TakesDigestAsks, Takes, Pops, KindInv, UploadKinds, DownloadKinds, InW, InR, W, R
<1>21. ASSUME NEW b \in BOOLEAN, TakesDigestKnows(i, n, b) PROVE KindInv'
  <2>1. /\ ~upload /\ Takes("digest", i, n) /\ i \in DOMAIN write_jobs
        /\ Updates(write_jobs, write_jobs', i)
        /\ Pushes(to_reader, to_reader', "confirm", i, n)
        /\ UNCHANGED <<upload, read_jobs, asked, disk, saved, jobs, broken>>
    BY <1>21, Zenon DEF TakesDigestKnows
  <2>. QED BY <2>1 DEF Takes, Pops, Updates, Pushes, KindInv, UploadKinds, DownloadKinds, InW,
     InR, W, R
<1>22. CASE TakesDigestReturns(i, n)
    BY <1>22 DEF TakesDigestReturns, Takes, Pops, Pushes, KindInv, UploadKinds, DownloadKinds,
       InW, InR, W, R
<1>23. CASE TakesDigestWants(i, n)
    BY <1>23 DEF TakesDigestWants, Takes, Pops, Pushes, KindInv, UploadKinds, DownloadKinds, InW,
       InR, W, R
<1>24. CASE TakesDigestInVain(i, n)
  <2>1. /\ Takes("digest", i, n) /\ i \in DOMAIN write_jobs
        /\ Told("error", i, n) /\ upload' = upload
    BY <1>24, Zenon DEF TakesDigestInVain
  <2>2. \A p \in InW' : p + 1 \in InW /\ W(p)' = W(p + 1)
    BY <2>1 DEF Takes, Pops, InW, W
  <2>3. \A p \in InR' : (p \in InR /\ R(p)' = R(p)) \/ (upload /\ R(p)'.kind \in {"done", "error"})
    BY <2>1 DEF Told, Pushes, InR, R
  <2>. QED BY <2>1, <2>2, <2>3 DEF KindInv, UploadKinds, DownloadKinds
<1>25. CASE TakesBlock(i, n)
    BY <1>25 DEF TakesBlock, Takes, Pops, Updates, IsWriting, KindInv, UploadKinds, DownloadKinds,
       InW, InR, W, R
<1>26. CASE TakesBlockInVain(i, n)
  <2>1. /\ Takes("block", i, n) /\ i \in DOMAIN write_jobs
        /\ Told("error", i, n) /\ upload' = upload
    BY <1>26, Zenon DEF TakesBlockInVain
  <2>2. \A p \in InW' : p + 1 \in InW /\ W(p)' = W(p + 1)
    BY <2>1 DEF Takes, Pops, InW, W
  <2>3. \A p \in InR' : (p \in InR /\ R(p)' = R(p)) \/ (upload /\ R(p)'.kind \in {"done", "error"})
    BY <2>1 DEF Told, Pushes, InR, R
  <2>. QED BY <2>1, <2>2, <2>3 DEF KindInv, UploadKinds, DownloadKinds
<1>27. CASE StartsUpload(i, n)
    BY <1>27 DEF StartsUpload, Updates, IsNew, Pushes, KindInv, UploadKinds, DownloadKinds, InW,
       InR, W, R
<1>28. CASE StartsDownload(i, n)
    BY <1>28 DEF StartsDownload, Updates, IsNew, Pushes, KindInv, UploadKinds, DownloadKinds, InW,
       InR, W, R
<1>29. CASE AddsUpload(i, n)
    BY <1>29 DEF AddsUpload, Updates, IsNew, KindInv, UploadKinds, DownloadKinds, InW, InR, W, R
<1>30. CASE AddsDownload(i, n)
    BY <1>30 DEF AddsDownload, Updates, IsNew, KindInv, UploadKinds, DownloadKinds, InW, InR, W, R
<1>31. CASE ResumesUpload(i, n)
    BY <1>31 DEF ResumesUpload, Updates, IsResumed, Pushes, KindInv, UploadKinds, DownloadKinds,
       InW, InR, W, R
<1>32. CASE ResumesDownload(i, n)
    BY <1>32 DEF ResumesDownload, Updates, IsResumed, Pushes, KindInv, UploadKinds, DownloadKinds,
       InW, InR, W, R
<1>33. CASE CancelsUpload(i)
    BY <1>33 DEF CancelsUpload, Removes, Pushes, KindInv, UploadKinds, DownloadKinds, InW, InR, W,
       R
<1>34. CASE CancelsDownload(i)
    BY <1>34 DEF CancelsDownload, Removes, Pushes, KindInv, UploadKinds, DownloadKinds, InW, InR,
       W, R
<1>35. ASSUME NEW b \in BOOLEAN, AnswersUpload(i, n, b) PROVE KindInv'
    BY <1>35 DEF AnswersUpload, Updates, IsAnswered, IsDecided, KindInv, UploadKinds,
       DownloadKinds, InW, InR, W, R
<1>36. ASSUME NEW b \in BOOLEAN, AnswersDownload(i, n, b) PROVE KindInv'
  <2>1. /\ ~upload /\ <<i, n>> \in asked /\ asked' = asked \ {<<i, n>>} /\ i \in DOMAIN write_jobs
        /\ Updates(write_jobs, write_jobs', i)
        /\ Pushes(to_reader, to_reader', "confirm", i, n)
        /\ UNCHANGED <<upload, read_jobs, to_writer, disk, saved, jobs, broken>>
    BY <1>36, Zenon DEF AnswersDownload
  <2>. QED BY <2>1, <1>0 DEF Updates, Pushes, KindInv, UploadKinds, DownloadKinds, InW, InR, W, R
<1>37. CASE AnswersNobody(i, n)
    BY <1>37 DEF AnswersNobody, KindInv, UploadKinds, DownloadKinds, InW, InR, W, R
<1>38. CASE Reconnects
    BY <1>38 DEF Reconnects, KindInv, UploadKinds, DownloadKinds, InW, InR, W, R
<1>39. CASE Stutters
    BY <1>39 DEF Stutters, KindInv, UploadKinds, DownloadKinds, InW, InR, W, R
<1>. QED BY <1>1, <1>2, <1>3, <1>4, <1>5, <1>6, <1>7, <1>8, <1>9, <1>10, <1>11, <1>12, <1>13,
   <1>14, <1>15, <1>16, <1>17, <1>18, <1>19, <1>20, <1>21, <1>22, <1>23, <1>24, <1>25, <1>26,
   <1>27, <1>28, <1>29, <1>30, <1>31, <1>32, <1>33, <1>34, <1>35, <1>36, <1>37, <1>38, <1>39,
   Zenon DEF Step

-----------------------------------------------------------------------------
(* The order of the jobs, in an upload and in a download.                  *)

UploadStep(i, n, kind) ==
    \/ SendsDigest(i)
    \/ SendsBlock(i)
    \/ SendsEnd(i)
    \/ SendsReadError(i)
    \/ SendsDigestError(i)
    \/ SendsLast(i, kind)
    \/ GetsConfirm(i, n)
    \/ GetsOther(kind, i, n)
    \/ GetsDigestAsks(i, n)
    \/ \E b \in BOOLEAN : GetsDigestKnows(i, n, b)
    \/ TakesOther(kind, i, n)
    \/ TakesReceive(i, n)
    \/ TakesCancel(i, n)
    \/ TakesDone(i, n)
    \/ TakesError(i, n)
    \/ TakesDigestReturns(i, n)
    \/ TakesDigestWants(i, n)
    \/ TakesDigestInVain(i, n)
    \/ TakesBlock(i, n)
    \/ TakesBlockInVain(i, n)
    \/ StartsUpload(i, n)
    \/ AddsUpload(i, n)
    \/ ResumesUpload(i, n)
    \/ CancelsUpload(i)
    \/ \E b \in BOOLEAN : AnswersUpload(i, n, b)
    \/ AnswersNobody(i, n)
    \/ Reconnects
    \/ Stutters

DownloadStep(i, n, kind) ==
    \/ SendsDigest(i)
    \/ SendsBlock(i)
    \/ SendsEnd(i)
    \/ SendsReadError(i)
    \/ SendsDigestError(i)
    \/ SendsLast(i, kind)
    \/ GetsSend(i, n)
    \/ GetsSendInVain(i, n)
    \/ GetsCancel(i, n)
    \/ GetsConfirm(i, n)
    \/ GetsOther(kind, i, n)
    \/ TakesOther(kind, i, n)
    \/ TakesDone(i, n)
    \/ TakesError(i, n)
    \/ TakesDir(i, n)
    \/ TakesDigestAsks(i, n)
    \/ \E b \in BOOLEAN : TakesDigestKnows(i, n, b)
    \/ TakesDigestInVain(i, n)
    \/ TakesBlock(i, n)
    \/ TakesBlockInVain(i, n)
    \/ StartsDownload(i, n)
    \/ AddsDownload(i, n)
    \/ ResumesDownload(i, n)
    \/ CancelsDownload(i)
    \/ \E b \in BOOLEAN : AnswersDownload(i, n, b)
    \/ AnswersNobody(i, n)
    \/ Reconnects
    \/ Stutters

(* The steps of an upload. *)
LEMMA UploadSteps ==
    ASSUME TypeInv, KindInv, upload, NEW i \in Nat, NEW n \in Nat, NEW kind, Step(i, n, kind)
    PROVE  UploadStep(i, n, kind)
<1>1. ~GetsSend(i, n)
    BY DEF GetsSend, Gets, Pops, KindInv, UploadKinds, DownloadKinds, InR, R
<1>2. ~GetsSendInVain(i, n)
    BY DEF GetsSendInVain, Gets, Pops, KindInv, UploadKinds, DownloadKinds, InR, R
<1>3. ~GetsCancel(i, n)
    BY DEF GetsCancel, Gets, Pops, KindInv, UploadKinds, DownloadKinds, InR, R
<1>4. ~TakesDir(i, n)
    BY DEF TakesDir, Takes, Pops, KindInv, UploadKinds, DownloadKinds, InW, W
<1>5. ~TakesDigestAsks(i, n)
    BY Zenon DEF TakesDigestAsks
<1>6. ~(\E b \in BOOLEAN : TakesDigestKnows(i, n, b))
    BY Zenon DEF TakesDigestKnows
<1>7. ~StartsDownload(i, n)
    BY Zenon DEF StartsDownload
<1>8. ~AddsDownload(i, n)
    BY Zenon DEF AddsDownload
<1>9. ~ResumesDownload(i, n)
    BY Zenon DEF ResumesDownload
<1>10. ~CancelsDownload(i)
    BY Zenon DEF CancelsDownload
<1>11. ~(\E b \in BOOLEAN : AnswersDownload(i, n, b))
    BY Zenon DEF AnswersDownload
<1>. QED BY <1>1, <1>2, <1>3, <1>4, <1>5, <1>6, <1>7, <1>8, <1>9, <1>10, <1>11, Zenon DEF Step,
   UploadStep

(* The steps of a download. *)
LEMMA DownloadSteps ==
    ASSUME TypeInv, KindInv, ~upload, NEW i \in Nat, NEW n \in Nat, NEW kind, Step(i, n, kind)
    PROVE  DownloadStep(i, n, kind)
<1>1. ~GetsDigestAsks(i, n)
    BY Zenon DEF GetsDigestAsks
<1>2. ~(\E b \in BOOLEAN : GetsDigestKnows(i, n, b))
    BY Zenon DEF GetsDigestKnows
<1>3. ~TakesReceive(i, n)
    BY DEF TakesReceive, Takes, Pops, KindInv, UploadKinds, DownloadKinds, InW, W
<1>4. ~TakesCancel(i, n)
    BY DEF TakesCancel, Takes, Pops, KindInv, UploadKinds, DownloadKinds, InW, W
<1>5. ~TakesDigestReturns(i, n)
    BY Zenon DEF TakesDigestReturns
<1>6. ~TakesDigestWants(i, n)
    BY Zenon DEF TakesDigestWants
<1>7. ~StartsUpload(i, n)
    BY Zenon DEF StartsUpload
<1>8. ~AddsUpload(i, n)
    BY Zenon DEF AddsUpload
<1>9. ~ResumesUpload(i, n)
    BY Zenon DEF ResumesUpload
<1>10. ~CancelsUpload(i)
    BY Zenon DEF CancelsUpload
<1>11. ~(\E b \in BOOLEAN : AnswersUpload(i, n, b))
    BY Zenon DEF AnswersUpload
<1>. QED BY <1>1, <1>2, <1>3, <1>4, <1>5, <1>6, <1>7, <1>8, <1>9, <1>10, <1>11, Zenon DEF Step,
   DownloadStep

(* Nothing of an upload is under way before the host has heard of it. *)
LEMMA UploadFreshStep ==
    ASSUME TypeInv, TypeInv', IdInv, KindInv, upload, UploadFreshInv, UploadOrder, NEW i \in Nat,
           NEW n \in Nat, NEW kind, UploadStep(i, n, kind)
    PROVE  UploadFreshInv'
<1>0. jobs \in Nat
    BY DEF TypeInv
<1>1. CASE SendsDigest(i)
    BY <1>1 DEF SendsDigest, Timer, Updates, Pushes, readerFrame, UploadFreshInv, UploadNew,
       IsToken, IsW, InW, InR, W, R
<1>2. CASE SendsBlock(i)
  <2>1. /\ i \in DOMAIN read_jobs /\ read_jobs[i].file_confirmed /\ Updates(read_jobs, read_jobs', i)
        /\ ~read_jobs[i].is_last_job /\ ~read_jobs'[i].is_last_job
        /\ Pushes(to_writer, to_writer', "block", i, read_jobs[i].file_num)
        /\ UNCHANGED <<write_jobs, asked, to_reader>>
    BY <1>2, Zenon DEF SendsBlock, Timer, readerFrame
  <2>2. \A k : UploadNew(k) => UploadNew(k)'
    BY <2>1 DEF Updates, Pushes, UploadNew, IsToken, IsW, InW, InR, W, R
  <2>3. \A p \in InW' : (p \in InW /\ W(p)' = W(p)) \/ (W(p)'.kind = "block" /\ W(p)'.id = i)
    BY <2>1 DEF Pushes, InW, W
  <2>4. ~UploadNew(i)
    BY <2>1 DEF UploadNew
  <2>. QED BY <2>1, <2>2, <2>3, <2>4 DEF Updates, UploadFreshInv
<1>3. CASE SendsEnd(i)
    BY <1>3 DEF SendsEnd, Timer, Updates, Pushes, readerFrame, UploadFreshInv, UploadNew, IsToken,
       IsW, InW, InR, W, R
<1>4. CASE SendsReadError(i)
    BY <1>4 DEF SendsReadError, Timer, Updates, Pushes, readerFrame, UploadFreshInv, UploadNew,
       IsToken, IsW, InW, InR, W, R
<1>5. CASE SendsDigestError(i)
    BY <1>5 DEF SendsDigestError, Timer, Updates, Pushes, readerFrame, UploadFreshInv, UploadNew,
       IsToken, IsW, InW, InR, W, R
<1>6. CASE SendsLast(i, kind)
    BY <1>6 DEF SendsLast, Removes, Pushes, readerFrame, UploadFreshInv, UploadNew, IsToken, IsW,
       InW, InR, W, R
<1>7. CASE GetsConfirm(i, n)
    BY <1>7 DEF GetsConfirm, Gets, Pops, Updates, IsAnswered, readerFrame, UploadFreshInv,
       UploadNew, IsToken, IsW, InW, InR, W, R
<1>8. CASE GetsOther(kind, i, n)
    BY <1>8 DEF GetsOther, Gets, Pops, readerFrame, UploadFreshInv, UploadNew, IsToken, IsW, InW,
       InR, W, R
<1>9. CASE GetsDigestAsks(i, n)
    BY <1>9 DEF GetsDigestAsks, Gets, Pops, UploadFreshInv, UploadNew, IsToken, IsW, InW, InR, W,
       R
<1>10. ASSUME NEW b \in BOOLEAN, GetsDigestKnows(i, n, b) PROVE UploadFreshInv'
    BY <1>10 DEF GetsDigestKnows, Gets, Pops, Updates, IsAnswered, IsDecided, UploadFreshInv,
       UploadNew, IsToken, IsW, InW, InR, W, R
<1>11. CASE TakesOther(kind, i, n)
    BY <1>11 DEF TakesOther, Takes, Pops, UploadFreshInv, UploadNew, IsToken, IsW, InW, InR, W, R
<1>12. CASE TakesReceive(i, n)
  <2>1. /\ Takes("receive", i, n)
        /\ Updates(write_jobs, write_jobs', i)
        /\ IsNew(write_jobs'[i], n, TRUE, FALSE)
        /\ UNCHANGED <<upload, read_jobs, to_reader, asked, saved, jobs, broken>>
    BY <1>12, Zenon DEF TakesReceive
  <2>2. \A k : UploadNew(k) /\ k # i => UploadNew(k)'
    BY <2>1 DEF Takes, Pops, Updates, UploadNew, IsToken, IsW, InW, InR, W, R
  <2>3. \A p \in InW' : W(p)'.kind = "receive" => W(p)'.id # i
    <3>1. \A p \in InW' : 1 < p + 1
        BY DEF InW, At
    <3>. QED BY <2>1, <3>1 DEF Takes, Pops, UploadOrder, InW, W
  <2>4. \A k \in DOMAIN read_jobs : read_jobs[k].is_last_job => k # i
    BY <2>1 DEF Takes, Pops, UploadFreshInv, InW, W
  <2>. QED BY <2>1, <2>2, <2>3, <2>4 DEF Takes, Pops, UploadFreshInv, InW, W
<1>13. CASE TakesCancel(i, n)
    BY <1>13 DEF TakesCancel, Takes, Pops, Removes, UploadFreshInv, UploadNew, IsToken, IsW, InW,
       InR, W, R
<1>14. CASE TakesDone(i, n)
  <2>1. \A k : UploadNew(k) => UploadNew(k)'
    BY <1>14 DEF TakesDone, Takes, Pops, Removes, Told, Pushes, UploadNew, IsToken, IsW, InW, InR, W,
       R
  <2>. QED BY <1>14, <2>1 DEF TakesDone, Takes, Pops, Removes, UploadFreshInv, InW, W
<1>15. CASE TakesError(i, n)
  <2>1. \A k : UploadNew(k) => UploadNew(k)'
    BY <1>15 DEF TakesError, Takes, Pops, Removes, Told, Pushes, UploadNew, IsToken, IsW, InW, InR, W,
       R
  <2>. QED BY <1>15, <2>1 DEF TakesError, Takes, Pops, Removes, UploadFreshInv, InW, W
<1>16. CASE TakesDigestReturns(i, n)
  <2>1. \A k : UploadNew(k) => UploadNew(k)'
    BY <1>16 DEF TakesDigestReturns, Takes, Pops, Pushes, UploadNew, IsToken, IsW, InW, InR, W, R
  <2>. QED BY <1>16, <2>1 DEF TakesDigestReturns, Takes, Pops, UploadFreshInv, InW, W
<1>17. CASE TakesDigestWants(i, n)
  <2>1. \A k : UploadNew(k) => UploadNew(k)'
    BY <1>17 DEF TakesDigestWants, Takes, Pops, Pushes, IsDecided, UploadNew, IsToken, IsW, InW, InR,
       W, R
  <2>. QED BY <1>17, <2>1 DEF TakesDigestWants, Takes, Pops, IsDecided, UploadFreshInv, InW, W
<1>18. CASE TakesDigestInVain(i, n)
  <2>1. Takes("digest", i, n) /\ i \in DOMAIN write_jobs /\ Told("error", i, n)
        /\ UNCHANGED <<upload, read_jobs, asked>>
    BY <1>18, Zenon DEF TakesDigestInVain
  <2>2. DOMAIN write_jobs' = DOMAIN write_jobs
    BY <1>18, <2>1 DEF TakesDigestInVain, Updates
  <2>3. \A k : UploadNew(k) => UploadNew(k)'
    BY <2>1, <2>2 DEF Takes, Pops, Told, Pushes, UploadNew, IsToken, IsW, InW, InR, W, R
  <2>. QED BY <2>1, <2>3 DEF Takes, Pops, UploadFreshInv, InW, W
<1>19. CASE TakesBlock(i, n)
  <2>1. /\ Takes("block", i, n) /\ i \in DOMAIN write_jobs
        /\ Updates(write_jobs, write_jobs', i)
        /\ write_jobs'[i].is_last_job = write_jobs[i].is_last_job
        /\ UNCHANGED <<upload, read_jobs, to_reader, asked, saved, jobs, verdict, kept, done, tainted,
                       broken>>
    BY <1>19, Zenon DEF TakesBlock, IsWriting
  <2>. QED BY <2>1 DEF Takes, Pops, Updates, UploadFreshInv, UploadNew, IsToken, IsW, InW, InR, W,
     R
<1>20. CASE TakesBlockInVain(i, n)
  <2>1. Takes("block", i, n) /\ i \in DOMAIN write_jobs /\ Told("error", i, n)
        /\ UNCHANGED <<upload, read_jobs, asked>>
    BY <1>20, Zenon DEF TakesBlockInVain
  <2>2. DOMAIN write_jobs' = DOMAIN write_jobs
    BY <1>20, <2>1 DEF TakesBlockInVain, Updates
  <2>3. \A k : UploadNew(k) => UploadNew(k)'
    BY <2>1, <2>2 DEF Takes, Pops, Told, Pushes, UploadNew, IsToken, IsW, InW, InR, W, R
  <2>. QED BY <2>1, <2>3 DEF Takes, Pops, UploadFreshInv, InW, W
<1>21. CASE StartsUpload(i, n)
    BY <1>21, <1>0 DEF StartsUpload, Updates, IsNew, Pushes, UploadFreshInv, UploadNew, IsToken,
       IsW, InW, InR, W, R, IdInv, Ids
<1>22. CASE AddsUpload(i, n)
    BY <1>22, <1>0 DEF AddsUpload, Updates, IsNew, UploadFreshInv, UploadNew, IsToken, IsW, InW,
       InR, W, R, IdInv, Ids
<1>23. CASE ResumesUpload(i, n)
    BY <1>23 DEF ResumesUpload, Updates, IsResumed, Pushes, UploadFreshInv, UploadNew, IsToken,
       IsW, InW, InR, W, R
<1>24. CASE CancelsUpload(i)
    BY <1>24 DEF CancelsUpload, Removes, Pushes, UploadFreshInv, UploadNew, IsToken, IsW, InW,
       InR, W, R
<1>25. ASSUME NEW b \in BOOLEAN, AnswersUpload(i, n, b) PROVE UploadFreshInv'
    BY <1>25 DEF AnswersUpload, Updates, IsAnswered, IsDecided, UploadFreshInv, UploadNew,
       IsToken, IsW, InW, InR, W, R
<1>26. CASE AnswersNobody(i, n)
    BY <1>26 DEF AnswersNobody, UploadFreshInv, UploadNew, IsToken, IsW, InW, InR, W, R
<1>27. CASE Reconnects
    BY <1>27 DEF Reconnects, UploadFreshInv, UploadNew, IsToken, IsW, InW, InR, W, R
<1>28. CASE Stutters
    BY <1>28 DEF Stutters, UploadFreshInv, UploadNew, IsToken, IsW, InW, InR, W, R
<1>. QED BY <1>1, <1>2, <1>3, <1>4, <1>5, <1>6, <1>7, <1>8, <1>9, <1>10, <1>11, <1>12, <1>13,
   <1>14, <1>15, <1>16, <1>17, <1>18, <1>19, <1>20, <1>21, <1>22, <1>23, <1>24, <1>25, <1>26,
   <1>27, <1>28, Zenon DEF UploadStep

(* A message of the client's job, its newest, comes last. *)
LEMMA PushKeepsOrder ==
    ASSUME IdInv, UploadOrder, jobs \in Nat, NEW i \in Nat, NEW n, NEW kind,
           i \in Ids => i = jobs, i \notin Ids => i = jobs + 1,
           Pushes(to_writer, to_writer', kind, i, n), UNCHANGED write_jobs,
           kind = "receive" => \A p \in InW : W(p).id # i
    PROVE  UploadOrder'
<1>1. /\ \A p \in InW : W(p).id <= i /\ W(p).id \in Nat
      /\ \A k \in DOMAIN write_jobs : k <= i
    BY DEF IdInv, Ids
<1>. QED BY <1>1 DEF UploadOrder, Pushes, InW, W

(* The messages of the jobs of an upload come one job after the other. *)
LEMMA UploadOrderStep ==
    ASSUME TypeInv, TypeInv', IdInv, upload, UploadFreshInv, UploadOrder, NEW i \in Nat, NEW n \in
           Nat, NEW kind, UploadStep(i, n, kind)
    PROVE  UploadOrder'
<1>0. jobs \in Nat
    BY DEF TypeInv
<1>1. CASE SendsDigest(i)
  <2>1. /\ i \in DOMAIN read_jobs /\ Pushes(to_writer, to_writer', "digest", i, read_jobs[i].file_num)
        /\ UNCHANGED write_jobs
    BY <1>1, Zenon DEF SendsDigest, Timer, readerFrame
  <2>2. i \in Ids /\ i = jobs
    BY <2>1 DEF IdInv
  <2>. QED BY <1>0, <2>1, <2>2, PushKeepsOrder
<1>2. CASE SendsBlock(i)
  <2>1. /\ i \in DOMAIN read_jobs /\ Pushes(to_writer, to_writer', "block", i, read_jobs[i].file_num)
        /\ UNCHANGED write_jobs
    BY <1>2, Zenon DEF SendsBlock, Timer, readerFrame
  <2>2. i \in Ids /\ i = jobs
    BY <2>1 DEF IdInv
  <2>. QED BY <1>0, <2>1, <2>2, PushKeepsOrder
<1>3. CASE SendsEnd(i)
  <2>1. /\ i \in DOMAIN read_jobs /\ Pushes(to_writer, to_writer', "block", i, read_jobs[i].file_num)
        /\ UNCHANGED write_jobs
    BY <1>3, Zenon DEF SendsEnd, Timer, readerFrame
  <2>2. i \in Ids /\ i = jobs
    BY <2>1 DEF IdInv
  <2>. QED BY <1>0, <2>1, <2>2, PushKeepsOrder
<1>4. CASE SendsReadError(i)
  <2>1. /\ i \in DOMAIN read_jobs /\ Pushes(to_writer, to_writer', "error", i, read_jobs[i].file_num + 1)
        /\ UNCHANGED write_jobs
    BY <1>4, Zenon DEF SendsReadError, Timer, readerFrame
  <2>2. i \in Ids /\ i = jobs
    BY <2>1 DEF IdInv
  <2>. QED BY <1>0, <2>1, <2>2, PushKeepsOrder
<1>5. CASE SendsDigestError(i)
  <2>1. /\ i \in DOMAIN read_jobs /\ Pushes(to_writer, to_writer', "error", i, read_jobs[i].file_num)
        /\ UNCHANGED write_jobs
    BY <1>5, Zenon DEF SendsDigestError, Timer, readerFrame
  <2>2. i \in Ids /\ i = jobs
    BY <2>1 DEF IdInv
  <2>. QED BY <1>0, <2>1, <2>2, PushKeepsOrder
<1>6. CASE SendsLast(i, kind)
  <2>1. /\ i \in DOMAIN read_jobs /\ Pushes(to_writer, to_writer', kind, i, read_jobs[i].file_num)
        /\ UNCHANGED write_jobs /\ kind \in {"done", "error"}
    BY <1>6, Zenon DEF SendsLast, readerFrame
  <2>2. i \in Ids /\ i = jobs
    BY <2>1 DEF IdInv
  <2>. QED BY <1>0, <2>1, <2>2, PushKeepsOrder
<1>7. CASE GetsConfirm(i, n)
    BY <1>7 DEF GetsConfirm, Updates, readerFrame, UploadOrder, InW, W
<1>8. CASE GetsOther(kind, i, n)
    BY <1>8 DEF GetsOther, readerFrame, UploadOrder, InW, W
<1>9. CASE GetsDigestAsks(i, n)
    BY <1>9 DEF GetsDigestAsks, UploadOrder, InW, W
<1>10. ASSUME NEW b \in BOOLEAN, GetsDigestKnows(i, n, b) PROVE UploadOrder'
    BY <1>10 DEF GetsDigestKnows, Gets, Pops, Updates, IsAnswered, IsDecided, UploadOrder, InW, W
<1>11. CASE TakesOther(kind, i, n)
    BY <1>11 DEF TakesOther, Takes, Pops, UploadOrder, InW, W
<1>12. CASE TakesReceive(i, n)
    BY <1>12 DEF TakesReceive, Takes, Pops, Updates, IsNew, UploadOrder, InW, W
<1>13. CASE TakesCancel(i, n)
    BY <1>13 DEF TakesCancel, Takes, Pops, Removes, UploadOrder, InW, W
<1>14. CASE TakesDone(i, n)
    BY <1>14 DEF TakesDone, Takes, Pops, Removes, UploadOrder, InW, W
<1>15. CASE TakesError(i, n)
    BY <1>15 DEF TakesError, Takes, Pops, Removes, UploadOrder, InW, W
<1>16. CASE TakesDigestReturns(i, n)
    BY <1>16 DEF TakesDigestReturns, Takes, Pops, UploadOrder, InW, W
<1>17. CASE TakesDigestWants(i, n)
    BY <1>17 DEF TakesDigestWants, Takes, Pops, UploadOrder, InW, W
<1>18. CASE TakesDigestInVain(i, n)
    BY <1>18 DEF TakesDigestInVain, Takes, Pops, UploadOrder, InW, W
<1>19. CASE TakesBlock(i, n)
  <2>1. /\ Takes("block", i, n) /\ i \in DOMAIN write_jobs
        /\ Updates(write_jobs, write_jobs', i)
        /\ write_jobs'[i].is_last_job = write_jobs[i].is_last_job
        /\ UNCHANGED <<upload, read_jobs, to_reader, asked, saved, jobs, verdict, kept, done, tainted,
                       broken>>
    BY <1>19, Zenon DEF TakesBlock, IsWriting
  <2>. QED BY <2>1 DEF Takes, Pops, Updates, UploadOrder, InW, W
<1>20. CASE TakesBlockInVain(i, n)
    BY <1>20 DEF TakesBlockInVain, Takes, Pops, Updates, IsWriting, UploadOrder, InW, W
<1>21. CASE StartsUpload(i, n)
  <2>1. i = jobs + 1 /\ Pushes(to_writer, to_writer', "receive", i, n) /\ UNCHANGED write_jobs
    BY <1>21, Zenon DEF StartsUpload
  <2>2. i \notin Ids /\ \A p \in InW : W(p).id # i
    BY <1>0, <2>1 DEF IdInv, Ids
  <2>. QED BY <1>0, <2>1, <2>2, PushKeepsOrder
<1>22. CASE AddsUpload(i, n)
    BY <1>22, <1>0 DEF AddsUpload, Updates, IsNew, UploadOrder, InW, W, IdInv, Ids
<1>23. CASE ResumesUpload(i, n)
  <2>1. /\ i \in DOMAIN read_jobs /\ read_jobs[i].is_last_job
        /\ Pushes(to_writer, to_writer', "receive", i, n) /\ UNCHANGED write_jobs
    BY <1>23, Zenon DEF ResumesUpload, IsResumed
  <2>2. i \in Ids /\ i = jobs /\ \A p \in InW : W(p).id # i
    BY <2>1 DEF IdInv, UploadFreshInv
  <2>. QED BY <1>0, <2>1, <2>2, PushKeepsOrder
<1>24. CASE CancelsUpload(i)
  <2>1. /\ i \in DOMAIN read_jobs /\ Pushes(to_writer, to_writer', "cancel", i, 0)
        /\ UNCHANGED write_jobs
    BY <1>24, Zenon DEF CancelsUpload
  <2>2. i \in Ids /\ i = jobs
    BY <2>1 DEF IdInv
  <2>. QED BY <1>0, <2>1, <2>2, PushKeepsOrder
<1>25. ASSUME NEW b \in BOOLEAN, AnswersUpload(i, n, b) PROVE UploadOrder'
    BY <1>25 DEF AnswersUpload, Updates, IsAnswered, IsDecided, UploadOrder, InW, W
<1>26. CASE AnswersNobody(i, n)
    BY <1>26 DEF AnswersNobody, UploadOrder, InW, W
<1>27. CASE Reconnects
    BY <1>27 DEF Reconnects, UploadOrder, InW, W
<1>28. CASE Stutters
    BY <1>28 DEF Stutters, UploadOrder, InW, W
<1>. QED BY <1>1, <1>2, <1>3, <1>4, <1>5, <1>6, <1>7, <1>8, <1>9, <1>10, <1>11, <1>12, <1>13,
   <1>14, <1>15, <1>16, <1>17, <1>18, <1>19, <1>20, <1>21, <1>22, <1>23, <1>24, <1>25, <1>26,
   <1>27, <1>28, Zenon DEF UploadStep

(* What the connection manager has of a job that is over will be ended. *)
LEMMA UploadEndsStep ==
    ASSUME TypeInv, TypeInv', IdInv, upload, UploadFreshInv, UploadOrder, UploadEnds, NEW i \in
           Nat, NEW n \in Nat, NEW kind, UploadStep(i, n, kind)
    PROVE  UploadEnds'
<1>0. jobs \in Nat
    BY DEF TypeInv
<1>1. CASE SendsDigest(i)
    BY <1>1 DEF SendsDigest, Timer, Updates, Pushes, readerFrame, UploadEnds, Ends, IsEnd, IsW,
       InW, W
<1>2. CASE SendsBlock(i)
  <2>1. /\ i \in DOMAIN read_jobs /\ read_jobs[i].file_confirmed /\ Updates(read_jobs, read_jobs', i)
        /\ ~read_jobs[i].is_last_job /\ ~read_jobs'[i].is_last_job
        /\ Pushes(to_writer, to_writer', "block", i, read_jobs[i].file_num)
        /\ UNCHANGED <<write_jobs, asked, to_reader>>
    BY <1>2, Zenon DEF SendsBlock, Timer, readerFrame
  <2>2. \A p \in InW' : (p \in InW /\ W(p)' = W(p)) \/ W(p)'.kind = "block"
    BY <2>1 DEF Pushes, InW, W
  <2>3. \A p \in InW : p \in InW' /\ W(p)' = W(p)
    BY <2>1 DEF Pushes, InW, W
  <2>. QED BY <2>1, <2>2, <2>3 DEF Updates, UploadEnds, Ends, IsEnd
<1>3. CASE SendsEnd(i)
    BY <1>3 DEF SendsEnd, Timer, Updates, Pushes, readerFrame, UploadEnds, Ends, IsEnd, IsW, InW,
       W
<1>4. CASE SendsReadError(i)
    BY <1>4 DEF SendsReadError, Timer, Updates, Pushes, readerFrame, UploadEnds, Ends, IsEnd, IsW,
       InW, W
<1>5. CASE SendsDigestError(i)
    BY <1>5 DEF SendsDigestError, Timer, Updates, Pushes, readerFrame, UploadEnds, Ends, IsEnd,
       IsW, InW, W
<1>6. CASE SendsLast(i, kind)
    BY <1>6 DEF SendsLast, Removes, Pushes, readerFrame, UploadEnds, Ends, IsEnd, IsW, InW, W
<1>7. CASE GetsConfirm(i, n)
    BY <1>7 DEF GetsConfirm, Updates, readerFrame, UploadEnds, Ends, IsEnd, IsW, InW, W
<1>8. CASE GetsOther(kind, i, n)
    BY <1>8 DEF GetsOther, readerFrame, UploadEnds, Ends, IsEnd, IsW, InW, W
<1>9. CASE GetsDigestAsks(i, n)
    BY <1>9 DEF GetsDigestAsks, UploadEnds, Ends, IsEnd, IsW, InW, W
<1>10. ASSUME NEW b \in BOOLEAN, GetsDigestKnows(i, n, b) PROVE UploadEnds'
    BY <1>10 DEF GetsDigestKnows, Gets, Pops, Updates, IsAnswered, IsDecided, UploadEnds, Ends,
       IsEnd, IsW, InW, W
<1>11. CASE TakesOther(kind, i, n)
    BY <1>11 DEF TakesOther, Takes, Pops, UploadEnds, Ends, IsEnd, IsW, InW, W, UploadOrder
<1>12. CASE TakesReceive(i, n)
    BY <1>12 DEF TakesReceive, Takes, Pops, Updates, IsNew, UploadEnds, Ends, IsEnd, IsW, InW, W
<1>13. CASE TakesCancel(i, n)
    BY <1>13 DEF TakesCancel, Takes, Pops, Removes, UploadEnds, Ends, IsEnd, IsW, InW, W,
       UploadOrder
<1>14. CASE TakesDone(i, n)
    BY <1>14 DEF TakesDone, Takes, Pops, Removes, UploadEnds, Ends, IsEnd, IsW, InW, W,
       UploadOrder
<1>15. CASE TakesError(i, n)
    BY <1>15 DEF TakesError, Takes, Pops, Removes, UploadEnds, Ends, IsEnd, IsW, InW, W,
       UploadOrder
<1>16. CASE TakesDigestReturns(i, n)
    BY <1>16 DEF TakesDigestReturns, Takes, Pops, UploadEnds, Ends, IsEnd, IsW, InW, W
<1>17. CASE TakesDigestWants(i, n)
  <2>1. /\ upload /\ Takes("digest", i, n) /\ i \in DOMAIN write_jobs
        /\ Pushes(to_reader, to_reader', "confirm", i, n)
        /\ UNCHANGED <<upload, read_jobs, write_jobs, asked, disk, saved, jobs, broken>>
    BY <1>17, Zenon DEF TakesDigestWants
  <2>. QED BY <2>1 DEF Takes, Pops, UploadEnds, Ends, IsEnd, IsW, InW, W
<1>18. CASE TakesDigestInVain(i, n)
    BY <1>18 DEF TakesDigestInVain, Takes, Pops, UploadEnds, Ends, IsEnd, IsW, InW, W
<1>19. CASE TakesBlock(i, n)
  <2>1. /\ Takes("block", i, n) /\ i \in DOMAIN write_jobs
        /\ Updates(write_jobs, write_jobs', i)
        /\ write_jobs'[i].is_last_job = write_jobs[i].is_last_job
        /\ UNCHANGED <<upload, read_jobs, to_reader, asked, saved, jobs, verdict, kept, done, tainted,
                       broken>>
    BY <1>19, Zenon DEF TakesBlock, IsWriting
  <2>. QED BY <2>1 DEF Takes, Pops, Updates, UploadEnds, Ends, IsEnd, IsW, InW, W
<1>20. CASE TakesBlockInVain(i, n)
    BY <1>20 DEF TakesBlockInVain, Takes, Pops, Updates, IsWriting, UploadEnds, Ends, IsEnd, IsW,
       InW, W
<1>21. CASE StartsUpload(i, n)
    BY <1>21 DEF StartsUpload, Updates, IsNew, Pushes, UploadEnds, Ends, IsEnd, IsW, InW, W
<1>22. CASE AddsUpload(i, n)
    BY <1>22 DEF AddsUpload, Updates, IsNew, UploadEnds, Ends, IsEnd, IsW, InW, W
<1>23. CASE ResumesUpload(i, n)
    BY <1>23 DEF ResumesUpload, Updates, IsResumed, Pushes, UploadEnds, Ends, IsEnd, IsW, InW, W
<1>24. CASE CancelsUpload(i)
    BY <1>24 DEF CancelsUpload, Removes, Pushes, UploadEnds, Ends, IsEnd, IsW, InW, W
<1>25. ASSUME NEW b \in BOOLEAN, AnswersUpload(i, n, b) PROVE UploadEnds'
    BY <1>25 DEF AnswersUpload, Updates, IsAnswered, IsDecided, UploadEnds, Ends, IsEnd, IsW, InW,
       W
<1>26. CASE AnswersNobody(i, n)
    BY <1>26 DEF AnswersNobody, UploadEnds, Ends, IsEnd, IsW, InW, W
<1>27. CASE Reconnects
    BY <1>27 DEF Reconnects, UploadEnds, Ends, IsEnd, IsW, InW, W
<1>28. CASE Stutters
    BY <1>28 DEF Stutters, UploadEnds, Ends, IsEnd, IsW, InW, W
<1>. QED BY <1>1, <1>2, <1>3, <1>4, <1>5, <1>6, <1>7, <1>8, <1>9, <1>10, <1>11, <1>12, <1>13,
   <1>14, <1>15, <1>16, <1>17, <1>18, <1>19, <1>20, <1>21, <1>22, <1>23, <1>24, <1>25, <1>26,
   <1>27, <1>28, Zenon DEF UploadStep

(* The connection manager has one job. *)
LEMMA UploadSingleStep ==
    ASSUME TypeInv, TypeInv', IdInv, upload, UploadFreshInv, UploadOrder, UploadEnds,
           UploadSingle, NEW i \in Nat, NEW n \in Nat, NEW kind, UploadStep(i, n, kind)
    PROVE  UploadSingle'
<1>0. jobs \in Nat
    BY DEF TypeInv
<1>1. CASE SendsDigest(i)
    BY <1>1 DEF SendsDigest, Timer, Updates, Pushes, readerFrame, UploadSingle, InW, W
<1>2. CASE SendsBlock(i)
    BY <1>2 DEF SendsBlock, Timer, Updates, Pushes, readerFrame, UploadSingle, InW, W
<1>3. CASE SendsEnd(i)
    BY <1>3 DEF SendsEnd, Timer, Updates, Pushes, readerFrame, UploadSingle, InW, W
<1>4. CASE SendsReadError(i)
    BY <1>4 DEF SendsReadError, Timer, Updates, Pushes, readerFrame, UploadSingle, InW, W
<1>5. CASE SendsDigestError(i)
    BY <1>5 DEF SendsDigestError, Timer, Updates, Pushes, readerFrame, UploadSingle, InW, W
<1>6. CASE SendsLast(i, kind)
    BY <1>6 DEF SendsLast, Removes, Pushes, readerFrame, UploadSingle, InW, W
<1>7. CASE GetsConfirm(i, n)
    BY <1>7 DEF GetsConfirm, Updates, readerFrame, UploadSingle, InW, W
<1>8. CASE GetsOther(kind, i, n)
    BY <1>8 DEF GetsOther, readerFrame, UploadSingle, InW, W
<1>9. CASE GetsDigestAsks(i, n)
    BY <1>9 DEF GetsDigestAsks, UploadSingle, InW, W
<1>10. ASSUME NEW b \in BOOLEAN, GetsDigestKnows(i, n, b) PROVE UploadSingle'
    BY <1>10 DEF GetsDigestKnows, Gets, Pops, Updates, IsAnswered, IsDecided, UploadSingle, InW, W
<1>11. CASE TakesOther(kind, i, n)
    BY <1>11 DEF TakesOther, Takes, Pops, UploadSingle, InW, W
<1>12. CASE TakesReceive(i, n)
  <2>1. /\ Takes("receive", i, n)
        /\ Updates(write_jobs, write_jobs', i)
        /\ IsNew(write_jobs'[i], n, TRUE, FALSE)
        /\ UNCHANGED <<upload, read_jobs, to_reader, asked, saved, jobs, broken>>
    BY <1>12, Zenon DEF TakesReceive
  <2>2. UploadNew(i) /\ \A p \in InW : i <= W(p).id
    BY <2>1, <1>0 DEF Takes, Pops, UploadFreshInv, UploadOrder, IdInv, Ids, InW, W
  <2>3. ASSUME NEW k \in DOMAIN write_jobs PROVE FALSE
    <3>1. k < i /\ k <= jobs /\ i <= jobs
        BY <2>1, <2>2, <1>0 DEF Takes, Pops, UploadNew, UploadOrder, IdInv, Ids, InW, W
    <3>2. k \notin DOMAIN read_jobs
        BY <3>1, <1>0 DEF IdInv
    <3>3. \A p \in InW : ~IsEnd(p, k)
        BY <2>2, <3>1, <1>0 DEF IsEnd, IdInv, Ids
    <3>. QED BY <3>2, <3>3 DEF UploadEnds, Ends
  <2>. QED BY <2>1, <2>3 DEF Updates, UploadSingle
<1>13. CASE TakesCancel(i, n)
    BY <1>13 DEF TakesCancel, Takes, Pops, Removes, UploadSingle, InW, W
<1>14. CASE TakesDone(i, n)
    BY <1>14 DEF TakesDone, Takes, Pops, Removes, UploadSingle, InW, W
<1>15. CASE TakesError(i, n)
    BY <1>15 DEF TakesError, Takes, Pops, Removes, UploadSingle, InW, W
<1>16. CASE TakesDigestReturns(i, n)
    BY <1>16 DEF TakesDigestReturns, Takes, Pops, UploadSingle, InW, W
<1>17. CASE TakesDigestWants(i, n)
    BY <1>17 DEF TakesDigestWants, Takes, Pops, UploadSingle, InW, W
<1>18. CASE TakesDigestInVain(i, n)
    BY <1>18 DEF TakesDigestInVain, Takes, Pops, UploadSingle, InW, W
<1>19. CASE TakesBlock(i, n)
    BY <1>19 DEF TakesBlock, Takes, Pops, Updates, IsWriting, UploadSingle, InW, W
<1>20. CASE TakesBlockInVain(i, n)
    BY <1>20 DEF TakesBlockInVain, Takes, Pops, Updates, IsWriting, UploadSingle, InW, W
<1>21. CASE StartsUpload(i, n)
    BY <1>21 DEF StartsUpload, Updates, IsNew, Pushes, UploadSingle, InW, W
<1>22. CASE AddsUpload(i, n)
    BY <1>22 DEF AddsUpload, Updates, IsNew, UploadSingle, InW, W
<1>23. CASE ResumesUpload(i, n)
    BY <1>23 DEF ResumesUpload, Updates, IsResumed, Pushes, UploadSingle, InW, W
<1>24. CASE CancelsUpload(i)
    BY <1>24 DEF CancelsUpload, Removes, Pushes, UploadSingle, InW, W
<1>25. ASSUME NEW b \in BOOLEAN, AnswersUpload(i, n, b) PROVE UploadSingle'
    BY <1>25 DEF AnswersUpload, Updates, IsAnswered, IsDecided, UploadSingle, InW, W
<1>26. CASE AnswersNobody(i, n)
    BY <1>26 DEF AnswersNobody, UploadSingle, InW, W
<1>27. CASE Reconnects
    BY <1>27 DEF Reconnects, UploadSingle, InW, W
<1>28. CASE Stutters
    BY <1>28 DEF Stutters, UploadSingle, InW, W
<1>. QED BY <1>1, <1>2, <1>3, <1>4, <1>5, <1>6, <1>7, <1>8, <1>9, <1>10, <1>11, <1>12, <1>13,
   <1>14, <1>15, <1>16, <1>17, <1>18, <1>19, <1>20, <1>21, <1>22, <1>23, <1>24, <1>25, <1>26,
   <1>27, <1>28, Zenon DEF UploadStep

(* When the host has begun with an upload, it has ended with the ones before. *)
LEMMA UploadOwnerStep ==
    ASSUME TypeInv, TypeInv', IdInv, KindInv, upload, UploadFreshInv, UploadOrder, UploadOwnerInv,
           UploadOrder', UploadSingle', NEW i \in Nat, NEW n \in Nat, NEW kind, UploadStep(i, n,
           kind)
    PROVE  UploadOwnerInv'
<1>0. jobs \in Nat
    BY DEF TypeInv
<1>1. CASE SendsDigest(i)
    BY <1>1, <1>0 DEF SendsDigest, Timer, Updates, Pushes, readerFrame, UploadOwnerInv,
       UploadFresh, WaitsForUser, IsW, InW, W, IdInv, Ids
<1>2. CASE SendsBlock(i)
    BY <1>2, <1>0 DEF SendsBlock, Timer, Updates, Pushes, readerFrame, UploadOwnerInv,
       UploadFresh, WaitsForUser, IsW, InW, W, IdInv, Ids
<1>3. CASE SendsEnd(i)
    BY <1>3, <1>0 DEF SendsEnd, Timer, Updates, Pushes, readerFrame, UploadOwnerInv, UploadFresh,
       WaitsForUser, IsW, InW, W, IdInv, Ids
<1>4. CASE SendsReadError(i)
    BY <1>4, <1>0 DEF SendsReadError, Timer, Updates, Pushes, readerFrame, UploadOwnerInv,
       UploadFresh, WaitsForUser, IsW, InW, W, IdInv, Ids
<1>5. CASE SendsDigestError(i)
    BY <1>5, <1>0 DEF SendsDigestError, Timer, Updates, Pushes, readerFrame, UploadOwnerInv,
       UploadFresh, WaitsForUser, IsW, InW, W, IdInv, Ids
<1>6. CASE SendsLast(i, kind)
    BY <1>6, <1>0 DEF SendsLast, Removes, Pushes, readerFrame, UploadOwnerInv, UploadFresh,
       WaitsForUser, IsW, InW, W, IdInv, Ids
<1>7. CASE GetsConfirm(i, n)
  <2>1. /\ Gets("confirm", i, n) /\ i \in DOMAIN read_jobs
        /\ Updates(read_jobs, read_jobs', i)
        /\ read_jobs'[i].is_last_job = read_jobs[i].is_last_job
        /\ UNCHANGED readerFrame /\ UNCHANGED to_writer
    BY <1>7, Zenon DEF GetsConfirm, IsAnswered
  <2>. QED BY <2>1 DEF Updates, readerFrame, UploadOwnerInv, UploadFresh, WaitsForUser, IsW, InW,
     W
<1>8. CASE GetsOther(kind, i, n)
    BY <1>8 DEF GetsOther, readerFrame, UploadOwnerInv, UploadFresh, WaitsForUser, IsW, InW, W
<1>9. CASE GetsDigestAsks(i, n)
    BY <1>9 DEF GetsDigestAsks, UploadOwnerInv, UploadFresh, WaitsForUser, IsW, InW, W
<1>10. ASSUME NEW b \in BOOLEAN, GetsDigestKnows(i, n, b) PROVE UploadOwnerInv'
    BY <1>10 DEF GetsDigestKnows, Gets, Pops, Updates, IsAnswered, IsDecided, UploadOwnerInv,
       UploadFresh, WaitsForUser, IsW, InW, W
<1>11. CASE TakesOther(kind, i, n)
    BY <1>11 DEF TakesOther, Takes, Pops, UploadOwnerInv, UploadFresh, WaitsForUser, IsW, InW, W
<1>12. CASE TakesReceive(i, n)
  <2>1. /\ Takes("receive", i, n)
        /\ Updates(write_jobs, write_jobs', i)
        /\ IsNew(write_jobs'[i], n, TRUE, FALSE)
        /\ UNCHANGED <<upload, read_jobs, to_reader, asked, saved, jobs, broken>>
    BY <1>12, Zenon DEF TakesReceive
  <2>2. CASE i = jobs
    <3>1. DOMAIN write_jobs' \subseteq {jobs}
        BY <2>1, <2>2 DEF Updates, UploadSingle
    <3>2. \A p \in InW' : W(p)'.id <= jobs /\ W(p)'.id \in Int
        BY <2>1, <1>0 DEF Takes, Pops, IdInv, Ids, InW, W
    <3>3. \A p \in InW' : jobs <= W(p)'.id
        BY <2>1, <2>2 DEF Updates, UploadOrder
    <3>4. \A p \in InW' : W(p)'.id = jobs
        BY <3>2, <3>3, <1>0
    <3>. QED BY <2>1, <3>1, <3>4 DEF UploadOwnerInv
  <2>3. CASE i # jobs
    <3>1. jobs \in DOMAIN read_jobs => UploadFresh(jobs)
        BY <2>1, <2>3 DEF Takes, Pops, UploadOwnerInv, InW, W
    <3>2. jobs \in DOMAIN read_jobs => UploadFresh(jobs)'
        BY <2>1, <2>3, <3>1 DEF Takes, Pops, UploadFresh, WaitsForUser, IsW, InW, W
    <3>. QED BY <2>1, <3>2 DEF UploadOwnerInv
  <2>. QED BY <2>2, <2>3
<1>13. CASE TakesCancel(i, n)
    BY <1>13 DEF TakesCancel, Takes, Pops, Removes, UploadOwnerInv, UploadFresh, WaitsForUser,
       IsW, InW, W
<1>14. CASE TakesDone(i, n)
    BY <1>14 DEF TakesDone, Takes, Pops, Removes, UploadOwnerInv, UploadFresh, WaitsForUser, IsW,
       InW, W
<1>15. CASE TakesError(i, n)
    BY <1>15 DEF TakesError, Takes, Pops, Removes, UploadOwnerInv, UploadFresh, WaitsForUser, IsW,
       InW, W
<1>16. CASE TakesDigestReturns(i, n)
    BY <1>16 DEF TakesDigestReturns, Takes, Pops, UploadOwnerInv, UploadFresh, WaitsForUser, IsW,
       InW, W
<1>17. CASE TakesDigestWants(i, n)
    BY <1>17 DEF TakesDigestWants, Takes, Pops, UploadOwnerInv, UploadFresh, WaitsForUser, IsW,
       InW, W
<1>18. CASE TakesDigestInVain(i, n)
    BY <1>18 DEF TakesDigestInVain, Takes, Pops, UploadOwnerInv, UploadFresh, WaitsForUser, IsW,
       InW, W
<1>19. CASE TakesBlock(i, n)
  <2>1. /\ Takes("block", i, n) /\ i \in DOMAIN write_jobs
        /\ Updates(write_jobs, write_jobs', i)
        /\ write_jobs'[i].is_last_job = write_jobs[i].is_last_job
        /\ UNCHANGED <<upload, read_jobs, to_reader, asked, saved, jobs, verdict, kept, done, tainted,
                       broken>>
    BY <1>19, Zenon DEF TakesBlock, IsWriting
  <2>. QED BY <2>1 DEF Takes, Pops, Updates, UploadOwnerInv, UploadFresh, WaitsForUser, IsW, InW,
     W
<1>20. CASE TakesBlockInVain(i, n)
    BY <1>20 DEF TakesBlockInVain, Takes, Pops, Updates, IsWriting, UploadOwnerInv, UploadFresh,
       WaitsForUser, IsW, InW, W
<1>21. CASE StartsUpload(i, n)
    BY <1>21, <1>0 DEF StartsUpload, Updates, IsNew, Pushes, UploadOwnerInv, UploadFresh,
       WaitsForUser, IsW, InW, W, IdInv, Ids
<1>22. CASE AddsUpload(i, n)
    BY <1>22, <1>0 DEF AddsUpload, Updates, IsNew, UploadOwnerInv, UploadFresh, WaitsForUser, IsW,
       InW, W, IdInv, Ids
<1>23. CASE ResumesUpload(i, n)
  <2>1. i = jobs /\ jobs' = jobs
    BY <1>23 DEF ResumesUpload, IdInv
  <2>2. UploadFresh(jobs)'
    BY <1>23, <2>1 DEF ResumesUpload, Pushes, UploadFresh, IsW, InW, W
  <2>. QED BY <2>2 DEF UploadOwnerInv
<1>24. CASE CancelsUpload(i)
    BY <1>24, <1>0 DEF CancelsUpload, Removes, Pushes, UploadOwnerInv, UploadFresh, WaitsForUser,
       IsW, InW, W, IdInv, Ids
<1>25. ASSUME NEW b \in BOOLEAN, AnswersUpload(i, n, b) PROVE UploadOwnerInv'
    BY <1>25 DEF AnswersUpload, Updates, IsAnswered, IsDecided, UploadOwnerInv, UploadFresh,
       WaitsForUser, IsW, InW, W
<1>26. CASE AnswersNobody(i, n)
    BY <1>26 DEF AnswersNobody, UploadOwnerInv, UploadFresh, WaitsForUser, IsW, InW, W
<1>27. CASE Reconnects
    BY <1>27 DEF Reconnects, UploadOwnerInv, UploadFresh, WaitsForUser, IsW, InW, W
<1>28. CASE Stutters
    BY <1>28 DEF Stutters, UploadOwnerInv, UploadFresh, WaitsForUser, IsW, InW, W
<1>. QED BY <1>1, <1>2, <1>3, <1>4, <1>5, <1>6, <1>7, <1>8, <1>9, <1>10, <1>11, <1>12, <1>13,
   <1>14, <1>15, <1>16, <1>17, <1>18, <1>19, <1>20, <1>21, <1>22, <1>23, <1>24, <1>25, <1>26,
   <1>27, <1>28, Zenon DEF UploadStep

(* The same in a download, and a job cancelled there is gone. *)
LEMMA DownloadInvStep ==
    ASSUME TypeInv, TypeInv', IdInv, KindInv, ~upload, DownloadInv, NEW i \in Nat, NEW n \in Nat,
           NEW kind, DownloadStep(i, n, kind)
    PROVE  DownloadInv'
<1>0. jobs \in Nat
    BY DEF TypeInv
<1>1. CASE SendsDigest(i)
    BY <1>1 DEF SendsDigest, Timer, Updates, Pushes, readerFrame, DownloadInv, DownloadNew,
       IsToken, IsR, InW, InR, W, R
<1>2. CASE SendsBlock(i)
    BY <1>2 DEF SendsBlock, Timer, Updates, Pushes, readerFrame, DownloadInv, DownloadNew,
       IsToken, IsR, InW, InR, W, R
<1>3. CASE SendsEnd(i)
    BY <1>3 DEF SendsEnd, Timer, Updates, Pushes, readerFrame, DownloadInv, DownloadNew, IsToken,
       IsR, InW, InR, W, R
<1>4. CASE SendsReadError(i)
    BY <1>4 DEF SendsReadError, Timer, Updates, Pushes, readerFrame, DownloadInv, DownloadNew,
       IsToken, IsR, InW, InR, W, R
<1>5. CASE SendsDigestError(i)
    BY <1>5 DEF SendsDigestError, Timer, Updates, Pushes, readerFrame, DownloadInv, DownloadNew,
       IsToken, IsR, InW, InR, W, R
<1>6. CASE SendsLast(i, kind)
    BY <1>6 DEF SendsLast, Removes, Pushes, readerFrame, DownloadInv, DownloadNew, IsToken, IsR,
       InW, InR, W, R
<1>7. CASE GetsSend(i, n)
  <2>1. \A k : DownloadNew(k) /\ k # i => DownloadNew(k)'
    BY <1>7 DEF GetsSend, Gets, Pops, Updates, Pushes, readerFrame, DownloadNew, IsToken, InW, InR, W, R
  <2>2. \A p \in InR' : R(p)'.kind = "send" => R(p)'.id # i
    <3>1. \A p \in InR' : p + 1 # 1
        BY DEF InR, At
    <3>. QED BY <1>7, <3>1 DEF GetsSend, Gets, Pops, DownloadInv, IsR, InR, R
  <2>3. \A k \in DOMAIN write_jobs : write_jobs[k].is_last_job => k # i
    BY <1>7 DEF GetsSend, Gets, Pops, DownloadInv, InR, R
  <2>. QED BY <1>7, <2>1, <2>2, <2>3 DEF GetsSend, Gets, Pops, readerFrame, DownloadInv, IsR, InR, R
<1>8. CASE GetsSendInVain(i, n)
  <2>1. \A k : DownloadNew(k) /\ k # i => DownloadNew(k)'
    BY <1>8 DEF GetsSendInVain, Gets, Pops, Pushes, readerFrame, DownloadNew, IsToken, InW, InR, W, R
  <2>2. \A p \in InR' : R(p)'.kind = "send" => R(p)'.id # i
    <3>1. \A p \in InR' : p + 1 # 1
        BY DEF InR, At
    <3>. QED BY <1>8, <3>1 DEF GetsSendInVain, Gets, Pops, DownloadInv, IsR, InR, R
  <2>3. \A k \in DOMAIN write_jobs : write_jobs[k].is_last_job => k # i
    BY <1>8 DEF GetsSendInVain, Gets, Pops, DownloadInv, InR, R
  <2>. QED BY <1>8, <2>1, <2>2, <2>3 DEF GetsSendInVain, Gets, Pops, readerFrame, DownloadInv, IsR, InR, R
<1>9. CASE GetsCancel(i, n)
    BY <1>9 DEF GetsCancel, Gets, Pops, Removes, readerFrame, DownloadInv, DownloadNew, IsToken,
       IsR, InW, InR, W, R
<1>10. CASE GetsConfirm(i, n)
    BY <1>10 DEF GetsConfirm, Gets, Pops, Updates, IsAnswered, readerFrame, DownloadInv,
       DownloadNew, IsToken, IsR, InW, InR, W, R
<1>11. CASE GetsOther(kind, i, n)
    BY <1>11 DEF GetsOther, Gets, Pops, readerFrame, DownloadInv, DownloadNew, IsToken, IsR, InW,
       InR, W, R
<1>12. CASE TakesOther(kind, i, n)
    BY <1>12 DEF TakesOther, Takes, Pops, DownloadInv, DownloadNew, IsToken, IsR, InW, InR, W, R
<1>13. CASE TakesDone(i, n)
    BY <1>13 DEF TakesDone, Takes, Pops, Removes, Told, Pushes, DownloadInv, DownloadNew, IsToken,
       IsR, InW, InR, W, R
<1>14. CASE TakesError(i, n)
    BY <1>14 DEF TakesError, Takes, Pops, Removes, Told, Pushes, DownloadInv, DownloadNew,
       IsToken, IsR, InW, InR, W, R
<1>15. CASE TakesDir(i, n)
    BY <1>15 DEF TakesDir, Takes, Pops, Updates, DownloadInv, DownloadNew, IsToken, IsR, InW, InR,
       W, R
<1>16. CASE TakesDigestAsks(i, n)
    BY <1>16 DEF TakesDigestAsks, Takes, Pops, DownloadInv, DownloadNew, IsToken, IsR, InW, InR,
       W, R
<1>17. ASSUME NEW b \in BOOLEAN, TakesDigestKnows(i, n, b) PROVE DownloadInv'
  <2>1. /\ ~upload /\ Takes("digest", i, n) /\ i \in DOMAIN write_jobs
        /\ Updates(write_jobs, write_jobs', i)
        /\ Pushes(to_reader, to_reader', "confirm", i, n)
        /\ UNCHANGED <<upload, read_jobs, asked, disk, saved, jobs, broken>>
    BY <1>17, Zenon DEF TakesDigestKnows
  <2>2. write_jobs'[i].is_last_job = write_jobs[i].is_last_job
    BY <1>17, Zenon DEF TakesDigestKnows, IsAnswered
  <2>3. ~DownloadNew(i)
    BY <2>1 DEF Takes, Pops, DownloadNew, InW, W
  <2>4. \A k : DownloadNew(k) => DownloadNew(k)'
    BY <2>1, <2>3 DEF Takes, Pops, Pushes, DownloadNew, IsToken, InW, InR, W, R
  <2>5. \A p \in InR' : (R(p)'.kind = "confirm" /\ R(p)'.id = i) \/ (p \in InR /\ R(p)' = R(p))
    BY <2>1 DEF Pushes, InR, R
  <2>. QED BY <2>1, <2>2, <2>3, <2>4, <2>5 DEF Updates, DownloadInv, IsR
<1>18. CASE TakesDigestInVain(i, n)
    BY <1>18 DEF TakesDigestInVain, Takes, Pops, Told, Pushes, DownloadInv, DownloadNew, IsToken,
       IsR, InW, InR, W, R
<1>19. CASE TakesBlock(i, n)
  <2>1. /\ Takes("block", i, n) /\ i \in DOMAIN write_jobs
        /\ Updates(write_jobs, write_jobs', i)
        /\ write_jobs'[i].is_last_job = write_jobs[i].is_last_job
        /\ UNCHANGED <<upload, read_jobs, to_reader, asked, saved, jobs, verdict, kept, done, tainted,
                       broken>>
    BY <1>19, Zenon DEF TakesBlock, IsWriting
  <2>. QED BY <2>1 DEF Takes, Pops, Updates, DownloadInv, DownloadNew, IsToken, IsR, InW, InR, W,
     R
<1>20. CASE TakesBlockInVain(i, n)
    BY <1>20 DEF TakesBlockInVain, Takes, Pops, Updates, IsWriting, Told, Pushes, DownloadInv,
       DownloadNew, IsToken, IsR, InW, InR, W, R
<1>21. CASE StartsDownload(i, n)
  <2>1. /\ DOMAIN write_jobs = {} /\ i = jobs + 1 /\ Updates(write_jobs, write_jobs', i)
        /\ ~write_jobs'[i].is_last_job /\ Pushes(to_reader, to_reader', "send", i, n)
        /\ UNCHANGED <<read_jobs, to_writer, asked>>
    BY <1>21, Zenon DEF StartsDownload, IsNew
  <2>2. /\ i \notin Ids /\ DownloadNew(i)
        /\ \A p \in InR : R(p).id # i
    BY <1>0, <2>1 DEF IdInv, Ids, DownloadNew, IsToken
  <2>3. \A k : DownloadNew(k) => DownloadNew(k)'
    BY <2>1 DEF Pushes, DownloadNew, IsToken, InW, InR, W, R
  <2>4. /\ \A p \in InR' : p # Len(to_reader) + 1 => p \in InR /\ R(p)' = R(p)
        /\ \A p \in InR' : p = Len(to_reader) + 1 => R(p)'.kind = "send" /\ R(p)'.id = i
    BY <2>1 DEF Pushes, InR, R
  <2>. QED BY <2>1, <2>2, <2>3, <2>4 DEF Updates, DownloadInv, IsR
<1>22. CASE AddsDownload(i, n)
    BY <1>22, <1>0 DEF AddsDownload, Updates, IsNew, DownloadInv, DownloadNew, IsToken, IsR, InW,
       InR, W, R, IdInv, Ids
<1>23. CASE ResumesDownload(i, n)
    BY <1>23 DEF ResumesDownload, Updates, IsResumed, Pushes, DownloadInv, DownloadNew, IsToken,
       IsR, InW, InR, W, R
<1>24. CASE CancelsDownload(i)
    BY <1>24 DEF CancelsDownload, Removes, Pushes, DownloadInv, DownloadNew, IsToken, IsR, InW,
       InR, W, R
<1>25. ASSUME NEW b \in BOOLEAN, AnswersDownload(i, n, b) PROVE DownloadInv'
    BY <1>25 DEF AnswersDownload, Updates, IsAnswered, IsDecided, Pushes, DownloadInv,
       DownloadNew, IsToken, IsR, InW, InR, W, R
<1>26. CASE AnswersNobody(i, n)
    BY <1>26 DEF AnswersNobody, DownloadInv, DownloadNew, IsToken, IsR, InW, InR, W, R
<1>27. CASE Reconnects
    BY <1>27 DEF Reconnects, DownloadInv, DownloadNew, IsToken, IsR, InW, InR, W, R
<1>28. CASE Stutters
    BY <1>28 DEF Stutters, DownloadInv, DownloadNew, IsToken, IsR, InW, InR, W, R
<1>. QED BY <1>1, <1>2, <1>3, <1>4, <1>5, <1>6, <1>7, <1>8, <1>9, <1>10, <1>11, <1>12, <1>13,
   <1>14, <1>15, <1>16, <1>17, <1>18, <1>19, <1>20, <1>21, <1>22, <1>23, <1>24, <1>25, <1>26,
   <1>27, <1>28, Zenon DEF DownloadStep

(* The reader waits as long as the question about its file is somewhere. *)
LEMMA TokenWaitsStep ==
    ASSUME TypeInv, TypeInv', IdInv, KindInv, ~upload => DownloadInv, TokenWaits, OneToken, NEW i
           \in Nat, NEW n \in Nat, NEW kind, Step(i, n, kind)
    PROVE  TokenWaits'
<1>0. jobs \in Nat /\ None # 0
    BY FileAssumption DEF TypeInv
<1>1. CASE SendsDigest(i)
    BY <1>1, <1>0 DEF SendsDigest, Timer, Updates, Pushes, readerFrame, TokenWaits, Waits,
       IsToken, InW, InR, W, R
<1>2. CASE SendsBlock(i)
    BY <1>2 DEF SendsBlock, Timer, Updates, Pushes, readerFrame, TokenWaits, Waits, IsToken, InW,
       InR, W, R
<1>3. CASE SendsEnd(i)
    BY <1>3 DEF SendsEnd, Timer, Updates, Pushes, readerFrame, TokenWaits, Waits, IsToken, InW,
       InR, W, R
<1>4. CASE SendsReadError(i)
    BY <1>4 DEF SendsReadError, Timer, Updates, Pushes, readerFrame, TokenWaits, Waits, IsToken,
       InW, InR, W, R
<1>5. CASE SendsDigestError(i)
    BY <1>5 DEF SendsDigestError, Timer, Updates, Pushes, readerFrame, TokenWaits, Waits, IsToken,
       InW, InR, W, R
<1>6. CASE SendsLast(i, kind)
    BY <1>6 DEF SendsLast, Removes, Pushes, readerFrame, TokenWaits, Waits, IsToken, InW, InR, W,
       R
<1>7. CASE GetsSend(i, n)
  <2>1. /\ Gets("send", i, n) /\ Updates(read_jobs, read_jobs', i)
        /\ Pushes(to_writer, to_writer', "dir", i, 0) /\ UNCHANGED asked
    BY <1>7, Zenon DEF GetsSend, readerFrame
  <2>2. ~upload
    BY <2>1 DEF Gets, Pops, KindInv, UploadKinds, InR, R
  <2>3. DownloadNew(i)
    BY <2>1, <2>2 DEF Gets, Pops, DownloadInv, InR, R
  <2>. QED BY <2>1, <2>3 DEF Gets, Pops, Updates, Pushes, DownloadNew, TokenWaits, Waits, IsToken, InW,
        InR, W, R
<1>8. CASE GetsSendInVain(i, n)
    BY <1>8 DEF GetsSendInVain, Gets, Pops, Pushes, readerFrame, TokenWaits, Waits, IsToken, InW,
       InR, W, R
<1>9. CASE GetsCancel(i, n)
    BY <1>9 DEF GetsCancel, Gets, Pops, Removes, readerFrame, TokenWaits, Waits, IsToken, InW,
       InR, W, R
<1>10. CASE GetsConfirm(i, n)
  <2>1. /\ Gets("confirm", i, n) /\ i \in DOMAIN read_jobs
        /\ Updates(read_jobs, read_jobs', i)
        /\ read_jobs'[i].is_last_job = read_jobs[i].is_last_job
        /\ UNCHANGED readerFrame /\ UNCHANGED to_writer
    BY <1>10, Zenon DEF GetsConfirm, IsAnswered
  <2>2. /\ \A p \in InW' : ~IsW(p, "digest", i)'
        /\ \A q \in asked' : q[1] # i
    BY <2>1 DEF Gets, Pops, OneToken, OneWR, OneRA, IsToken, IsW, InW, InR, W, R, readerFrame
  <2>3. \A p \in InR' : ~IsToken(p, i)'
    <3>1. \A p \in InR' : p + 1 # 1
        BY DEF InR, At
    <3>. QED BY <2>1, <3>1 DEF Gets, Pops, OneToken, OneR, IsToken, InR, R
  <2>. QED BY <2>1, <2>2, <2>3 DEF Gets, Pops, Updates, TokenWaits, Waits, IsToken, IsW, InW, InR, W, R, readerFrame
<1>11. CASE GetsOther(kind, i, n)
    BY <1>11 DEF GetsOther, Gets, Pops, readerFrame, TokenWaits, Waits, IsToken, InW, InR, W, R
<1>12. CASE GetsDigestAsks(i, n)
    BY <1>12 DEF GetsDigestAsks, Gets, Pops, TokenWaits, Waits, IsToken, InW, InR, W, R
<1>13. ASSUME NEW b \in BOOLEAN, GetsDigestKnows(i, n, b) PROVE TokenWaits'
  <2>1. /\ upload /\ Gets("digest", i, n) /\ i \in DOMAIN read_jobs
        /\ Updates(read_jobs, read_jobs', i)
        /\ UNCHANGED <<upload, asked, write_jobs, to_writer, disk, saved, jobs, broken>>
    BY <1>13, Zenon DEF GetsDigestKnows
  <2>2. /\ \A p \in InW' : ~IsW(p, "digest", i)'
        /\ \A q \in asked' : q[1] # i
    BY <2>1 DEF Gets, Pops, OneToken, OneWR, OneRA, IsToken, IsW, InW, InR, W, R
  <2>3. \A p \in InR' : ~IsToken(p, i)'
    <3>1. \A p \in InR' : p + 1 # 1
        BY DEF InR, At
    <3>. QED BY <2>1, <3>1 DEF Gets, Pops, OneToken, OneR, IsToken, InR, R
  <2>. QED BY <2>1, <2>2, <2>3 DEF Gets, Pops, Updates, TokenWaits, Waits, IsToken, IsW, InW, InR, W, R
<1>14. CASE TakesOther(kind, i, n)
    BY <1>14 DEF TakesOther, Takes, Pops, TokenWaits, Waits, IsToken, InW, InR, W, R
<1>15. CASE TakesReceive(i, n)
  <2>1. /\ Takes("receive", i, n)
        /\ Updates(write_jobs, write_jobs', i)
        /\ IsNew(write_jobs'[i], n, TRUE, FALSE)
        /\ UNCHANGED <<upload, read_jobs, to_reader, asked, saved, jobs, broken>>
    BY <1>15, Zenon DEF TakesReceive
  <2>. QED BY <2>1 DEF Takes, Pops, Updates, IsNew, TokenWaits, Waits, IsToken, InW, InR, W, R
<1>16. CASE TakesCancel(i, n)
    BY <1>16 DEF TakesCancel, Takes, Pops, Removes, TokenWaits, Waits, IsToken, InW, InR, W, R
<1>17. CASE TakesDone(i, n)
    BY <1>17 DEF TakesDone, Takes, Pops, Removes, Told, Pushes, TokenWaits, Waits, IsToken, InW,
       InR, W, R
<1>18. CASE TakesError(i, n)
    BY <1>18 DEF TakesError, Takes, Pops, Removes, Told, Pushes, TokenWaits, Waits, IsToken, InW,
       InR, W, R
<1>19. CASE TakesDir(i, n)
    BY <1>19 DEF TakesDir, Takes, Pops, Updates, TokenWaits, Waits, IsToken, InW, InR, W, R
<1>20. CASE TakesDigestAsks(i, n)
    BY <1>20 DEF TakesDigestAsks, Takes, Pops, TokenWaits, Waits, IsToken, InW, InR, W, R
<1>21. ASSUME NEW b \in BOOLEAN, TakesDigestKnows(i, n, b) PROVE TokenWaits'
  <2>1. /\ ~upload /\ Takes("digest", i, n) /\ i \in DOMAIN write_jobs
        /\ Updates(write_jobs, write_jobs', i)
        /\ Pushes(to_reader, to_reader', "confirm", i, n)
        /\ UNCHANGED <<upload, read_jobs, asked, disk, saved, jobs, broken>>
    BY <1>21, Zenon DEF TakesDigestKnows
  <2>. QED BY <2>1 DEF Takes, Pops, Updates, Pushes, TokenWaits, Waits, IsToken, InW, InR, W, R,
     OneToken, OneW, OneWR, OneWA, OneR, OneRA, OneA, IsW
<1>22. CASE TakesDigestReturns(i, n)
  <2>1. /\ upload /\ Takes("digest", i, n) /\ i \in DOMAIN write_jobs
        /\ Pushes(to_reader, to_reader', "digest", i, n)
        /\ UNCHANGED <<upload, read_jobs, write_jobs, asked, disk, saved, jobs, broken>>
    BY <1>22, Zenon DEF TakesDigestReturns
  <2>2. Waits(i, n)' /\ \A k, m : Waits(k, m) => Waits(k, m)'
    BY <2>1 DEF Takes, Pops, TokenWaits, Waits, InW, W
  <2>3. \A p \in InR' : IsToken(p, R(p).id)' => Waits(R(p).id, R(p).num)'
    BY <2>1, <2>2 DEF Pushes, TokenWaits, IsToken, InR, R
  <2>. QED BY <2>1, <2>2, <2>3 DEF Takes, Pops, TokenWaits, InW, W
<1>23. CASE TakesDigestWants(i, n)
  <2>1. /\ upload /\ Takes("digest", i, n) /\ i \in DOMAIN write_jobs
        /\ Pushes(to_reader, to_reader', "confirm", i, n)
        /\ UNCHANGED <<upload, read_jobs, write_jobs, asked, disk, saved, jobs, broken>>
    BY <1>23, Zenon DEF TakesDigestWants
  <2>2. Waits(i, n)' /\ \A k, m : Waits(k, m) => Waits(k, m)'
    BY <2>1 DEF Takes, Pops, TokenWaits, Waits, InW, W
  <2>3. \A p \in InR' : IsToken(p, R(p).id)' => Waits(R(p).id, R(p).num)'
    BY <2>1, <2>2 DEF Pushes, TokenWaits, IsToken, InR, R
  <2>. QED BY <2>1, <2>2, <2>3 DEF Takes, Pops, TokenWaits, InW, W
<1>24. CASE TakesDigestInVain(i, n)
    BY <1>24 DEF TakesDigestInVain, Takes, Pops, Told, Pushes, TokenWaits, Waits, IsToken, InW,
       InR, W, R
<1>25. CASE TakesBlock(i, n)
  <2>1. /\ Takes("block", i, n) /\ i \in DOMAIN write_jobs
        /\ Updates(write_jobs, write_jobs', i)
        /\ write_jobs'[i].is_last_job = write_jobs[i].is_last_job
        /\ UNCHANGED <<upload, read_jobs, to_reader, asked, saved, jobs, verdict, kept, done, tainted,
                       broken>>
    BY <1>25, Zenon DEF TakesBlock, IsWriting
  <2>. QED BY <2>1 DEF Takes, Pops, Updates, TokenWaits, Waits, IsToken, InW, InR, W, R
<1>26. CASE TakesBlockInVain(i, n)
    BY <1>26 DEF TakesBlockInVain, Takes, Pops, Updates, Told, Pushes, TokenWaits, Waits, IsToken,
       InW, InR, W, R
<1>27. CASE StartsUpload(i, n)
    BY <1>27, <1>0 DEF StartsUpload, Updates, Pushes, TokenWaits, Waits, IsToken, InW, InR, W, R,
       IdInv, Ids
<1>28. CASE StartsDownload(i, n)
    BY <1>28, <1>0 DEF StartsDownload, Updates, Pushes, TokenWaits, Waits, IsToken, InW, InR, W,
       R, IdInv, Ids
<1>29. CASE AddsUpload(i, n)
    BY <1>29, <1>0 DEF AddsUpload, Updates, TokenWaits, Waits, IsToken, InW, InR, W, R, IdInv, Ids
<1>30. CASE AddsDownload(i, n)
    BY <1>30, <1>0 DEF AddsDownload, Updates, TokenWaits, Waits, IsToken, InW, InR, W, R, IdInv,
       Ids
<1>31. CASE ResumesUpload(i, n)
  <2>1. /\ i \in DOMAIN read_jobs /\ Updates(read_jobs, read_jobs', i)
        /\ IsResumed(read_jobs[i], read_jobs'[i])
        /\ Pushes(to_writer, to_writer', "receive", i, n) /\ UNCHANGED <<to_reader, asked>>
    BY <1>31, Zenon DEF ResumesUpload
  <2>2. \A k, m : Waits(k, m) => Waits(k, m)'
    BY <2>1 DEF Updates, IsResumed, Waits
  <2>3. \A p \in InW' : (p \in InW /\ W(p)' = W(p)) \/ W(p)'.kind = "receive"
    BY <2>1 DEF Pushes, InW, W
  <2>. QED BY <2>1, <2>2, <2>3 DEF TokenWaits, IsToken, InR, R
<1>32. CASE ResumesDownload(i, n)
    BY <1>32 DEF ResumesDownload, Updates, Pushes, TokenWaits, Waits, IsToken, InW, InR, W, R
<1>33. CASE CancelsUpload(i)
    BY <1>33 DEF CancelsUpload, Removes, Pushes, TokenWaits, Waits, IsToken, InW, InR, W, R
<1>34. CASE CancelsDownload(i)
    BY <1>34 DEF CancelsDownload, Removes, Pushes, TokenWaits, Waits, IsToken, InW, InR, W, R
<1>35. ASSUME NEW b \in BOOLEAN, AnswersUpload(i, n, b) PROVE TokenWaits'
  <2>1. /\ upload /\ <<i, n>> \in asked /\ asked' = asked \ {<<i, n>>} /\ i \in DOMAIN read_jobs
        /\ Updates(read_jobs, read_jobs', i)
        /\ UNCHANGED <<upload, write_jobs, to_writer, to_reader, disk, saved, jobs, broken>>
    BY <1>35, Zenon DEF AnswersUpload
  <2>. QED BY <2>1 DEF Updates, TokenWaits, Waits, IsToken, InW, InR, W, R, OneToken, OneW, OneWR,
     OneWA, OneR, OneRA, OneA, IsW
<1>36. ASSUME NEW b \in BOOLEAN, AnswersDownload(i, n, b) PROVE TokenWaits'
  <2>1. /\ ~upload /\ <<i, n>> \in asked /\ asked' = asked \ {<<i, n>>} /\ i \in DOMAIN write_jobs
        /\ Updates(write_jobs, write_jobs', i)
        /\ Pushes(to_reader, to_reader', "confirm", i, n)
        /\ UNCHANGED <<upload, read_jobs, to_writer, disk, saved, jobs, broken>>
    BY <1>36, Zenon DEF AnswersDownload
  <2>. QED BY <2>1 DEF Updates, Pushes, TokenWaits, Waits, IsToken, InW, InR, W, R, OneToken,
     OneW, OneWR, OneWA, OneR, OneRA, OneA, IsW
<1>37. CASE AnswersNobody(i, n)
    BY <1>37 DEF AnswersNobody, TokenWaits, Waits, IsToken, InW, InR, W, R
<1>38. CASE Reconnects
    BY <1>38 DEF Reconnects, TokenWaits, Waits, IsToken, InW, InR, W, R
<1>39. CASE Stutters
    BY <1>39 DEF Stutters, TokenWaits, Waits, IsToken, InW, InR, W, R
<1>. QED BY <1>1, <1>2, <1>3, <1>4, <1>5, <1>6, <1>7, <1>8, <1>9, <1>10, <1>11, <1>12, <1>13,
   <1>14, <1>15, <1>16, <1>17, <1>18, <1>19, <1>20, <1>21, <1>22, <1>23, <1>24, <1>25, <1>26,
   <1>27, <1>28, <1>29, <1>30, <1>31, <1>32, <1>33, <1>34, <1>35, <1>36, <1>37, <1>38, <1>39,
   Zenon DEF Step

(* The question about a file is in one place at a time. *)
LEMMA OneTokenStep ==
    ASSUME TypeInv, TypeInv', IdInv, TokenWaits, OneToken, NEW i \in Nat, NEW n \in Nat, NEW kind,
           Step(i, n, kind)
    PROVE  OneToken'
<1>0. jobs \in Nat /\ None # 0
    BY FileAssumption DEF TypeInv
<1>1. CASE SendsDigest(i)
    BY <1>1 DEF SendsDigest, Timer, Updates, Pushes, readerFrame, OneToken, OneW, OneR, OneA,
       OneWR, OneWA, OneRA, IsToken, IsW, InW, InR, W, R, TokenWaits, Waits
<1>2. CASE SendsBlock(i)
  <2>1. Pushes(to_writer, to_writer', "block", i, read_jobs[i].file_num) /\ UNCHANGED <<to_reader, asked>>
    BY <1>2, Zenon DEF SendsBlock, Timer, readerFrame
  <2>2. \A p \in InW' : W(p)'.kind = "digest" => p \in InW /\ W(p)' = W(p)
    BY <2>1 DEF Pushes, InW, W
  <2>. QED BY <2>1, <2>2 DEF OneToken, OneW, OneR, OneA, OneWR, OneWA, OneRA, IsToken, IsW, InR, R
<1>3. CASE SendsEnd(i)
    BY <1>3 DEF SendsEnd, Timer, Updates, Pushes, readerFrame, OneToken, OneW, OneR, OneA, OneWR,
       OneWA, OneRA, IsToken, IsW, InW, InR, W, R
<1>4. CASE SendsReadError(i)
    BY <1>4 DEF SendsReadError, Timer, Updates, Pushes, readerFrame, OneToken, OneW, OneR, OneA,
       OneWR, OneWA, OneRA, IsToken, IsW, InW, InR, W, R
<1>5. CASE SendsDigestError(i)
    BY <1>5 DEF SendsDigestError, Timer, Updates, Pushes, readerFrame, OneToken, OneW, OneR, OneA,
       OneWR, OneWA, OneRA, IsToken, IsW, InW, InR, W, R
<1>6. CASE SendsLast(i, kind)
    BY <1>6 DEF SendsLast, Removes, Pushes, readerFrame, OneToken, OneW, OneR, OneA, OneWR, OneWA,
       OneRA, IsToken, IsW, InW, InR, W, R
<1>7. CASE GetsSend(i, n)
  <2>1. \A p \in InR' : p \in Nat /\ p + 1 \in InR /\ R(p)' = R(p + 1)
    BY <1>7 DEF GetsSend, Gets, Pops, InR, R
  <2>2. /\ \A p \in InW' : W(p)'.kind = "digest" => p \in InW /\ W(p)' = W(p)
        /\ asked' = asked
    BY <1>7 DEF GetsSend, Pushes, readerFrame, InW, W
  <2>. QED BY <2>1, <2>2 DEF OneToken, OneW, OneR, OneA, OneWR, OneWA, OneRA, IsToken, IsW
<1>8. CASE GetsSendInVain(i, n)
  <2>1. \A p \in InR' : p \in Nat /\ p + 1 \in InR /\ R(p)' = R(p + 1)
    BY <1>8 DEF GetsSendInVain, Gets, Pops, InR, R
  <2>2. /\ \A p \in InW' : W(p)'.kind = "digest" => p \in InW /\ W(p)' = W(p)
        /\ asked' = asked
    BY <1>8 DEF GetsSendInVain, Pushes, readerFrame, InW, W
  <2>. QED BY <2>1, <2>2 DEF OneToken, OneW, OneR, OneA, OneWR, OneWA, OneRA, IsToken, IsW
<1>9. CASE GetsCancel(i, n)
    BY <1>9 DEF GetsCancel, Gets, Pops, Removes, readerFrame, OneToken, OneW, OneR, OneA, OneWR,
       OneWA, OneRA, IsToken, IsW, InW, InR, W, R
<1>10. CASE GetsConfirm(i, n)
  <2>1. /\ Gets("confirm", i, n) /\ i \in DOMAIN read_jobs
        /\ Updates(read_jobs, read_jobs', i)
        /\ read_jobs'[i].is_last_job = read_jobs[i].is_last_job
        /\ UNCHANGED readerFrame /\ UNCHANGED to_writer
    BY <1>10, Zenon DEF GetsConfirm, IsAnswered
  <2>. QED BY <2>1 DEF Gets, Pops, readerFrame, OneToken, OneW, OneR, OneA, OneWR, OneWA, OneRA,
     IsToken, IsW, InW, InR, W, R
<1>11. CASE GetsOther(kind, i, n)
    BY <1>11 DEF GetsOther, Gets, Pops, readerFrame, OneToken, OneW, OneR, OneA, OneWR, OneWA,
       OneRA, IsToken, IsW, InW, InR, W, R
<1>12. CASE GetsDigestAsks(i, n)
  <2>1. Gets("digest", i, n) /\ asked' = asked \cup {<<i, n>>} /\ to_writer' = to_writer
    BY <1>12, Zenon DEF GetsDigestAsks
  <2>2. /\ \A p \in InW : ~IsW(p, "digest", i)
        /\ \A q \in asked : q[1] # i
    BY <2>1 DEF Gets, Pops, OneToken, OneWR, OneRA, IsToken, IsW, InR, R
  <2>3. /\ \A p \in InR' : p \in Nat /\ p + 1 \in InR /\ R(p)' = R(p + 1)
        /\ \A p \in InR' : ~IsToken(p, i)'
    <3>1. \A p \in InR' : p + 1 # 1
        BY DEF InR, At
    <3>. QED BY <2>1, <3>1 DEF Gets, Pops, OneToken, OneR, IsToken, InR, R
  <2>. QED BY <2>1, <2>2, <2>3 DEF OneToken, OneW, OneR, OneA, OneWR, OneWA, OneRA, IsToken, IsW, InW, W
<1>13. ASSUME NEW b \in BOOLEAN, GetsDigestKnows(i, n, b) PROVE OneToken'
  <2>1. /\ upload /\ Gets("digest", i, n) /\ i \in DOMAIN read_jobs
        /\ Updates(read_jobs, read_jobs', i)
        /\ UNCHANGED <<upload, asked, write_jobs, to_writer, disk, saved, jobs, broken>>
    BY <1>13, Zenon DEF GetsDigestKnows
  <2>. QED BY <2>1 DEF Gets, Pops, OneToken, OneW, OneR, OneA, OneWR, OneWA, OneRA, IsToken, IsW,
     InW, InR, W, R
<1>14. CASE TakesOther(kind, i, n)
    BY <1>14 DEF TakesOther, Takes, Pops, OneToken, OneW, OneR, OneA, OneWR, OneWA, OneRA,
       IsToken, IsW, InW, InR, W, R
<1>15. CASE TakesReceive(i, n)
  <2>1. /\ Takes("receive", i, n)
        /\ Updates(write_jobs, write_jobs', i)
        /\ IsNew(write_jobs'[i], n, TRUE, FALSE)
        /\ UNCHANGED <<upload, read_jobs, to_reader, asked, saved, jobs, broken>>
    BY <1>15, Zenon DEF TakesReceive
  <2>. QED BY <2>1 DEF Takes, Pops, IsNew, OneToken, OneW, OneR, OneA, OneWR, OneWA, OneRA,
     IsToken, IsW, InW, InR, W, R
<1>16. CASE TakesCancel(i, n)
    BY <1>16 DEF TakesCancel, Takes, Pops, Removes, OneToken, OneW, OneR, OneA, OneWR, OneWA,
       OneRA, IsToken, IsW, InW, InR, W, R
<1>17. CASE TakesDone(i, n)
  <2>1. \A p \in InR' : R(p)'.kind \in {"digest", "confirm"} => p \in InR /\ R(p)' = R(p)
    BY <1>17 DEF TakesDone, Told, Pushes, InR, R
  <2>2. /\ \A p \in InW' : p \in Nat /\ p + 1 \in InW /\ W(p)' = W(p + 1)
        /\ asked' = asked
    BY <1>17 DEF TakesDone, Takes, Pops, InW, W
  <2>. QED BY <2>1, <2>2 DEF OneToken, OneW, OneR, OneA, OneWR, OneWA, OneRA, IsToken, IsW
<1>18. CASE TakesError(i, n)
  <2>1. \A p \in InR' : R(p)'.kind \in {"digest", "confirm"} => p \in InR /\ R(p)' = R(p)
    BY <1>18 DEF TakesError, Told, Pushes, InR, R
  <2>2. /\ \A p \in InW' : p \in Nat /\ p + 1 \in InW /\ W(p)' = W(p + 1)
        /\ asked' = asked
    BY <1>18 DEF TakesError, Takes, Pops, InW, W
  <2>. QED BY <2>1, <2>2 DEF OneToken, OneW, OneR, OneA, OneWR, OneWA, OneRA, IsToken, IsW
<1>19. CASE TakesDir(i, n)
    BY <1>19 DEF TakesDir, Takes, Pops, Updates, OneToken, OneW, OneR, OneA, OneWR, OneWA, OneRA,
       IsToken, IsW, InW, InR, W, R
<1>20. CASE TakesDigestAsks(i, n)
  <2>1. Takes("digest", i, n) /\ asked' = asked \cup {<<i, n>>} /\ to_reader' = to_reader
    BY <1>20, Zenon DEF TakesDigestAsks
  <2>2. /\ \A p \in InR : ~IsToken(p, i)
        /\ \A q \in asked : q[1] # i
    BY <2>1 DEF Takes, Pops, OneToken, OneWR, OneWA, IsW, InW, W
  <2>3. /\ \A p \in InW' : p \in Nat /\ p + 1 \in InW /\ W(p)' = W(p + 1)
        /\ \A p \in InW' : ~IsW(p, "digest", i)'
    <3>1. \A p \in InW' : p + 1 # 1
        BY DEF InW, At
    <3>. QED BY <2>1, <3>1 DEF Takes, Pops, OneToken, OneW, IsW, InW, W
  <2>. QED BY <2>1, <2>2, <2>3 DEF OneToken, OneW, OneR, OneA, OneWR, OneWA, OneRA, IsToken, IsW, InR, R
<1>21. ASSUME NEW b \in BOOLEAN, TakesDigestKnows(i, n, b) PROVE OneToken'
  <2>1. /\ ~upload /\ Takes("digest", i, n) /\ i \in DOMAIN write_jobs
        /\ Updates(write_jobs, write_jobs', i)
        /\ Pushes(to_reader, to_reader', "confirm", i, n)
        /\ UNCHANGED <<upload, read_jobs, asked, disk, saved, jobs, broken>>
    BY <1>21, Zenon DEF TakesDigestKnows
  <2>2. /\ \A p \in InR : ~IsToken(p, i)
        /\ \A q \in asked : q[1] # i
    BY <2>1 DEF Takes, Pops, OneToken, OneWR, OneWA, IsW, InW, W
  <2>3. /\ \A p \in InW' : p \in Nat /\ p + 1 \in InW /\ W(p)' = W(p + 1)
        /\ \A p \in InW' : ~IsW(p, "digest", i)'
    <3>1. \A p \in InW' : p + 1 # 1
        BY DEF InW, At
    <3>. QED BY <2>1, <3>1 DEF Takes, Pops, OneToken, OneW, IsW, InW, W
  <2>4. \A p \in InR' : \A k : k # i /\ IsToken(p, k)' => p \in InR /\ IsToken(p, k)
    BY <2>1 DEF Pushes, IsToken, InR, R
  <2>5. OneR'
    BY <2>1, <2>2 DEF Pushes, OneToken, OneR, IsToken, InR, R
  <2>6. OneW' /\ OneA'
    BY <2>1, <2>3 DEF OneToken, OneW, OneA, IsW
  <2>7. OneWR'
    BY <2>1, <2>3, <2>4 DEF OneToken, OneWR, IsToken, IsW
  <2>8. OneWA' /\ OneRA'
    BY <2>1, <2>2, <2>3, <2>4 DEF OneToken, OneWA, OneRA, IsToken, IsW
  <2>. QED BY <2>5, <2>6, <2>7, <2>8 DEF OneToken
<1>22. CASE TakesDigestReturns(i, n)
  <2>1. /\ upload /\ Takes("digest", i, n) /\ i \in DOMAIN write_jobs
        /\ Pushes(to_reader, to_reader', "digest", i, n)
        /\ UNCHANGED <<upload, read_jobs, write_jobs, asked, disk, saved, jobs, broken>>
    BY <1>22, Zenon DEF TakesDigestReturns
  <2>2. /\ \A p \in InR : ~IsToken(p, i)
        /\ \A q \in asked : q[1] # i
    BY <2>1 DEF Takes, Pops, OneToken, OneWR, OneWA, IsW, InW, W
  <2>3. /\ \A p \in InW' : p \in Nat /\ p + 1 \in InW /\ W(p)' = W(p + 1)
        /\ \A p \in InW' : ~IsW(p, "digest", i)'
    <3>1. \A p \in InW' : p + 1 # 1
        BY DEF InW, At
    <3>. QED BY <2>1, <3>1 DEF Takes, Pops, OneToken, OneW, IsW, InW, W
  <2>4. \A p \in InR' : \A k : k # i /\ IsToken(p, k)' => p \in InR /\ IsToken(p, k)
    BY <2>1 DEF Pushes, IsToken, InR, R
  <2>5. OneR'
    BY <2>1, <2>2 DEF Pushes, OneToken, OneR, IsToken, InR, R
  <2>6. OneW' /\ OneA'
    BY <2>1, <2>3 DEF OneToken, OneW, OneA, IsW
  <2>7. OneWR'
    BY <2>1, <2>3, <2>4 DEF OneToken, OneWR, IsToken, IsW
  <2>8. OneWA' /\ OneRA'
    BY <2>1, <2>2, <2>3, <2>4 DEF OneToken, OneWA, OneRA, IsToken, IsW
  <2>. QED BY <2>5, <2>6, <2>7, <2>8 DEF OneToken
<1>23. CASE TakesDigestWants(i, n)
  <2>1. /\ upload /\ Takes("digest", i, n) /\ i \in DOMAIN write_jobs
        /\ Pushes(to_reader, to_reader', "confirm", i, n)
        /\ UNCHANGED <<upload, read_jobs, write_jobs, asked, disk, saved, jobs, broken>>
    BY <1>23, Zenon DEF TakesDigestWants
  <2>2. /\ \A p \in InR : ~IsToken(p, i)
        /\ \A q \in asked : q[1] # i
    BY <2>1 DEF Takes, Pops, OneToken, OneWR, OneWA, IsW, InW, W
  <2>3. /\ \A p \in InW' : p \in Nat /\ p + 1 \in InW /\ W(p)' = W(p + 1)
        /\ \A p \in InW' : ~IsW(p, "digest", i)'
    <3>1. \A p \in InW' : p + 1 # 1
        BY DEF InW, At
    <3>. QED BY <2>1, <3>1 DEF Takes, Pops, OneToken, OneW, IsW, InW, W
  <2>4. \A p \in InR' : \A k : k # i /\ IsToken(p, k)' => p \in InR /\ IsToken(p, k)
    BY <2>1 DEF Pushes, IsToken, InR, R
  <2>5. OneR'
    BY <2>1, <2>2 DEF Pushes, OneToken, OneR, IsToken, InR, R
  <2>6. OneW' /\ OneA'
    BY <2>1, <2>3 DEF OneToken, OneW, OneA, IsW
  <2>7. OneWR'
    BY <2>1, <2>3, <2>4 DEF OneToken, OneWR, IsToken, IsW
  <2>8. OneWA' /\ OneRA'
    BY <2>1, <2>2, <2>3, <2>4 DEF OneToken, OneWA, OneRA, IsToken, IsW
  <2>. QED BY <2>5, <2>6, <2>7, <2>8 DEF OneToken
<1>24. CASE TakesDigestInVain(i, n)
  <2>1. \A p \in InR' : R(p)'.kind \in {"digest", "confirm"} => p \in InR /\ R(p)' = R(p)
    BY <1>24 DEF TakesDigestInVain, Told, Pushes, InR, R
  <2>2. /\ \A p \in InW' : p \in Nat /\ p + 1 \in InW /\ W(p)' = W(p + 1)
        /\ asked' = asked
    BY <1>24 DEF TakesDigestInVain, Takes, Pops, InW, W
  <2>. QED BY <2>1, <2>2 DEF OneToken, OneW, OneR, OneA, OneWR, OneWA, OneRA, IsToken, IsW
<1>25. CASE TakesBlock(i, n)
  <2>1. /\ Takes("block", i, n) /\ i \in DOMAIN write_jobs
        /\ Updates(write_jobs, write_jobs', i)
        /\ write_jobs'[i].is_last_job = write_jobs[i].is_last_job
        /\ UNCHANGED <<upload, read_jobs, to_reader, asked, saved, jobs, verdict, kept, done, tainted,
                       broken>>
    BY <1>25, Zenon DEF TakesBlock, IsWriting
  <2>. QED BY <2>1 DEF Takes, Pops, OneToken, OneW, OneR, OneA, OneWR, OneWA, OneRA, IsToken, IsW,
     InW, InR, W, R
<1>26. CASE TakesBlockInVain(i, n)
  <2>1. \A p \in InR' : R(p)'.kind \in {"digest", "confirm"} => p \in InR /\ R(p)' = R(p)
    BY <1>26 DEF TakesBlockInVain, Told, Pushes, InR, R
  <2>2. /\ \A p \in InW' : p \in Nat /\ p + 1 \in InW /\ W(p)' = W(p + 1)
        /\ asked' = asked
    BY <1>26 DEF TakesBlockInVain, Takes, Pops, InW, W
  <2>. QED BY <2>1, <2>2 DEF OneToken, OneW, OneR, OneA, OneWR, OneWA, OneRA, IsToken, IsW
<1>27. CASE StartsUpload(i, n)
  <2>1. Pushes(to_writer, to_writer', "receive", i, n) /\ UNCHANGED <<to_reader, asked>>
    BY <1>27, Zenon DEF StartsUpload
  <2>2. \A p \in InW' : W(p)'.kind = "digest" => p \in InW /\ W(p)' = W(p)
    BY <2>1 DEF Pushes, InW, W
  <2>. QED BY <2>1, <2>2 DEF OneToken, OneW, OneR, OneA, OneWR, OneWA, OneRA, IsToken, IsW, InR, R
<1>28. CASE StartsDownload(i, n)
  <2>1. Pushes(to_reader, to_reader', "send", i, n) /\ UNCHANGED <<to_writer, asked>>
    BY <1>28, Zenon DEF StartsDownload
  <2>2. \A p \in InR' : R(p)'.kind \in {"digest", "confirm"} => p \in InR /\ R(p)' = R(p)
    BY <2>1 DEF Pushes, InR, R
  <2>. QED BY <2>1, <2>2 DEF OneToken, OneW, OneR, OneA, OneWR, OneWA, OneRA, IsToken, IsW, InW, W
<1>29. CASE AddsUpload(i, n)
    BY <1>29, <1>0 DEF AddsUpload, OneToken, OneW, OneR, OneA, OneWR, OneWA, OneRA, IsToken, IsW,
       InW, InR, W, R, IdInv, Ids
<1>30. CASE AddsDownload(i, n)
    BY <1>30, <1>0 DEF AddsDownload, OneToken, OneW, OneR, OneA, OneWR, OneWA, OneRA, IsToken,
       IsW, InW, InR, W, R, IdInv, Ids
<1>31. CASE ResumesUpload(i, n)
    BY <1>31 DEF ResumesUpload, Updates, Pushes, OneToken, OneW, OneR, OneA, OneWR, OneWA, OneRA,
       IsToken, IsW, InW, InR, W, R
<1>32. CASE ResumesDownload(i, n)
    BY <1>32 DEF ResumesDownload, Updates, Pushes, OneToken, OneW, OneR, OneA, OneWR, OneWA,
       OneRA, IsToken, IsW, InW, InR, W, R
<1>33. CASE CancelsUpload(i)
    BY <1>33 DEF CancelsUpload, Removes, Pushes, OneToken, OneW, OneR, OneA, OneWR, OneWA, OneRA,
       IsToken, IsW, InW, InR, W, R
<1>34. CASE CancelsDownload(i)
    BY <1>34 DEF CancelsDownload, Removes, Pushes, OneToken, OneW, OneR, OneA, OneWR, OneWA,
       OneRA, IsToken, IsW, InW, InR, W, R
<1>35. ASSUME NEW b \in BOOLEAN, AnswersUpload(i, n, b) PROVE OneToken'
  <2>1. /\ upload /\ <<i, n>> \in asked /\ asked' = asked \ {<<i, n>>} /\ i \in DOMAIN read_jobs
        /\ Updates(read_jobs, read_jobs', i)
        /\ UNCHANGED <<upload, write_jobs, to_writer, to_reader, disk, saved, jobs, broken>>
    BY <1>35, Zenon DEF AnswersUpload
  <2>. QED BY <2>1 DEF OneToken, OneW, OneR, OneA, OneWR, OneWA, OneRA, IsToken, IsW, InW, InR, W,
     R
<1>36. ASSUME NEW b \in BOOLEAN, AnswersDownload(i, n, b) PROVE OneToken'
  <2>1. /\ ~upload /\ <<i, n>> \in asked /\ asked' = asked \ {<<i, n>>} /\ i \in DOMAIN write_jobs
        /\ Updates(write_jobs, write_jobs', i)
        /\ Pushes(to_reader, to_reader', "confirm", i, n)
        /\ UNCHANGED <<upload, read_jobs, to_writer, disk, saved, jobs, broken>>
    BY <1>36, Zenon DEF AnswersDownload
  <2>. QED BY <2>1 DEF Pushes, OneToken, OneW, OneR, OneA, OneWR, OneWA, OneRA, IsToken, IsW, InW,
     InR, W, R
<1>37. CASE AnswersNobody(i, n)
    BY <1>37 DEF AnswersNobody, OneToken, OneW, OneR, OneA, OneWR, OneWA, OneRA, IsToken, IsW,
       InW, InR, W, R
<1>38. CASE Reconnects
    BY <1>38 DEF Reconnects, OneToken, OneW, OneR, OneA, OneWR, OneWA, OneRA, IsToken, IsW, InW,
       InR, W, R
<1>39. CASE Stutters
    BY <1>39 DEF Stutters, OneToken, OneW, OneR, OneA, OneWR, OneWA, OneRA, IsToken, IsW, InW,
       InR, W, R
<1>. QED BY <1>1, <1>2, <1>3, <1>4, <1>5, <1>6, <1>7, <1>8, <1>9, <1>10, <1>11, <1>12, <1>13,
   <1>14, <1>15, <1>16, <1>17, <1>18, <1>19, <1>20, <1>21, <1>22, <1>23, <1>24, <1>25, <1>26,
   <1>27, <1>28, <1>29, <1>30, <1>31, <1>32, <1>33, <1>34, <1>35, <1>36, <1>37, <1>38, <1>39,
   Zenon DEF Step

(* In a download whoever is asked about a file has a reader that waits. *)
LEMMA TokenInvStep ==
    ASSUME TypeInv, TypeInv', IdInv, ~upload, DownloadInv, TokenWaits, TokenInv, NEW i \in Nat,
           NEW n \in Nat, NEW kind, DownloadStep(i, n, kind)
    PROVE  TokenInv'
<1>0. jobs \in Nat /\ None # 0 /\ \A f \in Files : Size[f] \in Nat
    BY FileAssumption DEF TypeInv
<1>1. CASE SendsDigest(i)
    BY <1>1 DEF SendsDigest, Timer, Updates, Pushes, readerFrame, TokenInv, Asks, IsToken, IsW,
       InW, InR, W, R
<1>2. CASE SendsBlock(i)
    BY <1>2 DEF SendsBlock, Timer, Updates, Pushes, readerFrame, TokenInv, Asks, IsToken, IsW,
       InW, InR, W, R
<1>3. CASE SendsEnd(i)
    BY <1>3 DEF SendsEnd, Timer, Updates, Pushes, readerFrame, TokenInv, Asks, IsToken, IsW, InW,
       InR, W, R
<1>4. CASE SendsReadError(i)
    BY <1>4 DEF SendsReadError, Timer, Updates, Pushes, readerFrame, TokenInv, Asks, IsToken, IsW,
       InW, InR, W, R
<1>5. CASE SendsDigestError(i)
    BY <1>5 DEF SendsDigestError, Timer, Updates, Pushes, readerFrame, TokenInv, Asks, IsToken,
       IsW, InW, InR, W, R
<1>6. CASE SendsLast(i, kind)
    BY <1>6 DEF SendsLast, Removes, Pushes, readerFrame, TokenInv, Asks, IsToken, IsW, InW, InR,
       W, R, TokenWaits, Waits
<1>7. CASE GetsSend(i, n)
    BY <1>7 DEF GetsSend, Gets, Pops, Updates, Pushes, readerFrame, TokenInv, Asks, IsToken, IsW,
       InW, InR, W, R
<1>8. CASE GetsSendInVain(i, n)
    BY <1>8 DEF GetsSendInVain, Gets, Pops, Pushes, readerFrame, TokenInv, Asks, IsToken, IsW,
       InW, InR, W, R
<1>9. CASE GetsCancel(i, n)
    BY <1>9 DEF GetsCancel, Gets, Pops, Removes, readerFrame, TokenInv, Asks, IsToken, IsW, InW,
       InR, W, R, DownloadInv
<1>10. CASE GetsConfirm(i, n)
  <2>1. /\ Gets("confirm", i, n) /\ i \in DOMAIN read_jobs
        /\ Updates(read_jobs, read_jobs', i)
        /\ read_jobs'[i].is_last_job = read_jobs[i].is_last_job
        /\ UNCHANGED readerFrame /\ UNCHANGED to_writer
    BY <1>10, Zenon DEF GetsConfirm, IsAnswered
  <2>. QED BY <2>1 DEF Gets, Pops, Updates, readerFrame, TokenInv, Asks, IsToken, IsW, InW, InR,
     W, R
<1>11. CASE GetsOther(kind, i, n)
    BY <1>11 DEF GetsOther, Gets, Pops, readerFrame, TokenInv, Asks, IsToken, IsW, InW, InR, W, R
<1>12. CASE TakesOther(kind, i, n)
    BY <1>12 DEF TakesOther, Takes, Pops, TokenInv, Asks, IsToken, IsW, InW, InR, W, R
<1>13. CASE TakesDone(i, n)
  <2>1. to_reader' = to_reader /\ asked' = asked /\ read_jobs' = read_jobs /\ upload' = upload
    BY <1>13, Zenon DEF TakesDone, Told
  <2>2. DOMAIN write_jobs' \subseteq DOMAIN write_jobs
    BY <1>13 DEF TakesDone, Updates, Removes
  <2>3. \A p \in InW' : p + 1 \in InW /\ W(p)' = W(p + 1)
    BY <1>13 DEF TakesDone, Takes, Pops, InW, W
  <2>. QED BY <2>1, <2>2, <2>3 DEF TokenInv, Asks, IsToken, IsW, InR, R
<1>14. CASE TakesError(i, n)
  <2>1. to_reader' = to_reader /\ asked' = asked /\ read_jobs' = read_jobs /\ upload' = upload
    BY <1>14, Zenon DEF TakesError, Told
  <2>2. DOMAIN write_jobs' \subseteq DOMAIN write_jobs
    BY <1>14 DEF TakesError, Updates, Removes
  <2>3. \A p \in InW' : p + 1 \in InW /\ W(p)' = W(p + 1)
    BY <1>14 DEF TakesError, Takes, Pops, InW, W
  <2>. QED BY <2>1, <2>2, <2>3 DEF TokenInv, Asks, IsToken, IsW, InR, R
<1>15. CASE TakesDir(i, n)
    BY <1>15 DEF TakesDir, Takes, Pops, Updates, TokenInv, Asks, IsToken, IsW, InW, InR, W, R
<1>16. CASE TakesDigestAsks(i, n)
    BY <1>16 DEF TakesDigestAsks, Takes, Pops, TokenInv, Asks, IsToken, IsW, InW, InR, W, R
<1>17. ASSUME NEW b \in BOOLEAN, TakesDigestKnows(i, n, b) PROVE TokenInv'
  <2>1. /\ ~upload /\ Takes("digest", i, n) /\ i \in DOMAIN write_jobs
        /\ Updates(write_jobs, write_jobs', i)
        /\ Pushes(to_reader, to_reader', "confirm", i, n)
        /\ UNCHANGED <<upload, read_jobs, asked, disk, saved, jobs, broken>>
    BY <1>17, Zenon DEF TakesDigestKnows
  <2>. QED BY <2>1 DEF Takes, Pops, Updates, Pushes, TokenInv, Asks, IsToken, IsW, InW, InR, W, R
<1>18. CASE TakesDigestInVain(i, n)
  <2>1. to_reader' = to_reader /\ asked' = asked /\ read_jobs' = read_jobs /\ upload' = upload
    BY <1>18, Zenon DEF TakesDigestInVain, Told
  <2>2. DOMAIN write_jobs' \subseteq DOMAIN write_jobs
    BY <1>18 DEF TakesDigestInVain, Updates, Removes
  <2>3. \A p \in InW' : p + 1 \in InW /\ W(p)' = W(p + 1)
    BY <1>18 DEF TakesDigestInVain, Takes, Pops, InW, W
  <2>. QED BY <2>1, <2>2, <2>3 DEF TokenInv, Asks, IsToken, IsW, InR, R
<1>19. CASE TakesBlock(i, n)
  <2>1. /\ Takes("block", i, n) /\ i \in DOMAIN write_jobs
        /\ Updates(write_jobs, write_jobs', i)
        /\ write_jobs'[i].is_last_job = write_jobs[i].is_last_job
        /\ UNCHANGED <<upload, read_jobs, to_reader, asked, saved, jobs, verdict, kept, done, tainted,
                       broken>>
    BY <1>19, Zenon DEF TakesBlock, IsWriting
  <2>. QED BY <2>1 DEF Takes, Pops, Updates, TokenInv, Asks, IsToken, IsW, InW, InR, W, R
<1>20. CASE TakesBlockInVain(i, n)
  <2>1. to_reader' = to_reader /\ asked' = asked /\ read_jobs' = read_jobs /\ upload' = upload
    BY <1>20, Zenon DEF TakesBlockInVain, Told
  <2>2. DOMAIN write_jobs' \subseteq DOMAIN write_jobs
    BY <1>20 DEF TakesBlockInVain, Updates, Removes
  <2>3. \A p \in InW' : p + 1 \in InW /\ W(p)' = W(p + 1)
    BY <1>20 DEF TakesBlockInVain, Takes, Pops, InW, W
  <2>. QED BY <2>1, <2>2, <2>3 DEF TokenInv, Asks, IsToken, IsW, InR, R
<1>21. CASE StartsDownload(i, n)
    BY <1>21, <1>0 DEF StartsDownload, Updates, Pushes, TokenInv, Asks, IsToken, IsW, InW, InR, W,
       R, IdInv, Ids
<1>22. CASE AddsDownload(i, n)
    BY <1>22, <1>0 DEF AddsDownload, Updates, TokenInv, Asks, IsToken, IsW, InW, InR, W, R, IdInv,
       Ids
<1>23. CASE ResumesDownload(i, n)
    BY <1>23 DEF ResumesDownload, Updates, Pushes, TokenInv, Asks, IsToken, IsW, InW, InR, W, R
<1>24. CASE CancelsDownload(i)
    BY <1>24 DEF CancelsDownload, Removes, Pushes, TokenInv, Asks, IsToken, IsW, InW, InR, W, R
<1>25. ASSUME NEW b \in BOOLEAN, AnswersDownload(i, n, b) PROVE TokenInv'
  <2>1. /\ ~upload /\ <<i, n>> \in asked /\ asked' = asked \ {<<i, n>>} /\ i \in DOMAIN write_jobs
        /\ Updates(write_jobs, write_jobs', i)
        /\ Pushes(to_reader, to_reader', "confirm", i, n)
        /\ UNCHANGED <<upload, read_jobs, to_writer, disk, saved, jobs, broken>>
    BY <1>25, Zenon DEF AnswersDownload
  <2>. QED BY <2>1 DEF Updates, Pushes, TokenInv, Asks, IsToken, IsW, InW, InR, W, R
<1>26. CASE AnswersNobody(i, n)
    BY <1>26 DEF AnswersNobody, TokenInv, Asks, IsToken, IsW, InW, InR, W, R
<1>27. CASE Reconnects
    BY <1>27 DEF Reconnects, TokenInv, Asks, IsToken, IsW, InW, InR, W, R
<1>28. CASE Stutters
    BY <1>28 DEF Stutters, TokenInv, Asks, IsToken, IsW, InW, InR, W, R
<1>. QED BY <1>1, <1>2, <1>3, <1>4, <1>5, <1>6, <1>7, <1>8, <1>9, <1>10, <1>11, <1>12, <1>13,
   <1>14, <1>15, <1>16, <1>17, <1>18, <1>19, <1>20, <1>21, <1>22, <1>23, <1>24, <1>25, <1>26,
   <1>27, <1>28, Zenon DEF DownloadStep

(* A file that is open is one of the job, and read no further than its end. *)
LEMMA ReaderInvStep ==
    ASSUME TypeInv, TypeInv', TokenWaits, ReaderInv, NEW i \in Nat, NEW n \in Nat, NEW kind,
           Step(i, n, kind)
    PROVE  ReaderInv'
<1>0. jobs \in Nat /\ None # 0 /\ \A f \in Files : Size[f] \in Nat
    BY FileAssumption DEF TypeInv
<1>1. CASE SendsDigest(i)
    BY <1>1, <1>0 DEF SendsDigest, Timer, Updates, readerFrame, ReaderInv
<1>2. CASE SendsBlock(i)
  <2>1. /\ i \in DOMAIN read_jobs /\ read_jobs[i].file_num \in Files /\ read_jobs[i].file \in Nat
        /\ Updates(read_jobs, read_jobs', i) /\ read_jobs'[i].file_num = read_jobs[i].file_num
        /\ read_jobs'[i].file = read_jobs[i].file + 1
        /\ read_jobs[i].file < Size[read_jobs[i].file_num]
    BY <1>2, Zenon DEF SendsBlock, Timer
  <2>2. read_jobs'[i].file \in Nat /\ read_jobs'[i].file <= Size[read_jobs'[i].file_num]
    BY <2>1, <1>0
  <2>3. read_jobs'[i].file # None
    BY <2>2, FileAssumption
  <2>. QED BY <2>1, <2>2, <2>3 DEF Updates, ReaderInv
<1>3. CASE SendsEnd(i)
    BY <1>3, <1>0 DEF SendsEnd, Timer, Updates, readerFrame, ReaderInv
<1>4. CASE SendsReadError(i)
    BY <1>4, <1>0 DEF SendsReadError, Timer, Updates, readerFrame, ReaderInv
<1>5. CASE SendsDigestError(i)
    BY <1>5, <1>0 DEF SendsDigestError, Timer, Updates, readerFrame, ReaderInv
<1>6. CASE SendsLast(i, kind)
    BY <1>6, <1>0 DEF SendsLast, Removes, readerFrame, ReaderInv
<1>7. CASE GetsSend(i, n)
    BY <1>7 DEF GetsSend, Updates, IsNew, readerFrame, ReaderInv
<1>8. CASE GetsSendInVain(i, n)
    BY <1>8 DEF GetsSendInVain, readerFrame, ReaderInv
<1>9. CASE GetsCancel(i, n)
    BY <1>9 DEF GetsCancel, Removes, readerFrame, ReaderInv
<1>10. CASE GetsConfirm(i, n)
  <2>1. Waits(i, n)
    BY <1>10 DEF GetsConfirm, Gets, Pops, TokenWaits, IsToken, InR, R
  <2>2. i \in DOMAIN read_jobs /\ Updates(read_jobs, read_jobs', i)
    BY <1>10, Zenon DEF GetsConfirm
  <2>3. /\ read_jobs'[i].file \in {read_jobs[i].file, None}
        /\ read_jobs'[i].file = read_jobs[i].file => read_jobs'[i].file_num = n
        /\ read_jobs'[i].file_confirmed \/ read_jobs'[i].file_is_waiting =>
              read_jobs'[i].file = read_jobs[i].file
    BY <1>10, <2>1, <2>2, Zenon DEF GetsConfirm, IsAnswered, Waits
  <2>. QED BY <2>1, <2>2, <2>3 DEF Updates, ReaderInv, Waits
<1>11. CASE GetsOther(kind, i, n)
    BY <1>11 DEF GetsOther, readerFrame, ReaderInv
<1>12. CASE GetsDigestAsks(i, n)
    BY <1>12 DEF GetsDigestAsks, ReaderInv
<1>13. ASSUME NEW b \in BOOLEAN, GetsDigestKnows(i, n, b) PROVE ReaderInv'
  <2>1. Waits(i, n)
    BY <1>13 DEF GetsDigestKnows, Gets, Pops, TokenWaits, IsToken, InR, R
  <2>2. i \in DOMAIN read_jobs /\ Updates(read_jobs, read_jobs', i)
    BY <1>13, Zenon DEF GetsDigestKnows
  <2>3. /\ read_jobs'[i].file \in {read_jobs[i].file, None}
        /\ read_jobs'[i].file = read_jobs[i].file => read_jobs'[i].file_num = n
        /\ read_jobs'[i].file_confirmed \/ read_jobs'[i].file_is_waiting =>
              read_jobs'[i].file = read_jobs[i].file
    BY <1>13, <2>1, <2>2, Zenon DEF GetsDigestKnows, IsAnswered, Waits
  <2>. QED BY <2>1, <2>2, <2>3 DEF Updates, ReaderInv, Waits
<1>14. CASE TakesOther(kind, i, n)
    BY <1>14 DEF TakesOther, ReaderInv
<1>15. CASE TakesReceive(i, n)
  <2>1. /\ Takes("receive", i, n)
        /\ Updates(write_jobs, write_jobs', i)
        /\ IsNew(write_jobs'[i], n, TRUE, FALSE)
        /\ UNCHANGED <<upload, read_jobs, to_reader, asked, saved, jobs, broken>>
    BY <1>15, Zenon DEF TakesReceive
  <2>. QED BY <2>1 DEF ReaderInv
<1>16. CASE TakesCancel(i, n)
    BY <1>16 DEF TakesCancel, Removes, ReaderInv
<1>17. CASE TakesDone(i, n)
    BY <1>17 DEF TakesDone, Removes, ReaderInv
<1>18. CASE TakesError(i, n)
    BY <1>18 DEF TakesError, Removes, ReaderInv
<1>19. CASE TakesDir(i, n)
    BY <1>19 DEF TakesDir, Updates, ReaderInv
<1>20. CASE TakesDigestAsks(i, n)
    BY <1>20 DEF TakesDigestAsks, ReaderInv
<1>21. ASSUME NEW b \in BOOLEAN, TakesDigestKnows(i, n, b) PROVE ReaderInv'
  <2>1. /\ ~upload /\ Takes("digest", i, n) /\ i \in DOMAIN write_jobs
        /\ Updates(write_jobs, write_jobs', i)
        /\ Pushes(to_reader, to_reader', "confirm", i, n)
        /\ UNCHANGED <<upload, read_jobs, asked, disk, saved, jobs, broken>>
    BY <1>21, Zenon DEF TakesDigestKnows
  <2>. QED BY <2>1 DEF ReaderInv
<1>22. CASE TakesDigestReturns(i, n)
    BY <1>22 DEF TakesDigestReturns, ReaderInv
<1>23. CASE TakesDigestWants(i, n)
  <2>1. /\ upload /\ Takes("digest", i, n) /\ i \in DOMAIN write_jobs
        /\ Pushes(to_reader, to_reader', "confirm", i, n)
        /\ UNCHANGED <<upload, read_jobs, write_jobs, asked, disk, saved, jobs, broken>>
    BY <1>23, Zenon DEF TakesDigestWants
  <2>. QED BY <2>1 DEF ReaderInv
<1>24. CASE TakesDigestInVain(i, n)
    BY <1>24 DEF TakesDigestInVain, ReaderInv
<1>25. CASE TakesBlock(i, n)
  <2>1. /\ Takes("block", i, n) /\ i \in DOMAIN write_jobs
        /\ Updates(write_jobs, write_jobs', i)
        /\ write_jobs'[i].is_last_job = write_jobs[i].is_last_job
        /\ UNCHANGED <<upload, read_jobs, to_reader, asked, saved, jobs, verdict, kept, done, tainted,
                       broken>>
    BY <1>25, Zenon DEF TakesBlock, IsWriting
  <2>. QED BY <2>1 DEF ReaderInv
<1>26. CASE TakesBlockInVain(i, n)
    BY <1>26 DEF TakesBlockInVain, Updates, ReaderInv
<1>27. CASE StartsUpload(i, n)
    BY <1>27 DEF StartsUpload, Updates, IsNew, ReaderInv
<1>28. CASE StartsDownload(i, n)
    BY <1>28 DEF StartsDownload, Updates, IsNew, ReaderInv
<1>29. CASE AddsUpload(i, n)
    BY <1>29 DEF AddsUpload, Updates, IsNew, ReaderInv
<1>30. CASE AddsDownload(i, n)
    BY <1>30 DEF AddsDownload, Updates, IsNew, ReaderInv
<1>31. CASE ResumesUpload(i, n)
    BY <1>31 DEF ResumesUpload, Updates, IsResumed, ReaderInv
<1>32. CASE ResumesDownload(i, n)
    BY <1>32 DEF ResumesDownload, Updates, IsResumed, ReaderInv
<1>33. CASE CancelsUpload(i)
    BY <1>33 DEF CancelsUpload, Removes, ReaderInv
<1>34. CASE CancelsDownload(i)
    BY <1>34 DEF CancelsDownload, Removes, ReaderInv
<1>35. ASSUME NEW b \in BOOLEAN, AnswersUpload(i, n, b) PROVE ReaderInv'
  <2>1. Waits(i, n)
    BY <1>35 DEF AnswersUpload, TokenWaits, IsToken, InR, R
  <2>2. i \in DOMAIN read_jobs /\ Updates(read_jobs, read_jobs', i)
    BY <1>35, Zenon DEF AnswersUpload
  <2>3. /\ read_jobs'[i].file \in {read_jobs[i].file, None}
        /\ read_jobs'[i].file = read_jobs[i].file => read_jobs'[i].file_num = n
        /\ read_jobs'[i].file_confirmed \/ read_jobs'[i].file_is_waiting =>
              read_jobs'[i].file = read_jobs[i].file
    BY <1>35, <2>1, <2>2, Zenon DEF AnswersUpload, IsAnswered, Waits
  <2>. QED BY <2>1, <2>2, <2>3 DEF Updates, ReaderInv, Waits
<1>36. ASSUME NEW b \in BOOLEAN, AnswersDownload(i, n, b) PROVE ReaderInv'
  <2>1. /\ ~upload /\ <<i, n>> \in asked /\ asked' = asked \ {<<i, n>>} /\ i \in DOMAIN write_jobs
        /\ Updates(write_jobs, write_jobs', i)
        /\ Pushes(to_reader, to_reader', "confirm", i, n)
        /\ UNCHANGED <<upload, read_jobs, to_writer, disk, saved, jobs, broken>>
    BY <1>36, Zenon DEF AnswersDownload
  <2>. QED BY <2>1 DEF ReaderInv
<1>37. CASE AnswersNobody(i, n)
    BY <1>37 DEF AnswersNobody, ReaderInv
<1>38. CASE Reconnects
    BY <1>38 DEF Reconnects, ReaderInv
<1>39. CASE Stutters
    BY <1>39 DEF Stutters, ReaderInv
<1>. QED BY <1>1, <1>2, <1>3, <1>4, <1>5, <1>6, <1>7, <1>8, <1>9, <1>10, <1>11, <1>12, <1>13,
   <1>14, <1>15, <1>16, <1>17, <1>18, <1>19, <1>20, <1>21, <1>22, <1>23, <1>24, <1>25, <1>26,
   <1>27, <1>28, <1>29, <1>30, <1>31, <1>32, <1>33, <1>34, <1>35, <1>36, <1>37, <1>38, <1>39,
   Zenon DEF Step

(* Another job becomes the one the history is about. *)
Renews(i, n) == TakesReceive(i, n) \/ StartsDownload(i, n) \/ AddsDownload(i, n)

(* There is one job the history is about. *)
LEMMA OwnerUnique ==
    ASSUME IdInv, OrderInv, NEW i, NEW k, Owner(i), Owner(k)
    PROVE  i = k
BY DEF IdInv, OrderInv, UploadSingle, UploadOwnerInv, Owner

(* Only a new job takes the place of the one the history is about. *)
LEMMA UploadOwnerKept ==
    ASSUME upload, NEW i \in Nat, NEW n \in Nat, NEW kind, UploadStep(i, n, kind)
    PROVE  (\A k : Owner(k)' => Owner(k)) \/ Renews(i, n)
<1>1. CASE SendsDigest(i)
    BY <1>1 DEF SendsDigest, Timer, Updates, Pushes, readerFrame, Owner, UploadFresh,
       WaitsForUser, IsW, InW, W
<1>2. CASE SendsBlock(i)
    BY <1>2 DEF SendsBlock, Timer, Updates, Pushes, readerFrame, Owner, UploadFresh, WaitsForUser,
       IsW, InW, W
<1>3. CASE SendsEnd(i)
    BY <1>3 DEF SendsEnd, Timer, Updates, Pushes, readerFrame, Owner, UploadFresh, WaitsForUser,
       IsW, InW, W
<1>4. CASE SendsReadError(i)
    BY <1>4 DEF SendsReadError, Timer, Updates, Pushes, readerFrame, Owner, UploadFresh,
       WaitsForUser, IsW, InW, W
<1>5. CASE SendsDigestError(i)
    BY <1>5 DEF SendsDigestError, Timer, Updates, Pushes, readerFrame, Owner, UploadFresh,
       WaitsForUser, IsW, InW, W
<1>6. CASE SendsLast(i, kind)
    BY <1>6 DEF SendsLast, Removes, Pushes, readerFrame, Owner, UploadFresh, WaitsForUser, IsW,
       InW, W
<1>7. CASE GetsConfirm(i, n)
  <2>1. /\ Gets("confirm", i, n) /\ i \in DOMAIN read_jobs
        /\ Updates(read_jobs, read_jobs', i)
        /\ read_jobs'[i].is_last_job = read_jobs[i].is_last_job
        /\ UNCHANGED readerFrame /\ UNCHANGED to_writer
    BY <1>7, Zenon DEF GetsConfirm, IsAnswered
  <2>. QED BY <2>1 DEF Updates, readerFrame, Owner, UploadFresh, WaitsForUser, IsW, InW, W
<1>8. CASE GetsOther(kind, i, n)
    BY <1>8 DEF GetsOther, readerFrame, Owner, UploadFresh, WaitsForUser, IsW, InW, W
<1>9. CASE GetsDigestAsks(i, n)
    BY <1>9 DEF GetsDigestAsks, Owner, UploadFresh, WaitsForUser, IsW, InW, W
<1>10. ASSUME NEW b \in BOOLEAN, GetsDigestKnows(i, n, b) PROVE (\A k : Owner(k)' => Owner(k)) \/ Renews(i, n)
  <2>1. /\ upload /\ Gets("digest", i, n) /\ i \in DOMAIN read_jobs
        /\ Updates(read_jobs, read_jobs', i)
        /\ UNCHANGED <<upload, asked, write_jobs, to_writer, disk, saved, jobs, broken>>
    BY <1>10, Zenon DEF GetsDigestKnows
  <2>2. read_jobs'[i].is_last_job = read_jobs[i].is_last_job
    BY <1>10, Zenon DEF GetsDigestKnows, IsAnswered
  <2>. QED BY <2>1, <2>2 DEF Updates, Owner, UploadFresh, WaitsForUser, IsW, InW, W
<1>11. CASE TakesOther(kind, i, n)
    BY <1>11 DEF TakesOther, Takes, Pops, Owner, UploadFresh, WaitsForUser, IsW, InW, W
<1>12. CASE TakesReceive(i, n)
    BY <1>12 DEF Renews
<1>13. CASE TakesCancel(i, n)
    BY <1>13 DEF TakesCancel, Takes, Pops, Removes, Owner, UploadFresh, WaitsForUser, IsW, InW, W
<1>14. CASE TakesDone(i, n)
    BY <1>14 DEF TakesDone, Takes, Pops, Removes, Owner, UploadFresh, WaitsForUser, IsW, InW, W
<1>15. CASE TakesError(i, n)
    BY <1>15 DEF TakesError, Takes, Pops, Removes, Owner, UploadFresh, WaitsForUser, IsW, InW, W
<1>16. CASE TakesDigestReturns(i, n)
    BY <1>16 DEF TakesDigestReturns, Takes, Pops, Owner, UploadFresh, WaitsForUser, IsW, InW, W
<1>17. CASE TakesDigestWants(i, n)
  <2>1. /\ upload /\ Takes("digest", i, n) /\ i \in DOMAIN write_jobs
        /\ Pushes(to_reader, to_reader', "confirm", i, n)
        /\ UNCHANGED <<upload, read_jobs, write_jobs, asked, disk, saved, jobs, broken>>
    BY <1>17, Zenon DEF TakesDigestWants
  <2>. QED BY <2>1 DEF Takes, Pops, Owner, UploadFresh, WaitsForUser, IsW, InW, W
<1>18. CASE TakesDigestInVain(i, n)
    BY <1>18 DEF TakesDigestInVain, Takes, Pops, Owner, UploadFresh, WaitsForUser, IsW, InW, W
<1>19. CASE TakesBlock(i, n)
  <2>1. /\ Takes("block", i, n) /\ i \in DOMAIN write_jobs
        /\ Updates(write_jobs, write_jobs', i)
        /\ write_jobs'[i].is_last_job = write_jobs[i].is_last_job
        /\ UNCHANGED <<upload, read_jobs, to_reader, asked, saved, jobs, verdict, kept, done, tainted,
                       broken>>
    BY <1>19, Zenon DEF TakesBlock, IsWriting
  <2>. QED BY <2>1 DEF Takes, Pops, Updates, Owner, UploadFresh, WaitsForUser, IsW, InW, W
<1>20. CASE TakesBlockInVain(i, n)
    BY <1>20 DEF TakesBlockInVain, Takes, Pops, Updates, IsWriting, Owner, UploadFresh,
       WaitsForUser, IsW, InW, W
<1>21. CASE StartsUpload(i, n)
    BY <1>21 DEF StartsUpload, Updates, IsNew, Pushes, Owner, UploadFresh, WaitsForUser, IsW, InW,
       W
<1>22. CASE AddsUpload(i, n)
    BY <1>22 DEF AddsUpload, Updates, IsNew, Owner, UploadFresh, WaitsForUser, IsW, InW, W
<1>23. CASE ResumesUpload(i, n)
    BY <1>23 DEF ResumesUpload, Updates, IsResumed, Pushes, Owner, UploadFresh, WaitsForUser, IsW,
       InW, W
<1>24. CASE CancelsUpload(i)
    BY <1>24 DEF CancelsUpload, Removes, Pushes, Owner, UploadFresh, WaitsForUser, IsW, InW, W
<1>25. ASSUME NEW b \in BOOLEAN, AnswersUpload(i, n, b) PROVE (\A k : Owner(k)' => Owner(k)) \/ Renews(i, n)
  <2>1. /\ upload /\ <<i, n>> \in asked /\ asked' = asked \ {<<i, n>>} /\ i \in DOMAIN read_jobs
        /\ Updates(read_jobs, read_jobs', i)
        /\ UNCHANGED <<upload, write_jobs, to_writer, to_reader, disk, saved, jobs, broken>>
    BY <1>25, Zenon DEF AnswersUpload
  <2>2. read_jobs'[i].is_last_job = read_jobs[i].is_last_job
    BY <1>25, Zenon DEF AnswersUpload, IsAnswered
  <2>. QED BY <2>1, <2>2 DEF Updates, Owner, UploadFresh, WaitsForUser, IsW, InW, W
<1>26. CASE AnswersNobody(i, n)
    BY <1>26 DEF AnswersNobody, Owner, UploadFresh, WaitsForUser, IsW, InW, W
<1>27. CASE Reconnects
    BY <1>27 DEF Reconnects, Owner, UploadFresh, WaitsForUser, IsW, InW, W
<1>28. CASE Stutters
    BY <1>28 DEF Stutters, Owner, UploadFresh, WaitsForUser, IsW, InW, W
<1>. QED BY <1>1, <1>2, <1>3, <1>4, <1>5, <1>6, <1>7, <1>8, <1>9, <1>10, <1>11, <1>12, <1>13,
   <1>14, <1>15, <1>16, <1>17, <1>18, <1>19, <1>20, <1>21, <1>22, <1>23, <1>24, <1>25, <1>26,
   <1>27, <1>28, Zenon DEF UploadStep

(* See UploadOwnerKept. *)
LEMMA DownloadOwnerKept ==
    ASSUME ~upload, NEW i \in Nat, NEW n \in Nat, NEW kind, DownloadStep(i, n, kind)
    PROVE  (\A k : Owner(k)' => Owner(k)) \/ Renews(i, n)
<1>1. CASE SendsDigest(i)
    BY <1>1 DEF SendsDigest, Timer, Updates, readerFrame, Owner
<1>2. CASE SendsBlock(i)
    BY <1>2 DEF SendsBlock, Timer, Updates, readerFrame, Owner
<1>3. CASE SendsEnd(i)
    BY <1>3 DEF SendsEnd, Timer, Updates, readerFrame, Owner
<1>4. CASE SendsReadError(i)
    BY <1>4 DEF SendsReadError, Timer, Updates, readerFrame, Owner
<1>5. CASE SendsDigestError(i)
    BY <1>5 DEF SendsDigestError, Timer, Updates, readerFrame, Owner
<1>6. CASE SendsLast(i, kind)
    BY <1>6 DEF SendsLast, Removes, readerFrame, Owner
<1>7. CASE GetsSend(i, n)
    BY <1>7 DEF GetsSend, Updates, readerFrame, Owner
<1>8. CASE GetsSendInVain(i, n)
    BY <1>8 DEF GetsSendInVain, readerFrame, Owner
<1>9. CASE GetsCancel(i, n)
    BY <1>9 DEF GetsCancel, Removes, readerFrame, Owner
<1>10. CASE GetsConfirm(i, n)
  <2>1. /\ Gets("confirm", i, n) /\ i \in DOMAIN read_jobs
        /\ Updates(read_jobs, read_jobs', i)
        /\ read_jobs'[i].is_last_job = read_jobs[i].is_last_job
        /\ UNCHANGED readerFrame /\ UNCHANGED to_writer
    BY <1>10, Zenon DEF GetsConfirm, IsAnswered
  <2>. QED BY <2>1 DEF Updates, readerFrame, Owner
<1>11. CASE GetsOther(kind, i, n)
    BY <1>11 DEF GetsOther, readerFrame, Owner
<1>12. CASE TakesOther(kind, i, n)
    BY <1>12 DEF TakesOther, Owner
<1>13. CASE TakesDone(i, n)
    BY <1>13 DEF TakesDone, Removes, Owner
<1>14. CASE TakesError(i, n)
    BY <1>14 DEF TakesError, Removes, Owner
<1>15. CASE TakesDir(i, n)
    BY <1>15 DEF TakesDir, Updates, Owner
<1>16. CASE TakesDigestAsks(i, n)
    BY <1>16 DEF TakesDigestAsks, Owner
<1>17. ASSUME NEW b \in BOOLEAN, TakesDigestKnows(i, n, b) PROVE (\A k : Owner(k)' => Owner(k)) \/ Renews(i, n)
  <2>1. /\ ~upload /\ Takes("digest", i, n) /\ i \in DOMAIN write_jobs
        /\ Updates(write_jobs, write_jobs', i)
        /\ Pushes(to_reader, to_reader', "confirm", i, n)
        /\ UNCHANGED <<upload, read_jobs, asked, disk, saved, jobs, broken>>
    BY <1>17, Zenon DEF TakesDigestKnows
  <2>. QED BY <2>1 DEF Updates, Owner
<1>18. CASE TakesDigestInVain(i, n)
    BY <1>18 DEF TakesDigestInVain, Owner
<1>19. CASE TakesBlock(i, n)
  <2>1. /\ Takes("block", i, n) /\ i \in DOMAIN write_jobs
        /\ Updates(write_jobs, write_jobs', i)
        /\ write_jobs'[i].is_last_job = write_jobs[i].is_last_job
        /\ UNCHANGED <<upload, read_jobs, to_reader, asked, saved, jobs, verdict, kept, done, tainted,
                       broken>>
    BY <1>19, Zenon DEF TakesBlock, IsWriting
  <2>. QED BY <2>1 DEF Updates, Owner
<1>20. CASE TakesBlockInVain(i, n)
    BY <1>20 DEF TakesBlockInVain, Updates, IsWriting, Owner
<1>21. CASE StartsDownload(i, n)
    BY <1>21 DEF Renews
<1>22. CASE AddsDownload(i, n)
    BY <1>22 DEF Renews
<1>23. CASE ResumesDownload(i, n)
    BY <1>23 DEF ResumesDownload, Updates, IsResumed, Owner
<1>24. CASE CancelsDownload(i)
    BY <1>24 DEF CancelsDownload, Removes, Owner
<1>25. ASSUME NEW b \in BOOLEAN, AnswersDownload(i, n, b) PROVE (\A k : Owner(k)' => Owner(k)) \/ Renews(i, n)
  <2>1. /\ ~upload /\ <<i, n>> \in asked /\ asked' = asked \ {<<i, n>>} /\ i \in DOMAIN write_jobs
        /\ Updates(write_jobs, write_jobs', i)
        /\ Pushes(to_reader, to_reader', "confirm", i, n)
        /\ UNCHANGED <<upload, read_jobs, to_writer, disk, saved, jobs, broken>>
    BY <1>25, Zenon DEF AnswersDownload
  <2>. QED BY <2>1 DEF Updates, Owner
<1>26. CASE AnswersNobody(i, n)
    BY <1>26 DEF AnswersNobody, Owner
<1>27. CASE Reconnects
    BY <1>27 DEF Reconnects, Owner
<1>28. CASE Stutters
    BY <1>28 DEF Stutters, Owner
<1>. QED BY <1>1, <1>2, <1>3, <1>4, <1>5, <1>6, <1>7, <1>8, <1>9, <1>10, <1>11, <1>12, <1>13,
   <1>14, <1>15, <1>16, <1>17, <1>18, <1>19, <1>20, <1>21, <1>22, <1>23, <1>24, <1>25, <1>26,
   <1>27, <1>28, Zenon DEF DownloadStep

(* What an answer changes of the history. *)
LEMMA DecidedVerdict ==
    ASSUME NEW n \in Files, NEW b \in BOOLEAN, IsDecided(n, b)
    PROVE  /\ b => verdict'[n] = "overwrite"
           /\ verdict'[n] \in {"overwrite", "skip"}
           /\ \A f \in Files : f # n => verdict'[f] = verdict[f]
BY DEF IsDecided, Answered

(* The reader's job after an answer in an upload. *)
LEMMA AnsweredReader ==
    ASSUME TypeInv, KindInv, NEW i \in Nat, NEW n \in Files, NEW b \in BOOLEAN,
           i \in DOMAIN read_jobs, Waits(i, n), AnswersOfJob(i),
           IsAnswered(read_jobs[i], read_jobs'[i], n, b), IsDecided(n, b)
    PROVE  AnswersOfJob(i)'
<1>1. /\ verdict'[n] \in {"overwrite", "skip"}
      /\ b => verdict'[n] = "overwrite"
      /\ \A f \in Files : f # n => verdict'[f] = verdict[f]
    BY DecidedVerdict
<1>2. /\ n \in Nat /\ \A f \in Files : f \in Nat
      /\ read_jobs[i].file_num = n
    BY FileAssumption DEF Files, Waits
<1>3. CASE b
    <2>1. read_jobs'[i].file_num = n /\ read_jobs'[i].file_confirmed
        BY <1>2, <1>3, Zenon DEF IsAnswered
    <2>2. verdict'[n] = "overwrite"
        BY <1>1, <1>3, Zenon
    <2>. QED BY <1>2, <2>1, <2>2, <1>1 DEF AnswersOfJob, Answered
<1>4. CASE ~b
    <2>1. read_jobs'[i].file_num = n + 1 /\ ~read_jobs'[i].file_confirmed
        BY <1>2, <1>4, Zenon DEF IsAnswered
    <2>2. /\ \A f \in Files : verdict[f] \in {"overwrite", "skip"} => f <= n
          /\ \A f \in Files : f # n => verdict'[f] = verdict[f]
        BY <1>1, <1>2 DEF AnswersOfJob, Answered
    <2>3. \A f \in Files : verdict'[f] \in {"overwrite", "skip"} => f <= n
        BY <1>2, <2>2
    <2>. QED BY <1>2, <2>1, <2>3 DEF AnswersOfJob, Answered
<1>. QED BY <1>3, <1>4

(* The same in a download: the reader has not heard of it yet. *)
LEMMA AnsweredReaderWaits ==
    ASSUME NEW i \in Nat, NEW n \in Files, NEW b \in BOOLEAN, Waits(i, n), AnswersOfJob(i),
           UNCHANGED read_jobs, IsDecided(n, b)
    PROVE  AnswersOfJob(i)'
<1>1. \A f \in Files : f # n => verdict'[f] = verdict[f]
    BY DecidedVerdict
<1>2. n \in Nat
    BY FileAssumption DEF Files
<1>. QED BY <1>1, <1>2 DEF Waits, AnswersOfJob, Answered

(* Blocks under way are of other files than the one just answered. *)
LEMMA AnsweredBlocks ==
    ASSUME KindInv, NEW i \in Nat, NEW n \in Files, NEW b \in BOOLEAN, IsDecided(n, b),
           AnswersToWriter(i), ~Answered(n),
           \A p \in InW' : \E q \in InW : W(p)' = W(q),
           \A p \in InW' : ~IsW(p, "digest", i)'
    PROVE  AnswersToWriter(i)'
<1>1. \A f \in Files : f # n => verdict'[f] = verdict[f]
    BY DecidedVerdict
<1>. QED BY <1>1 DEF KindInv, AnswersToWriter, Answered, IsW

(* An answer: by the client when it gets the digest, by the connection     *)
(* manager that has no such file, or by the user.                          *)
Decides(i, n) ==
    \E b \in BOOLEAN :
        \/ GetsDigestKnows(i, n, b) \/ AnswersUpload(i, n, b)
        \/ TakesDigestKnows(i, n, b) \/ AnswersDownload(i, n, b)
        \/ b /\ TakesDigestWants(i, n)

(* The client answers for the user, or the user does: in an upload. *)
LEMMA KnowsAnswers ==
    ASSUME TypeInv, IdInv, KindInv, OrderInv, TokenWaits, OneToken, AnsweredInv,
           NEW i \in Nat, NEW n \in Nat, NEW b \in BOOLEAN, GetsDigestKnows(i, n, b)
    PROVE  Owner(i) /\ n \in Files /\ Waits(i, n) /\ ~Answered(n) /\ AnsweredFrom(i)'
<1>1. /\ upload /\ Gets("digest", i, n) /\ i \in DOMAIN read_jobs
      /\ Updates(read_jobs, read_jobs', i)
      /\ UNCHANGED <<upload, asked, write_jobs, to_writer, disk, saved, jobs, broken>>
  BY Zenon DEF GetsDigestKnows
<1>2. IsAnswered(read_jobs[i], read_jobs'[i], n, b) /\ IsDecided(n, b)
    BY Zenon DEF GetsDigestKnows
<1>3. n \in Files /\ Waits(i, n)
    BY <1>1 DEF Gets, Pops, KindInv, TokenWaits, IsToken, InR, R
<1>4. ~UploadFresh(i)
    BY <1>1 DEF OrderInv, UploadFreshInv, UploadNew, UploadFresh, WaitsForUser, IsToken, IsW, Gets, Pops, InR, R
<1>5. Owner(i) /\ i \in Ids
    BY <1>1, <1>4 DEF Owner, IdInv
<1>6. AnsweredFrom(i) /\ ~Answered(n)
    BY <1>1, <1>5 DEF AnsweredInv, AnsweredFrom, AnswersToReader, AnswersOfUser, IsR, Gets, Pops, InR, R
<1>7. /\ \A p \in InW' : ~IsW(p, "digest", i)'
      /\ \A q \in asked' : q[1] # i
    BY <1>1 DEF OneToken, OneWR, OneRA, OneWA, OneA, IsToken, IsW, InW, W, Gets, Pops, InR, R
<1>8. \A p \in InR' : ~IsToken(p, i)'
    <2>1. \A p \in InR' : p + 1 # 1
        BY DEF InR, At
    <2>. QED BY <1>1, <2>1 DEF Gets, Pops, OneToken, OneR, IsToken, InR, R
<1>9. AnswersToWriter(i)'
    BY <1>1, <1>2, <1>3, <1>6, <1>7, AnsweredBlocks DEF AnsweredFrom, InW, W
<1>10. AnswersOfJob(i)'
    BY <1>1, <1>2, <1>3, <1>6, AnsweredReader DEF AnsweredFrom
<1>. QED BY <1>1, <1>3, <1>5, <1>6, <1>7, <1>8, <1>9, <1>10 DEF AnsweredFrom, AnswersToReader,
         AnswersOfUser, IsR, IsToken

(* See KnowsAnswers. *)
LEMMA UserAnswers ==
    ASSUME TypeInv, IdInv, KindInv, OrderInv, TokenWaits, OneToken, AnsweredInv,
           NEW i \in Nat, NEW n \in Nat, NEW b \in BOOLEAN, AnswersUpload(i, n, b)
    PROVE  Owner(i) /\ n \in Files /\ Waits(i, n) /\ ~Answered(n) /\ AnsweredFrom(i)'
<1>1. /\ upload /\ <<i, n>> \in asked /\ asked' = asked \ {<<i, n>>} /\ i \in DOMAIN read_jobs
      /\ Updates(read_jobs, read_jobs', i)
      /\ UNCHANGED <<upload, write_jobs, to_writer, to_reader, disk, saved, jobs, broken>>
  BY Zenon DEF AnswersUpload
<1>2. IsAnswered(read_jobs[i], read_jobs'[i], n, b) /\ IsDecided(n, b)
    BY Zenon DEF AnswersUpload
<1>3. n \in Files /\ Waits(i, n)
    BY <1>1 DEF TypeInv, TokenWaits
<1>4. ~UploadFresh(i)
    BY <1>1 DEF OrderInv, UploadFreshInv, UploadNew, UploadFresh, WaitsForUser, IsToken, IsW, InR, R
<1>5. Owner(i) /\ i \in Ids
    BY <1>1, <1>4 DEF Owner, IdInv
<1>6. AnsweredFrom(i) /\ ~Answered(n)
    BY <1>1, <1>5 DEF AnsweredInv, AnsweredFrom, AnswersToReader, AnswersOfUser, IsR, InR, R
<1>7. /\ \A p \in InW' : ~IsW(p, "digest", i)'
      /\ \A q \in asked' : q[1] # i
    BY <1>1 DEF OneToken, OneWR, OneRA, OneWA, OneA, IsToken, IsW, InW, W, InR, R
<1>8. \A p \in InR' : ~IsToken(p, i)'
    BY <1>1 DEF OneToken, OneRA, IsToken, InR, R
<1>9. AnswersToWriter(i)'
    BY <1>1, <1>2, <1>3, <1>6, <1>7, AnsweredBlocks DEF AnsweredFrom, InW, W
<1>10. AnswersOfJob(i)'
    BY <1>1, <1>2, <1>3, <1>6, AnsweredReader DEF AnsweredFrom
<1>. QED BY <1>1, <1>3, <1>5, <1>6, <1>7, <1>8, <1>9, <1>10 DEF AnsweredFrom, AnswersToReader,
         AnswersOfUser, IsR, IsToken

(* The client answers: in a download. *)
LEMMA ClientAnswers ==
    ASSUME TypeInv, IdInv, KindInv, OrderInv, TokenWaits, OneToken, AnsweredInv,
           NEW i \in Nat, NEW n \in Nat, NEW b \in BOOLEAN, TakesDigestKnows(i, n, b)
    PROVE  Owner(i) /\ n \in Files /\ Waits(i, n) /\ ~Answered(n) /\ AnsweredFrom(i)'
<1>1. /\ ~upload /\ Takes("digest", i, n) /\ i \in DOMAIN write_jobs
      /\ Updates(write_jobs, write_jobs', i)
      /\ Pushes(to_reader, to_reader', "confirm", i, n)
      /\ UNCHANGED <<upload, read_jobs, asked, disk, saved, jobs, broken>>
  BY Zenon DEF TakesDigestKnows
<1>2. IsDecided(n, b) /\ to_reader'[Len(to_reader) + 1].overwrite = b
    BY Zenon DEF TakesDigestKnows
<1>3. n \in Files /\ Waits(i, n)
    BY <1>1 DEF Takes, Pops, KindInv, TokenWaits, InW, W
<1>5. Owner(i) /\ i \in Ids
    BY <1>1 DEF Owner, IdInv
<1>6. AnsweredFrom(i) /\ ~Answered(n)
    BY <1>1, <1>5 DEF AnsweredInv, AnsweredFrom, AnswersToWriter, AnswersOfUser, IsW, Takes, Pops, InW, W
<1>7. /\ \A p \in InR : ~IsToken(p, i)
      /\ \A q \in asked' : q[1] # i
    BY <1>1 DEF OneToken, OneWR, OneRA, OneWA, OneA, IsToken, IsW, Takes, Pops, InW, W, InR, R
<1>8. \A p \in InW' : ~IsW(p, "digest", i)'
    <2>1. \A p \in InW' : p + 1 # 1
        BY DEF InW, At
    <2>. QED BY <1>1, <2>1 DEF Takes, Pops, OneToken, OneW, IsW, InW, W
<1>9. AnswersToWriter(i)'
    <2>1. \A p \in InW' : \E q \in InW : W(p)' = W(q)
        BY <1>1 DEF Takes, Pops, InW, W
    <2>. QED BY <2>1, <1>2, <1>3, <1>6, <1>8, AnsweredBlocks DEF AnsweredFrom
<1>10. AnswersOfJob(i)'
    BY <1>1, <1>2, <1>3, <1>6, AnsweredReaderWaits DEF AnsweredFrom
<1>11. AnswersToReader(i)'
    <2>1. verdict'[n] = IF to_reader'[Len(to_reader) + 1].overwrite THEN "overwrite" ELSE "skip"
        BY <1>2, Zenon DEF IsDecided
    <2>. QED BY <1>1, <1>7, <2>1 DEF Pushes, AnswersToReader, IsToken, IsR, InR, R
<1>12. ~DownloadFresh(i)
    BY <1>1 DEF OrderInv, DownloadInv, DownloadNew, DownloadFresh, WaitsForUser, IsR, Takes, Pops, InW, W
<1>13. ~DownloadFresh(i)'
    <2>1. write_jobs'[i].is_last_job = write_jobs[i].is_last_job
        BY Zenon DEF TakesDigestKnows, IsAnswered
    <2>. QED BY <1>1, <1>12, <2>1 DEF Pushes, Updates, DownloadFresh, WaitsForUser, IsR, InR, R
<1>. QED BY <1>1, <1>3, <1>5, <1>6, <1>7, <1>9, <1>10, <1>11, <1>13 DEF AnsweredFrom, AnswersOfUser

(* The user answers: in a download. *)
LEMMA AskedAnswers ==
    ASSUME TypeInv, IdInv, KindInv, OrderInv, TokenWaits, OneToken, AnsweredInv,
           NEW i \in Nat, NEW n \in Nat, NEW b \in BOOLEAN, AnswersDownload(i, n, b)
    PROVE  Owner(i) /\ n \in Files /\ Waits(i, n) /\ ~Answered(n) /\ AnsweredFrom(i)'
<1>1. /\ ~upload /\ <<i, n>> \in asked /\ asked' = asked \ {<<i, n>>} /\ i \in DOMAIN write_jobs
      /\ Updates(write_jobs, write_jobs', i)
      /\ Pushes(to_reader, to_reader', "confirm", i, n)
      /\ UNCHANGED <<upload, read_jobs, to_writer, disk, saved, jobs, broken>>
  BY Zenon DEF AnswersDownload
<1>2. IsDecided(n, b) /\ to_reader'[Len(to_reader) + 1].overwrite = b
    BY Zenon DEF AnswersDownload
<1>3. n \in Files /\ Waits(i, n)
    BY <1>1 DEF TypeInv, TokenWaits
<1>5. Owner(i) /\ i \in Ids
    BY <1>1 DEF Owner, IdInv
<1>6. AnsweredFrom(i) /\ ~Answered(n)
    BY <1>1, <1>5 DEF AnsweredInv, AnsweredFrom, AnswersToWriter, AnswersOfUser, IsW, InW, W
<1>7. /\ \A p \in InR : ~IsToken(p, i)
      /\ \A q \in asked' : q[1] # i
    BY <1>1 DEF OneToken, OneWR, OneRA, OneWA, OneA, IsToken, IsW, InW, W, InR, R
<1>8. \A p \in InW' : ~IsW(p, "digest", i)'
    BY <1>1 DEF OneToken, OneWA, IsW, InW, W
<1>9. AnswersToWriter(i)'
    <2>1. \A p \in InW' : \E q \in InW : W(p)' = W(q)
        BY <1>1 DEF InW, W
    <2>. QED BY <2>1, <1>2, <1>3, <1>6, <1>8, AnsweredBlocks DEF AnsweredFrom
<1>10. AnswersOfJob(i)'
    BY <1>1, <1>2, <1>3, <1>6, AnsweredReaderWaits DEF AnsweredFrom
<1>11. AnswersToReader(i)'
    <2>1. verdict'[n] = IF to_reader'[Len(to_reader) + 1].overwrite THEN "overwrite" ELSE "skip"
        BY <1>2, Zenon DEF IsDecided
    <2>. QED BY <1>1, <1>7, <2>1 DEF Pushes, AnswersToReader, IsToken, IsR, InR, R
<1>12. ~DownloadFresh(i)
    BY <1>1 DEF OrderInv, DownloadInv, DownloadNew, DownloadFresh, WaitsForUser, IsR, InW, W
<1>13. ~DownloadFresh(i)'
    <2>1. write_jobs'[i].is_last_job = write_jobs[i].is_last_job
        BY Zenon DEF AnswersDownload, IsAnswered
    <2>. QED BY <1>1, <1>12, <2>1 DEF Pushes, Updates, DownloadFresh, WaitsForUser, IsR, InR, R
<1>. QED BY <1>1, <1>3, <1>5, <1>6, <1>7, <1>9, <1>10, <1>11, <1>13 DEF AnsweredFrom, AnswersOfUser

(* The connection manager answers: in an upload. *)
LEMMA ManagerAnswers ==
    ASSUME TypeInv, IdInv, KindInv, OrderInv, TokenWaits, OneToken, AnsweredInv,
           NEW i \in Nat, NEW n \in Nat, TakesDigestWants(i, n)
    PROVE  Owner(i) /\ n \in Files /\ Waits(i, n) /\ ~Answered(n) /\ AnsweredFrom(i)'
<1>1. /\ upload /\ Takes("digest", i, n) /\ i \in DOMAIN write_jobs
      /\ Pushes(to_reader, to_reader', "confirm", i, n)
      /\ UNCHANGED <<upload, read_jobs, write_jobs, asked, disk, saved, jobs, broken>>
  BY Zenon DEF TakesDigestWants
<1>2. IsDecided(n, TRUE) /\ to_reader'[Len(to_reader) + 1].overwrite = TRUE
    BY Zenon DEF TakesDigestWants
<1>3. n \in Files /\ Waits(i, n)
    BY <1>1 DEF Takes, Pops, KindInv, TokenWaits, InW, W
<1>5. Owner(i) /\ i \in Ids
    BY <1>1 DEF Owner, IdInv
<1>6. AnsweredFrom(i) /\ ~Answered(n)
    BY <1>1, <1>5 DEF AnsweredInv, AnsweredFrom, AnswersToWriter, AnswersOfUser, IsW, Takes, Pops, InW, W
<1>7. /\ \A p \in InR : ~IsToken(p, i)
      /\ \A q \in asked' : q[1] # i
    BY <1>1 DEF OneToken, OneWR, OneRA, OneWA, OneA, IsToken, IsW, Takes, Pops, InW, W, InR, R
<1>8. \A p \in InW' : ~IsW(p, "digest", i)'
    <2>1. \A p \in InW' : p + 1 # 1
        BY DEF InW, At
    <2>. QED BY <1>1, <2>1 DEF Takes, Pops, OneToken, OneW, IsW, InW, W
<1>9. AnswersToWriter(i)'
    <2>1. \A p \in InW' : \E q \in InW : W(p)' = W(q)
        BY <1>1 DEF Takes, Pops, InW, W
    <2>. QED BY <2>1, <1>2, <1>3, <1>6, <1>8, AnsweredBlocks DEF AnsweredFrom
<1>10. AnswersOfJob(i)'
    BY <1>1, <1>2, <1>3, <1>6, AnsweredReaderWaits DEF AnsweredFrom
<1>11. AnswersToReader(i)'
    <2>1. verdict'[n] = IF to_reader'[Len(to_reader) + 1].overwrite THEN "overwrite" ELSE "skip"
        BY <1>2, Zenon DEF IsDecided
    <2>. QED BY <1>1, <1>7, <2>1 DEF Pushes, AnswersToReader, IsToken, IsR, InR, R
<1>. QED BY <1>1, <1>3, <1>5, <1>6, <1>7, <1>9, <1>10, <1>11 DEF AnsweredFrom, AnswersOfUser

(* After an answer the history and the messages agree again. *)
LEMMA DecidesAnswers ==
    ASSUME TypeInv, IdInv, KindInv, OrderInv, TokenWaits, OneToken, AnsweredInv,
           NEW i \in Nat, NEW n \in Nat, Decides(i, n)
    PROVE  Owner(i) /\ n \in Files /\ Waits(i, n) /\ ~Answered(n) /\ AnsweredFrom(i)'
BY KnowsAnswers, UserAnswers, ClientAnswers, AskedAnswers, ManagerAnswers, Zenon DEF Decides

(* Nothing else changes what the user has said. *)
LEMMA HistoryKept ==
    ASSUME NEW i \in Nat, NEW n \in Nat, NEW kind, Step(i, n, kind), ~Renews(i, n), ~Decides(i, n)
    PROVE  UNCHANGED <<upload, verdict, kept, tainted>>
<1>1. CASE SendsDigest(i)
    BY <1>1 DEF SendsDigest, Timer, readerFrame
<1>2. CASE SendsBlock(i)
    BY <1>2 DEF SendsBlock, Timer, readerFrame
<1>3. CASE SendsEnd(i)
    BY <1>3 DEF SendsEnd, Timer, readerFrame
<1>4. CASE SendsReadError(i)
    BY <1>4 DEF SendsReadError, Timer, readerFrame
<1>5. CASE SendsDigestError(i)
    BY <1>5 DEF SendsDigestError, Timer, readerFrame
<1>6. CASE SendsLast(i, kind)
    BY <1>6 DEF SendsLast, readerFrame
<1>7. CASE GetsSend(i, n)
    BY <1>7 DEF GetsSend, readerFrame
<1>8. CASE GetsSendInVain(i, n)
    BY <1>8 DEF GetsSendInVain, readerFrame
<1>9. CASE GetsCancel(i, n)
    BY <1>9 DEF GetsCancel, readerFrame
<1>10. CASE GetsConfirm(i, n)
    BY <1>10 DEF GetsConfirm, readerFrame
<1>11. CASE GetsOther(kind, i, n)
    BY <1>11 DEF GetsOther, readerFrame
<1>12. CASE GetsDigestAsks(i, n)
    BY <1>12 DEF GetsDigestAsks
<1>13. ASSUME NEW b \in BOOLEAN, GetsDigestKnows(i, n, b) PROVE UNCHANGED <<upload, verdict, kept, tainted>>
    BY <1>13, Zenon DEF Decides
<1>14. CASE TakesOther(kind, i, n)
    BY <1>14 DEF TakesOther
<1>15. CASE TakesReceive(i, n)
    BY <1>15 DEF Renews
<1>16. CASE TakesCancel(i, n)
    BY <1>16 DEF TakesCancel
<1>17. CASE TakesDone(i, n)
    BY <1>17 DEF TakesDone
<1>18. CASE TakesError(i, n)
    BY <1>18 DEF TakesError
<1>19. CASE TakesDir(i, n)
    BY <1>19 DEF TakesDir
<1>20. CASE TakesDigestAsks(i, n)
    BY <1>20 DEF TakesDigestAsks
<1>21. ASSUME NEW b \in BOOLEAN, TakesDigestKnows(i, n, b) PROVE UNCHANGED <<upload, verdict, kept, tainted>>
    BY <1>21, Zenon DEF Decides
<1>22. CASE TakesDigestReturns(i, n)
    BY <1>22 DEF TakesDigestReturns
<1>23. CASE TakesDigestWants(i, n)
    BY <1>23, Zenon DEF Decides
<1>24. CASE TakesDigestInVain(i, n)
    BY <1>24 DEF TakesDigestInVain
<1>25. CASE TakesBlock(i, n)
    BY <1>25 DEF TakesBlock
<1>26. CASE TakesBlockInVain(i, n)
    BY <1>26 DEF TakesBlockInVain
<1>27. CASE StartsUpload(i, n)
    BY <1>27 DEF StartsUpload
<1>28. CASE StartsDownload(i, n)
    BY <1>28 DEF Renews
<1>29. CASE AddsUpload(i, n)
    BY <1>29 DEF AddsUpload
<1>30. CASE AddsDownload(i, n)
    BY <1>30 DEF Renews
<1>31. CASE ResumesUpload(i, n)
    BY <1>31 DEF ResumesUpload
<1>32. CASE ResumesDownload(i, n)
    BY <1>32 DEF ResumesDownload
<1>33. CASE CancelsUpload(i)
    BY <1>33 DEF CancelsUpload
<1>34. CASE CancelsDownload(i)
    BY <1>34 DEF CancelsDownload
<1>35. ASSUME NEW b \in BOOLEAN, AnswersUpload(i, n, b) PROVE UNCHANGED <<upload, verdict, kept, tainted>>
    BY <1>35, Zenon DEF Decides
<1>36. ASSUME NEW b \in BOOLEAN, AnswersDownload(i, n, b) PROVE UNCHANGED <<upload, verdict, kept, tainted>>
    BY <1>36, Zenon DEF Decides
<1>37. CASE AnswersNobody(i, n)
    BY <1>37 DEF AnswersNobody
<1>38. CASE Reconnects
    BY <1>38 DEF Reconnects
<1>39. CASE Stutters
    BY <1>39 DEF Stutters
<1>. QED BY <1>1, <1>2, <1>3, <1>4, <1>5, <1>6, <1>7, <1>8, <1>9, <1>10, <1>11, <1>12, <1>13,
   <1>14, <1>15, <1>16, <1>17, <1>18, <1>19, <1>20, <1>21, <1>22, <1>23, <1>24, <1>25, <1>26,
   <1>27, <1>28, <1>29, <1>30, <1>31, <1>32, <1>33, <1>34, <1>35, <1>36, <1>37, <1>38, <1>39,
   Zenon DEF Step

(* What is under way to the writer agrees with what was answered. *)
LEMMA ToWriterStep ==
    ASSUME ReaderInv, NEW i \in Nat, NEW n \in Nat, NEW kind, Step(i, n, kind), ~Renews(i, n),
           ~Decides(i, n), NEW k, AnsweredFrom(k)
    PROVE  AnswersToWriter(k)'
<1>0. UNCHANGED <<upload, verdict, kept, tainted>>
    BY HistoryKept
<1>1. CASE SendsDigest(i)
  <2>1. /\ i \in DOMAIN read_jobs /\ read_jobs[i].file_num \in Files
        /\ read_jobs[i].file = None \/ ~(read_jobs[i].file_confirmed \/ read_jobs[i].file_is_waiting)
        /\ Pushes(to_writer, to_writer', "digest", i, read_jobs[i].file_num)
    BY <1>1, Zenon DEF SendsDigest, Timer
  <2>2. i = k => ~Answered(read_jobs[i].file_num)
    BY <2>1 DEF AnsweredFrom, AnswersOfJob, ReaderInv
  <2>. QED BY <2>1, <2>2, <1>0 DEF Pushes, AnsweredFrom, AnswersToWriter, Answered, IsW, InW, W
<1>2. CASE SendsBlock(i)
  <2>1. /\ i \in DOMAIN read_jobs /\ read_jobs[i].file_confirmed
        /\ Pushes(to_writer, to_writer', "block", i, read_jobs[i].file_num)
    BY <1>2, Zenon DEF SendsBlock, Timer
  <2>2. i = k => verdict[read_jobs[i].file_num] = "overwrite"
    BY <2>1 DEF AnsweredFrom, AnswersOfJob
  <2>. QED BY <2>1, <2>2, <1>0 DEF Pushes, AnsweredFrom, AnswersToWriter, Answered, IsW, InW, W
<1>3. CASE SendsEnd(i)
  <2>1. /\ i \in DOMAIN read_jobs /\ read_jobs[i].file_confirmed
        /\ Pushes(to_writer, to_writer', "block", i, read_jobs[i].file_num)
    BY <1>3, Zenon DEF SendsEnd, Timer
  <2>2. i = k => verdict[read_jobs[i].file_num] = "overwrite"
    BY <2>1 DEF AnsweredFrom, AnswersOfJob
  <2>. QED BY <2>1, <2>2, <1>0 DEF Pushes, AnsweredFrom, AnswersToWriter, Answered, IsW, InW, W
<1>4. CASE SendsReadError(i)
    BY <1>4, <1>0 DEF SendsReadError, Timer, Pushes, readerFrame, AnsweredFrom, AnswersToWriter,
       Answered, IsW, InW, W
<1>5. CASE SendsDigestError(i)
    BY <1>5, <1>0 DEF SendsDigestError, Timer, Pushes, readerFrame, AnsweredFrom, AnswersToWriter,
       Answered, IsW, InW, W
<1>6. CASE SendsLast(i, kind)
    BY <1>6, <1>0 DEF SendsLast, Pushes, readerFrame, AnsweredFrom, AnswersToWriter, Answered,
       IsW, InW, W
<1>7. CASE GetsSend(i, n)
    BY <1>7, <1>0 DEF GetsSend, Pushes, readerFrame, AnsweredFrom, AnswersToWriter, Answered, IsW,
       InW, W
<1>8. CASE GetsSendInVain(i, n)
    BY <1>8, <1>0 DEF GetsSendInVain, Pushes, readerFrame, AnsweredFrom, AnswersToWriter,
       Answered, IsW, InW, W
<1>9. CASE GetsCancel(i, n)
    BY <1>9, <1>0 DEF GetsCancel, readerFrame, AnsweredFrom, AnswersToWriter, Answered, IsW, InW,
       W
<1>10. CASE GetsConfirm(i, n)
  <2>1. /\ Gets("confirm", i, n) /\ i \in DOMAIN read_jobs
        /\ Updates(read_jobs, read_jobs', i)
        /\ read_jobs'[i].is_last_job = read_jobs[i].is_last_job
        /\ UNCHANGED readerFrame /\ UNCHANGED to_writer
    BY <1>10, Zenon DEF GetsConfirm, IsAnswered
  <2>. QED BY <2>1, <1>0 DEF readerFrame, AnsweredFrom, AnswersToWriter, Answered, IsW, InW, W
<1>11. CASE GetsOther(kind, i, n)
    BY <1>11, <1>0 DEF GetsOther, readerFrame, AnsweredFrom, AnswersToWriter, Answered, IsW, InW,
       W
<1>12. CASE GetsDigestAsks(i, n)
    BY <1>12, <1>0 DEF GetsDigestAsks, AnsweredFrom, AnswersToWriter, Answered, IsW, InW, W
<1>13. ASSUME NEW b \in BOOLEAN, GetsDigestKnows(i, n, b) PROVE AnswersToWriter(k)'
    BY <1>13, Zenon DEF Decides
<1>14. CASE TakesOther(kind, i, n)
    BY <1>14, <1>0 DEF TakesOther, Takes, Pops, AnsweredFrom, AnswersToWriter, Answered, IsW, InW,
       W
<1>15. CASE TakesReceive(i, n)
    BY <1>15 DEF Renews
<1>16. CASE TakesCancel(i, n)
    BY <1>16, <1>0 DEF TakesCancel, Takes, Pops, AnsweredFrom, AnswersToWriter, Answered, IsW,
       InW, W
<1>17. CASE TakesDone(i, n)
    BY <1>17, <1>0 DEF TakesDone, Takes, Pops, AnsweredFrom, AnswersToWriter, Answered, IsW, InW,
       W
<1>18. CASE TakesError(i, n)
    BY <1>18, <1>0 DEF TakesError, Takes, Pops, AnsweredFrom, AnswersToWriter, Answered, IsW, InW,
       W
<1>19. CASE TakesDir(i, n)
    BY <1>19, <1>0 DEF TakesDir, Takes, Pops, AnsweredFrom, AnswersToWriter, Answered, IsW, InW, W
<1>20. CASE TakesDigestAsks(i, n)
    BY <1>20, <1>0 DEF TakesDigestAsks, Takes, Pops, AnsweredFrom, AnswersToWriter, Answered, IsW,
       InW, W
<1>21. ASSUME NEW b \in BOOLEAN, TakesDigestKnows(i, n, b) PROVE AnswersToWriter(k)'
    BY <1>21, Zenon DEF Decides
<1>22. CASE TakesDigestReturns(i, n)
    BY <1>22, <1>0 DEF TakesDigestReturns, Takes, Pops, AnsweredFrom, AnswersToWriter, Answered,
       IsW, InW, W
<1>23. CASE TakesDigestWants(i, n)
    BY <1>23, Zenon DEF Decides
<1>24. CASE TakesDigestInVain(i, n)
    BY <1>24, <1>0 DEF TakesDigestInVain, Takes, Pops, AnsweredFrom, AnswersToWriter, Answered,
       IsW, InW, W
<1>25. CASE TakesBlock(i, n)
  <2>1. /\ Takes("block", i, n) /\ i \in DOMAIN write_jobs
        /\ Updates(write_jobs, write_jobs', i)
        /\ write_jobs'[i].is_last_job = write_jobs[i].is_last_job
        /\ UNCHANGED <<upload, read_jobs, to_reader, asked, saved, jobs, verdict, kept, done, tainted,
                       broken>>
    BY <1>25, Zenon DEF TakesBlock, IsWriting
  <2>. QED BY <2>1, <1>0 DEF Takes, Pops, AnsweredFrom, AnswersToWriter, Answered, IsW, InW, W
<1>26. CASE TakesBlockInVain(i, n)
    BY <1>26, <1>0 DEF TakesBlockInVain, Takes, Pops, AnsweredFrom, AnswersToWriter, Answered,
       IsW, InW, W
<1>27. CASE StartsUpload(i, n)
    BY <1>27, <1>0 DEF StartsUpload, Pushes, AnsweredFrom, AnswersToWriter, Answered, IsW, InW, W
<1>28. CASE StartsDownload(i, n)
    BY <1>28 DEF Renews
<1>29. CASE AddsUpload(i, n)
    BY <1>29, <1>0 DEF AddsUpload, AnsweredFrom, AnswersToWriter, Answered, IsW, InW, W
<1>30. CASE AddsDownload(i, n)
    BY <1>30 DEF Renews
<1>31. CASE ResumesUpload(i, n)
    BY <1>31, <1>0 DEF ResumesUpload, Pushes, AnsweredFrom, AnswersToWriter, Answered, IsW, InW, W
<1>32. CASE ResumesDownload(i, n)
    BY <1>32, <1>0 DEF ResumesDownload, AnsweredFrom, AnswersToWriter, Answered, IsW, InW, W
<1>33. CASE CancelsUpload(i)
    BY <1>33, <1>0 DEF CancelsUpload, Pushes, AnsweredFrom, AnswersToWriter, Answered, IsW, InW, W
<1>34. CASE CancelsDownload(i)
    BY <1>34, <1>0 DEF CancelsDownload, AnsweredFrom, AnswersToWriter, Answered, IsW, InW, W
<1>35. ASSUME NEW b \in BOOLEAN, AnswersUpload(i, n, b) PROVE AnswersToWriter(k)'
    BY <1>35, Zenon DEF Decides
<1>36. ASSUME NEW b \in BOOLEAN, AnswersDownload(i, n, b) PROVE AnswersToWriter(k)'
    BY <1>36, Zenon DEF Decides
<1>37. CASE AnswersNobody(i, n)
    BY <1>37, <1>0 DEF AnswersNobody, AnsweredFrom, AnswersToWriter, Answered, IsW, InW, W
<1>38. CASE Reconnects
    BY <1>38, <1>0 DEF Reconnects, AnsweredFrom, AnswersToWriter, Answered, IsW, InW, W
<1>39. CASE Stutters
    BY <1>39, <1>0 DEF Stutters, AnsweredFrom, AnswersToWriter, Answered, IsW, InW, W
<1>. QED BY <1>1, <1>2, <1>3, <1>4, <1>5, <1>6, <1>7, <1>8, <1>9, <1>10, <1>11, <1>12, <1>13,
   <1>14, <1>15, <1>16, <1>17, <1>18, <1>19, <1>20, <1>21, <1>22, <1>23, <1>24, <1>25, <1>26,
   <1>27, <1>28, <1>29, <1>30, <1>31, <1>32, <1>33, <1>34, <1>35, <1>36, <1>37, <1>38, <1>39,
   Zenon DEF Step

(* See ToWriterStep. *)
LEMMA ToReaderStep ==
    ASSUME NEW i \in Nat, NEW n \in Nat, NEW kind, Step(i, n, kind), ~Renews(i, n), ~Decides(i,
           n), NEW k, AnsweredFrom(k)
    PROVE  AnswersToReader(k)'
<1>0. UNCHANGED <<upload, verdict, kept, tainted>>
    BY HistoryKept
<1>1. CASE SendsDigest(i)
    BY <1>1, <1>0 DEF SendsDigest, Timer, readerFrame, AnsweredFrom, AnswersToReader, Answered,
       IsR, InR, R
<1>2. CASE SendsBlock(i)
    BY <1>2, <1>0 DEF SendsBlock, Timer, readerFrame, AnsweredFrom, AnswersToReader, Answered,
       IsR, InR, R
<1>3. CASE SendsEnd(i)
    BY <1>3, <1>0 DEF SendsEnd, Timer, readerFrame, AnsweredFrom, AnswersToReader, Answered, IsR,
       InR, R
<1>4. CASE SendsReadError(i)
    BY <1>4, <1>0 DEF SendsReadError, Timer, readerFrame, AnsweredFrom, AnswersToReader, Answered,
       IsR, InR, R
<1>5. CASE SendsDigestError(i)
    BY <1>5, <1>0 DEF SendsDigestError, Timer, readerFrame, AnsweredFrom, AnswersToReader,
       Answered, IsR, InR, R
<1>6. CASE SendsLast(i, kind)
    BY <1>6, <1>0 DEF SendsLast, readerFrame, AnsweredFrom, AnswersToReader, Answered, IsR, InR, R
<1>7. CASE GetsSend(i, n)
    BY <1>7, <1>0 DEF GetsSend, Gets, Pops, readerFrame, AnsweredFrom, AnswersToReader, Answered,
       IsR, InR, R
<1>8. CASE GetsSendInVain(i, n)
    BY <1>8, <1>0 DEF GetsSendInVain, Gets, Pops, readerFrame, AnsweredFrom, AnswersToReader,
       Answered, IsR, InR, R
<1>9. CASE GetsCancel(i, n)
    BY <1>9, <1>0 DEF GetsCancel, Gets, Pops, readerFrame, AnsweredFrom, AnswersToReader,
       Answered, IsR, InR, R
<1>10. CASE GetsConfirm(i, n)
  <2>1. /\ Gets("confirm", i, n) /\ i \in DOMAIN read_jobs
        /\ Updates(read_jobs, read_jobs', i)
        /\ read_jobs'[i].is_last_job = read_jobs[i].is_last_job
        /\ UNCHANGED readerFrame /\ UNCHANGED to_writer
    BY <1>10, Zenon DEF GetsConfirm, IsAnswered
  <2>. QED BY <2>1, <1>0 DEF Gets, Pops, readerFrame, AnsweredFrom, AnswersToReader, Answered,
     IsR, InR, R
<1>11. CASE GetsOther(kind, i, n)
    BY <1>11, <1>0 DEF GetsOther, Gets, Pops, readerFrame, AnsweredFrom, AnswersToReader,
       Answered, IsR, InR, R
<1>12. CASE GetsDigestAsks(i, n)
    BY <1>12, <1>0 DEF GetsDigestAsks, Gets, Pops, AnsweredFrom, AnswersToReader, Answered, IsR,
       InR, R
<1>13. ASSUME NEW b \in BOOLEAN, GetsDigestKnows(i, n, b) PROVE AnswersToReader(k)'
    BY <1>13, Zenon DEF Decides
<1>14. CASE TakesOther(kind, i, n)
    BY <1>14, <1>0 DEF TakesOther, AnsweredFrom, AnswersToReader, Answered, IsR, InR, R
<1>15. CASE TakesReceive(i, n)
    BY <1>15 DEF Renews
<1>16. CASE TakesCancel(i, n)
    BY <1>16, <1>0 DEF TakesCancel, AnsweredFrom, AnswersToReader, Answered, IsR, InR, R
<1>17. CASE TakesDone(i, n)
    BY <1>17, <1>0 DEF TakesDone, Told, Pushes, AnsweredFrom, AnswersToReader, Answered, IsR, InR,
       R
<1>18. CASE TakesError(i, n)
    BY <1>18, <1>0 DEF TakesError, Told, Pushes, AnsweredFrom, AnswersToReader, Answered, IsR,
       InR, R
<1>19. CASE TakesDir(i, n)
    BY <1>19, <1>0 DEF TakesDir, AnsweredFrom, AnswersToReader, Answered, IsR, InR, R
<1>20. CASE TakesDigestAsks(i, n)
    BY <1>20, <1>0 DEF TakesDigestAsks, AnsweredFrom, AnswersToReader, Answered, IsR, InR, R
<1>21. ASSUME NEW b \in BOOLEAN, TakesDigestKnows(i, n, b) PROVE AnswersToReader(k)'
    BY <1>21, Zenon DEF Decides
<1>22. CASE TakesDigestReturns(i, n)
  <2>1. Takes("digest", i, n) /\ Pushes(to_reader, to_reader', "digest", i, n)
    BY <1>22, Zenon DEF TakesDigestReturns
  <2>2. i = k => ~Answered(n)
    BY <2>1 DEF Takes, Pops, AnsweredFrom, AnswersToWriter, IsW, InW, W
  <2>. QED BY <2>1, <2>2, <1>0 DEF Pushes, AnsweredFrom, AnswersToReader, Answered, IsR, InR, R
<1>23. CASE TakesDigestWants(i, n)
    BY <1>23, Zenon DEF Decides
<1>24. CASE TakesDigestInVain(i, n)
    BY <1>24, <1>0 DEF TakesDigestInVain, Told, Pushes, AnsweredFrom, AnswersToReader, Answered,
       IsR, InR, R
<1>25. CASE TakesBlock(i, n)
  <2>1. /\ Takes("block", i, n) /\ i \in DOMAIN write_jobs
        /\ Updates(write_jobs, write_jobs', i)
        /\ write_jobs'[i].is_last_job = write_jobs[i].is_last_job
        /\ UNCHANGED <<upload, read_jobs, to_reader, asked, saved, jobs, verdict, kept, done, tainted,
                       broken>>
    BY <1>25, Zenon DEF TakesBlock, IsWriting
  <2>. QED BY <2>1, <1>0 DEF AnsweredFrom, AnswersToReader, Answered, IsR, InR, R
<1>26. CASE TakesBlockInVain(i, n)
    BY <1>26, <1>0 DEF TakesBlockInVain, Told, Pushes, AnsweredFrom, AnswersToReader, Answered,
       IsR, InR, R
<1>27. CASE StartsUpload(i, n)
    BY <1>27, <1>0 DEF StartsUpload, AnsweredFrom, AnswersToReader, Answered, IsR, InR, R
<1>28. CASE StartsDownload(i, n)
    BY <1>28 DEF Renews
<1>29. CASE AddsUpload(i, n)
    BY <1>29, <1>0 DEF AddsUpload, AnsweredFrom, AnswersToReader, Answered, IsR, InR, R
<1>30. CASE AddsDownload(i, n)
    BY <1>30 DEF Renews
<1>31. CASE ResumesUpload(i, n)
    BY <1>31, <1>0 DEF ResumesUpload, AnsweredFrom, AnswersToReader, Answered, IsR, InR, R
<1>32. CASE ResumesDownload(i, n)
    BY <1>32, <1>0 DEF ResumesDownload, Pushes, AnsweredFrom, AnswersToReader, Answered, IsR, InR,
       R
<1>33. CASE CancelsUpload(i)
    BY <1>33, <1>0 DEF CancelsUpload, AnsweredFrom, AnswersToReader, Answered, IsR, InR, R
<1>34. CASE CancelsDownload(i)
    BY <1>34, <1>0 DEF CancelsDownload, Pushes, AnsweredFrom, AnswersToReader, Answered, IsR, InR,
       R
<1>35. ASSUME NEW b \in BOOLEAN, AnswersUpload(i, n, b) PROVE AnswersToReader(k)'
    BY <1>35, Zenon DEF Decides
<1>36. ASSUME NEW b \in BOOLEAN, AnswersDownload(i, n, b) PROVE AnswersToReader(k)'
    BY <1>36, Zenon DEF Decides
<1>37. CASE AnswersNobody(i, n)
    BY <1>37, <1>0 DEF AnswersNobody, AnsweredFrom, AnswersToReader, Answered, IsR, InR, R
<1>38. CASE Reconnects
    BY <1>38, <1>0 DEF Reconnects, AnsweredFrom, AnswersToReader, Answered, IsR, InR, R
<1>39. CASE Stutters
    BY <1>39, <1>0 DEF Stutters, AnsweredFrom, AnswersToReader, Answered, IsR, InR, R
<1>. QED BY <1>1, <1>2, <1>3, <1>4, <1>5, <1>6, <1>7, <1>8, <1>9, <1>10, <1>11, <1>12, <1>13,
   <1>14, <1>15, <1>16, <1>17, <1>18, <1>19, <1>20, <1>21, <1>22, <1>23, <1>24, <1>25, <1>26,
   <1>27, <1>28, <1>29, <1>30, <1>31, <1>32, <1>33, <1>34, <1>35, <1>36, <1>37, <1>38, <1>39,
   Zenon DEF Step

(* See ToWriterStep. *)
LEMMA OfUserStep ==
    ASSUME NEW i \in Nat, NEW n \in Nat, NEW kind, Step(i, n, kind), ~Renews(i, n), ~Decides(i,
           n), NEW k, AnsweredFrom(k)
    PROVE  AnswersOfUser(k)'
<1>0. UNCHANGED <<upload, verdict, kept, tainted>>
    BY HistoryKept
<1>1. CASE SendsDigest(i)
    BY <1>1, <1>0 DEF SendsDigest, Timer, readerFrame, AnsweredFrom, AnswersOfUser, Answered
<1>2. CASE SendsBlock(i)
    BY <1>2, <1>0 DEF SendsBlock, Timer, readerFrame, AnsweredFrom, AnswersOfUser, Answered
<1>3. CASE SendsEnd(i)
    BY <1>3, <1>0 DEF SendsEnd, Timer, readerFrame, AnsweredFrom, AnswersOfUser, Answered
<1>4. CASE SendsReadError(i)
    BY <1>4, <1>0 DEF SendsReadError, Timer, readerFrame, AnsweredFrom, AnswersOfUser, Answered
<1>5. CASE SendsDigestError(i)
    BY <1>5, <1>0 DEF SendsDigestError, Timer, readerFrame, AnsweredFrom, AnswersOfUser, Answered
<1>6. CASE SendsLast(i, kind)
    BY <1>6, <1>0 DEF SendsLast, readerFrame, AnsweredFrom, AnswersOfUser, Answered
<1>7. CASE GetsSend(i, n)
    BY <1>7, <1>0 DEF GetsSend, readerFrame, AnsweredFrom, AnswersOfUser, Answered
<1>8. CASE GetsSendInVain(i, n)
    BY <1>8, <1>0 DEF GetsSendInVain, readerFrame, AnsweredFrom, AnswersOfUser, Answered
<1>9. CASE GetsCancel(i, n)
    BY <1>9, <1>0 DEF GetsCancel, readerFrame, AnsweredFrom, AnswersOfUser, Answered
<1>10. CASE GetsConfirm(i, n)
    BY <1>10, <1>0 DEF GetsConfirm, readerFrame, AnsweredFrom, AnswersOfUser, Answered
<1>11. CASE GetsOther(kind, i, n)
    BY <1>11, <1>0 DEF GetsOther, readerFrame, AnsweredFrom, AnswersOfUser, Answered
<1>12. CASE GetsDigestAsks(i, n)
    BY <1>12, <1>0 DEF GetsDigestAsks, Gets, Pops, AnsweredFrom, AnswersOfUser, Answered,
       AnswersToReader, IsR, InR, R
<1>13. ASSUME NEW b \in BOOLEAN, GetsDigestKnows(i, n, b) PROVE AnswersOfUser(k)'
    BY <1>13, Zenon DEF Decides
<1>14. CASE TakesOther(kind, i, n)
    BY <1>14, <1>0 DEF TakesOther, AnsweredFrom, AnswersOfUser, Answered
<1>15. CASE TakesReceive(i, n)
    BY <1>15 DEF Renews
<1>16. CASE TakesCancel(i, n)
    BY <1>16, <1>0 DEF TakesCancel, AnsweredFrom, AnswersOfUser, Answered
<1>17. CASE TakesDone(i, n)
    BY <1>17, <1>0 DEF TakesDone, AnsweredFrom, AnswersOfUser, Answered
<1>18. CASE TakesError(i, n)
    BY <1>18, <1>0 DEF TakesError, AnsweredFrom, AnswersOfUser, Answered
<1>19. CASE TakesDir(i, n)
    BY <1>19, <1>0 DEF TakesDir, AnsweredFrom, AnswersOfUser, Answered
<1>20. CASE TakesDigestAsks(i, n)
    BY <1>20, <1>0 DEF TakesDigestAsks, Takes, Pops, AnsweredFrom, AnswersOfUser, Answered,
       AnswersToWriter, IsW, InW, W
<1>21. ASSUME NEW b \in BOOLEAN, TakesDigestKnows(i, n, b) PROVE AnswersOfUser(k)'
    BY <1>21, Zenon DEF Decides
<1>22. CASE TakesDigestReturns(i, n)
    BY <1>22, <1>0 DEF TakesDigestReturns, AnsweredFrom, AnswersOfUser, Answered
<1>23. CASE TakesDigestWants(i, n)
    BY <1>23, Zenon DEF Decides
<1>24. CASE TakesDigestInVain(i, n)
    BY <1>24, <1>0 DEF TakesDigestInVain, AnsweredFrom, AnswersOfUser, Answered
<1>25. CASE TakesBlock(i, n)
  <2>1. /\ Takes("block", i, n) /\ i \in DOMAIN write_jobs
        /\ Updates(write_jobs, write_jobs', i)
        /\ write_jobs'[i].is_last_job = write_jobs[i].is_last_job
        /\ UNCHANGED <<upload, read_jobs, to_reader, asked, saved, jobs, verdict, kept, done, tainted,
                       broken>>
    BY <1>25, Zenon DEF TakesBlock, IsWriting
  <2>. QED BY <2>1, <1>0 DEF AnsweredFrom, AnswersOfUser, Answered
<1>26. CASE TakesBlockInVain(i, n)
    BY <1>26, <1>0 DEF TakesBlockInVain, AnsweredFrom, AnswersOfUser, Answered
<1>27. CASE StartsUpload(i, n)
    BY <1>27, <1>0 DEF StartsUpload, AnsweredFrom, AnswersOfUser, Answered
<1>28. CASE StartsDownload(i, n)
    BY <1>28 DEF Renews
<1>29. CASE AddsUpload(i, n)
    BY <1>29, <1>0 DEF AddsUpload, AnsweredFrom, AnswersOfUser, Answered
<1>30. CASE AddsDownload(i, n)
    BY <1>30 DEF Renews
<1>31. CASE ResumesUpload(i, n)
    BY <1>31, <1>0 DEF ResumesUpload, AnsweredFrom, AnswersOfUser, Answered
<1>32. CASE ResumesDownload(i, n)
    BY <1>32, <1>0 DEF ResumesDownload, AnsweredFrom, AnswersOfUser, Answered
<1>33. CASE CancelsUpload(i)
    BY <1>33, <1>0 DEF CancelsUpload, AnsweredFrom, AnswersOfUser, Answered
<1>34. CASE CancelsDownload(i)
    BY <1>34, <1>0 DEF CancelsDownload, AnsweredFrom, AnswersOfUser, Answered
<1>35. ASSUME NEW b \in BOOLEAN, AnswersUpload(i, n, b) PROVE AnswersOfUser(k)'
    BY <1>35, Zenon DEF Decides
<1>36. ASSUME NEW b \in BOOLEAN, AnswersDownload(i, n, b) PROVE AnswersOfUser(k)'
    BY <1>36, Zenon DEF Decides
<1>37. CASE AnswersNobody(i, n)
    BY <1>37, <1>0 DEF AnswersNobody, AnsweredFrom, AnswersOfUser, Answered
<1>38. CASE Reconnects
    BY <1>38, <1>0 DEF Reconnects, AnsweredFrom, AnswersOfUser, Answered
<1>39. CASE Stutters
    BY <1>39, <1>0 DEF Stutters, AnsweredFrom, AnswersOfUser, Answered
<1>. QED BY <1>1, <1>2, <1>3, <1>4, <1>5, <1>6, <1>7, <1>8, <1>9, <1>10, <1>11, <1>12, <1>13,
   <1>14, <1>15, <1>16, <1>17, <1>18, <1>19, <1>20, <1>21, <1>22, <1>23, <1>24, <1>25, <1>26,
   <1>27, <1>28, <1>29, <1>30, <1>31, <1>32, <1>33, <1>34, <1>35, <1>36, <1>37, <1>38, <1>39,
   Zenon DEF Step

(* See ToWriterStep. *)
LEMMA OfJobStep ==
    ASSUME TypeInv, KindInv, TokenWaits, ReaderInv, NEW i \in Nat, NEW n \in Nat, NEW kind,
           Step(i, n, kind), ~Renews(i, n), ~Decides(i, n), NEW k \in Ids, AnsweredFrom(k)
    PROVE  AnswersOfJob(k)'
<1>0. UNCHANGED <<upload, verdict, kept, tainted>>
    BY HistoryKept
<1>a. jobs \in Nat
    BY DEF TypeInv
<1>1. CASE SendsDigest(i)
    BY <1>1, <1>0 DEF SendsDigest, Timer, Updates, readerFrame, AnsweredFrom, AnswersOfJob,
       Answered, ReaderInv
<1>2. CASE SendsBlock(i)
    BY <1>2, <1>0 DEF SendsBlock, Timer, Updates, readerFrame, AnsweredFrom, AnswersOfJob,
       Answered
<1>3. CASE SendsEnd(i)
  <2>1. /\ i \in DOMAIN read_jobs /\ Updates(read_jobs, read_jobs', i)
        /\ read_jobs'[i].file_num = read_jobs[i].file_num + 1 /\ ~read_jobs'[i].file_confirmed
    BY <1>3, Zenon DEF SendsEnd, Timer
  <2>2. read_jobs[i].file_num \in Nat /\ \A f \in Files : f \in Nat
    BY <2>1 DEF TypeInv, IsTable, ReadJobs, JobsWith, Files
  <2>3. i = k => \A f \in Files : Answered(f) => f <= read_jobs[i].file_num
    BY <2>1 DEF AnsweredFrom, AnswersOfJob
  <2>. QED BY <2>1, <2>2, <2>3, <1>0 DEF Updates, AnsweredFrom, AnswersOfJob, Answered
<1>4. CASE SendsReadError(i)
  <2>1. /\ i \in DOMAIN read_jobs /\ Updates(read_jobs, read_jobs', i)
        /\ read_jobs'[i].file_num = read_jobs[i].file_num + 1 /\ ~read_jobs'[i].file_confirmed
    BY <1>4, Zenon DEF SendsReadError, Timer
  <2>2. read_jobs[i].file_num \in Nat /\ \A f \in Files : f \in Nat
    BY <2>1 DEF TypeInv, IsTable, ReadJobs, JobsWith, Files
  <2>3. i = k => \A f \in Files : Answered(f) => f <= read_jobs[i].file_num
    BY <2>1 DEF AnsweredFrom, AnswersOfJob
  <2>. QED BY <2>1, <2>2, <2>3, <1>0 DEF Updates, AnsweredFrom, AnswersOfJob, Answered
<1>5. CASE SendsDigestError(i)
    BY <1>5, <1>0 DEF SendsDigestError, Timer, Updates, readerFrame, AnsweredFrom, AnswersOfJob,
       Answered, ReaderInv
<1>6. CASE SendsLast(i, kind)
    BY <1>6, <1>0 DEF SendsLast, Removes, readerFrame, AnsweredFrom, AnswersOfJob, Answered
<1>7. CASE GetsSend(i, n)
  <2>1. /\ Gets("send", i, n) /\ Updates(read_jobs, read_jobs', i) /\ ~read_jobs'[i].file_confirmed
    BY <1>7, Zenon DEF GetsSend, IsNew
  <2>2. ~upload
    BY <2>1 DEF Gets, Pops, KindInv, UploadKinds, InR, R
  <2>3. i = k => NoAnswers
    BY <2>1, <2>2 DEF Gets, Pops, AnsweredFrom, DownloadFresh, IsR, InR, R
  <2>. QED BY <2>1, <2>3, <1>0 DEF Updates, NoAnswers, AnsweredFrom, AnswersOfJob, Answered
<1>8. CASE GetsSendInVain(i, n)
    BY <1>8, <1>0 DEF GetsSendInVain, readerFrame, AnsweredFrom, AnswersOfJob, Answered
<1>9. CASE GetsCancel(i, n)
    BY <1>9, <1>0 DEF GetsCancel, Removes, readerFrame, AnsweredFrom, AnswersOfJob, Answered
<1>10. CASE GetsConfirm(i, n)
  <2>1. /\ Gets("confirm", i, n) /\ i \in DOMAIN read_jobs /\ Updates(read_jobs, read_jobs', i)
        /\ IsAnswered(read_jobs[i], read_jobs'[i], n, to_reader[1].overwrite)
    BY <1>10, Zenon DEF GetsConfirm
  <2>2. Waits(i, n)
    BY <2>1 DEF Gets, Pops, TokenWaits, IsToken, InR, R
  <2>3. /\ read_jobs'[i].file_confirmed => /\ to_reader[1].overwrite
                                            /\ read_jobs'[i].file_num = n
        /\ ~read_jobs'[i].file_confirmed => read_jobs'[i].file_num = n + 1
    BY <2>1, <2>2, Zenon DEF IsAnswered, Waits
  <2>4. i = k /\ to_reader[1].overwrite => verdict[n] = "overwrite"
    BY <2>1, Zenon DEF Gets, Pops, AnsweredFrom, AnswersToReader, IsR, InR, R
  <2>5. n \in Nat /\ \A f \in Files : f \in Nat
    BY DEF Files
  <2>6. i = k => \A f \in Files : Answered(f) => f <= n
    BY <2>1, <2>2 DEF AnsweredFrom, AnswersOfJob, Waits
  <2>. QED BY <2>1, <2>3, <2>4, <2>5, <2>6, <1>0 DEF Updates, AnsweredFrom, AnswersOfJob, Answered
<1>11. CASE GetsOther(kind, i, n)
    BY <1>11, <1>0 DEF GetsOther, readerFrame, AnsweredFrom, AnswersOfJob, Answered
<1>12. CASE GetsDigestAsks(i, n)
    BY <1>12, <1>0 DEF GetsDigestAsks, AnsweredFrom, AnswersOfJob, Answered
<1>13. ASSUME NEW b \in BOOLEAN, GetsDigestKnows(i, n, b) PROVE AnswersOfJob(k)'
    BY <1>13, Zenon DEF Decides
<1>14. CASE TakesOther(kind, i, n)
    BY <1>14, <1>0 DEF TakesOther, AnsweredFrom, AnswersOfJob, Answered
<1>15. CASE TakesReceive(i, n)
    BY <1>15 DEF Renews
<1>16. CASE TakesCancel(i, n)
    BY <1>16, <1>0 DEF TakesCancel, Removes, AnsweredFrom, AnswersOfJob, Answered
<1>17. CASE TakesDone(i, n)
    BY <1>17, <1>0 DEF TakesDone, Removes, AnsweredFrom, AnswersOfJob, Answered
<1>18. CASE TakesError(i, n)
    BY <1>18, <1>0 DEF TakesError, Removes, AnsweredFrom, AnswersOfJob, Answered
<1>19. CASE TakesDir(i, n)
    BY <1>19, <1>0 DEF TakesDir, Updates, AnsweredFrom, AnswersOfJob, Answered
<1>20. CASE TakesDigestAsks(i, n)
    BY <1>20, <1>0 DEF TakesDigestAsks, AnsweredFrom, AnswersOfJob, Answered
<1>21. ASSUME NEW b \in BOOLEAN, TakesDigestKnows(i, n, b) PROVE AnswersOfJob(k)'
    BY <1>21, Zenon DEF Decides
<1>22. CASE TakesDigestReturns(i, n)
    BY <1>22, <1>0 DEF TakesDigestReturns, AnsweredFrom, AnswersOfJob, Answered
<1>23. CASE TakesDigestWants(i, n)
    BY <1>23, Zenon DEF Decides
<1>24. CASE TakesDigestInVain(i, n)
    BY <1>24, <1>0 DEF TakesDigestInVain, AnsweredFrom, AnswersOfJob, Answered
<1>25. CASE TakesBlock(i, n)
  <2>1. /\ Takes("block", i, n) /\ i \in DOMAIN write_jobs
        /\ Updates(write_jobs, write_jobs', i)
        /\ write_jobs'[i].is_last_job = write_jobs[i].is_last_job
        /\ UNCHANGED <<upload, read_jobs, to_reader, asked, saved, jobs, verdict, kept, done, tainted,
                       broken>>
    BY <1>25, Zenon DEF TakesBlock, IsWriting
  <2>. QED BY <2>1, <1>0 DEF AnsweredFrom, AnswersOfJob, Answered
<1>26. CASE TakesBlockInVain(i, n)
    BY <1>26, <1>0 DEF TakesBlockInVain, Updates, AnsweredFrom, AnswersOfJob, Answered
<1>27. CASE StartsUpload(i, n)
    BY <1>27, <1>0, <1>a DEF StartsUpload, Updates, AnsweredFrom, AnswersOfJob, Answered, Ids
<1>28. CASE StartsDownload(i, n)
    BY <1>28 DEF Renews
<1>29. CASE AddsUpload(i, n)
    BY <1>29, <1>0, <1>a DEF AddsUpload, Updates, AnsweredFrom, AnswersOfJob, Answered, Ids
<1>30. CASE AddsDownload(i, n)
    BY <1>30 DEF Renews
<1>31. CASE ResumesUpload(i, n)
    BY <1>31, <1>0 DEF ResumesUpload, Updates, IsResumed, AnsweredFrom, AnswersOfJob, Answered
<1>32. CASE ResumesDownload(i, n)
    BY <1>32, <1>0 DEF ResumesDownload, Updates, IsResumed, AnsweredFrom, AnswersOfJob, Answered
<1>33. CASE CancelsUpload(i)
    BY <1>33, <1>0 DEF CancelsUpload, Removes, AnsweredFrom, AnswersOfJob, Answered
<1>34. CASE CancelsDownload(i)
    BY <1>34, <1>0 DEF CancelsDownload, Removes, AnsweredFrom, AnswersOfJob, Answered
<1>35. ASSUME NEW b \in BOOLEAN, AnswersUpload(i, n, b) PROVE AnswersOfJob(k)'
    BY <1>35, Zenon DEF Decides
<1>36. ASSUME NEW b \in BOOLEAN, AnswersDownload(i, n, b) PROVE AnswersOfJob(k)'
    BY <1>36, Zenon DEF Decides
<1>37. CASE AnswersNobody(i, n)
    BY <1>37, <1>0 DEF AnswersNobody, AnsweredFrom, AnswersOfJob, Answered
<1>38. CASE Reconnects
    BY <1>38, <1>0 DEF Reconnects, AnsweredFrom, AnswersOfJob, Answered
<1>39. CASE Stutters
    BY <1>39, <1>0 DEF Stutters, AnsweredFrom, AnswersOfJob, Answered
<1>. QED BY <1>1, <1>2, <1>3, <1>4, <1>5, <1>6, <1>7, <1>8, <1>9, <1>10, <1>11, <1>12, <1>13,
   <1>14, <1>15, <1>16, <1>17, <1>18, <1>19, <1>20, <1>21, <1>22, <1>23, <1>24, <1>25, <1>26,
   <1>27, <1>28, <1>29, <1>30, <1>31, <1>32, <1>33, <1>34, <1>35, <1>36, <1>37, <1>38, <1>39,
   Zenon DEF Step

(* Nothing is answered before the host has heard of the job. *)
LEMMA FreshStep ==
    ASSUME ~upload, NEW i \in Nat, NEW n \in Nat, NEW kind, DownloadStep(i, n, kind), ~Renews(i,
           n), ~Decides(i, n), NEW k \in Ids, AnsweredFrom(k), Step(i, n, kind)
    PROVE  DownloadFresh(k)' => NoAnswers'
<1>0. UNCHANGED <<upload, verdict, kept, tainted>>
    BY HistoryKept
<1>1. CASE SendsDigest(i)
    BY <1>1, <1>0 DEF SendsDigest, Timer, Updates, readerFrame, AnsweredFrom, NoAnswers, Answered,
       DownloadFresh, WaitsForUser, IsR, InR, R
<1>2. CASE SendsBlock(i)
    BY <1>2, <1>0 DEF SendsBlock, Timer, Updates, readerFrame, AnsweredFrom, NoAnswers, Answered,
       DownloadFresh, WaitsForUser, IsR, InR, R
<1>3. CASE SendsEnd(i)
    BY <1>3, <1>0 DEF SendsEnd, Timer, Updates, readerFrame, AnsweredFrom, NoAnswers, Answered,
       DownloadFresh, WaitsForUser, IsR, InR, R
<1>4. CASE SendsReadError(i)
    BY <1>4, <1>0 DEF SendsReadError, Timer, Updates, readerFrame, AnsweredFrom, NoAnswers,
       Answered, DownloadFresh, WaitsForUser, IsR, InR, R
<1>5. CASE SendsDigestError(i)
    BY <1>5, <1>0 DEF SendsDigestError, Timer, Updates, readerFrame, AnsweredFrom, NoAnswers,
       Answered, DownloadFresh, WaitsForUser, IsR, InR, R
<1>6. CASE SendsLast(i, kind)
    BY <1>6, <1>0 DEF SendsLast, Removes, readerFrame, AnsweredFrom, NoAnswers, Answered,
       DownloadFresh, WaitsForUser, IsR, InR, R
<1>7. CASE GetsSend(i, n)
    BY <1>7, <1>0 DEF GetsSend, Gets, Pops, readerFrame, AnsweredFrom, NoAnswers, Answered,
       DownloadFresh, WaitsForUser, IsR, InR, R
<1>8. CASE GetsSendInVain(i, n)
    BY <1>8, <1>0 DEF GetsSendInVain, Gets, Pops, readerFrame, AnsweredFrom, NoAnswers, Answered,
       DownloadFresh, WaitsForUser, IsR, InR, R
<1>9. CASE GetsCancel(i, n)
    BY <1>9, <1>0 DEF GetsCancel, Gets, Pops, readerFrame, AnsweredFrom, NoAnswers, Answered,
       DownloadFresh, WaitsForUser, IsR, InR, R
<1>10. CASE GetsConfirm(i, n)
  <2>1. /\ Gets("confirm", i, n) /\ i \in DOMAIN read_jobs
        /\ Updates(read_jobs, read_jobs', i)
        /\ read_jobs'[i].is_last_job = read_jobs[i].is_last_job
        /\ UNCHANGED readerFrame /\ UNCHANGED to_writer
    BY <1>10, Zenon DEF GetsConfirm, IsAnswered
  <2>. QED BY <2>1, <1>0 DEF Gets, Pops, readerFrame, AnsweredFrom, NoAnswers, Answered,
     DownloadFresh, WaitsForUser, IsR, InR, R
<1>11. CASE GetsOther(kind, i, n)
    BY <1>11, <1>0 DEF GetsOther, Gets, Pops, readerFrame, AnsweredFrom, NoAnswers, Answered,
       DownloadFresh, WaitsForUser, IsR, InR, R
<1>12. CASE TakesOther(kind, i, n)
    BY <1>12, <1>0 DEF TakesOther, AnsweredFrom, NoAnswers, Answered, DownloadFresh, WaitsForUser,
       IsR, InR, R
<1>13. CASE TakesDone(i, n)
  <2>1. to_reader' = to_reader /\ Removes(write_jobs, write_jobs', i)
    BY <1>13, Zenon DEF TakesDone, Told
  <2>. QED BY <2>1, <1>0 DEF Removes, AnsweredFrom, NoAnswers, Answered, DownloadFresh,
        WaitsForUser, IsR, InR, R
<1>14. CASE TakesError(i, n)
  <2>1. to_reader' = to_reader /\ Removes(write_jobs, write_jobs', i)
    BY <1>14, Zenon DEF TakesError, Told
  <2>. QED BY <2>1, <1>0 DEF Removes, AnsweredFrom, NoAnswers, Answered, DownloadFresh,
        WaitsForUser, IsR, InR, R
<1>15. CASE TakesDir(i, n)
    BY <1>15, <1>0 DEF TakesDir, Updates, AnsweredFrom, NoAnswers, Answered, DownloadFresh,
       WaitsForUser, IsR, InR, R
<1>16. CASE TakesDigestAsks(i, n)
    BY <1>16, <1>0 DEF TakesDigestAsks, AnsweredFrom, NoAnswers, Answered, DownloadFresh,
       WaitsForUser, IsR, InR, R
<1>17. ASSUME NEW b \in BOOLEAN, TakesDigestKnows(i, n, b) PROVE DownloadFresh(k)' => NoAnswers'
    BY <1>17, Zenon DEF Decides
<1>18. CASE TakesDigestInVain(i, n)
  <2>1. to_reader' = to_reader /\ write_jobs' = write_jobs
    BY <1>18, Zenon DEF TakesDigestInVain, Told
  <2>. QED BY <2>1, <1>0 DEF Removes, AnsweredFrom, NoAnswers, Answered, DownloadFresh,
        WaitsForUser, IsR, InR, R
<1>19. CASE TakesBlock(i, n)
  <2>1. /\ Takes("block", i, n) /\ i \in DOMAIN write_jobs
        /\ Updates(write_jobs, write_jobs', i)
        /\ write_jobs'[i].is_last_job = write_jobs[i].is_last_job
        /\ UNCHANGED <<upload, read_jobs, to_reader, asked, saved, jobs, verdict, kept, done, tainted,
                       broken>>
    BY <1>19, Zenon DEF TakesBlock, IsWriting
  <2>. QED BY <2>1, <1>0 DEF Updates, AnsweredFrom, NoAnswers, Answered, DownloadFresh,
     WaitsForUser, IsR, InR, R
<1>20. CASE TakesBlockInVain(i, n)
  <2>1. to_reader' = to_reader /\ i \in DOMAIN write_jobs /\ Updates(write_jobs, write_jobs', i)
        /\ write_jobs'[i].is_last_job = write_jobs[i].is_last_job
    BY <1>20, Zenon DEF TakesBlockInVain, Told, IsWriting
  <2>. QED BY <2>1, <1>0 DEF Updates, AnsweredFrom, NoAnswers, Answered, DownloadFresh,
        WaitsForUser, IsR, InR, R
<1>21. CASE StartsDownload(i, n)
    BY <1>21 DEF Renews
<1>22. CASE AddsDownload(i, n)
    BY <1>22 DEF Renews
<1>23. CASE ResumesDownload(i, n)
    BY <1>23, <1>0 DEF ResumesDownload, Updates, IsResumed, Pushes, AnsweredFrom, NoAnswers,
       Answered, DownloadFresh, WaitsForUser, IsR, InR, R
<1>24. CASE CancelsDownload(i)
    BY <1>24, <1>0 DEF CancelsDownload, Removes, Pushes, AnsweredFrom, NoAnswers, Answered,
       DownloadFresh, WaitsForUser, IsR, InR, R
<1>25. ASSUME NEW b \in BOOLEAN, AnswersDownload(i, n, b) PROVE DownloadFresh(k)' => NoAnswers'
    BY <1>25, Zenon DEF Decides
<1>26. CASE AnswersNobody(i, n)
    BY <1>26, <1>0 DEF AnswersNobody, AnsweredFrom, NoAnswers, Answered, DownloadFresh,
       WaitsForUser, IsR, InR, R
<1>27. CASE Reconnects
    BY <1>27, <1>0 DEF Reconnects, AnsweredFrom, NoAnswers, Answered, DownloadFresh, WaitsForUser,
       IsR, InR, R
<1>28. CASE Stutters
    BY <1>28, <1>0 DEF Stutters, AnsweredFrom, NoAnswers, Answered, DownloadFresh, WaitsForUser,
       IsR, InR, R
<1>. QED BY <1>1, <1>2, <1>3, <1>4, <1>5, <1>6, <1>7, <1>8, <1>9, <1>10, <1>11, <1>12, <1>13,
   <1>14, <1>15, <1>16, <1>17, <1>18, <1>19, <1>20, <1>21, <1>22, <1>23, <1>24, <1>25, <1>26,
   <1>27, <1>28, Zenon DEF DownloadStep

(* A new history has no answers yet. *)
LEMMA RenewedHistory ==
    ASSUME TypeInv, NEW i \in Nat, NEW n \in Nat, Renews(i, n)
    PROVE  NoAnswers'
<1>1. NewHistory(n)
    BY Zenon DEF Renews, TakesReceive, StartsDownload, AddsDownload
<1>2. \A f \in Files : verdict'[f] = IF f < n THEN "before" ELSE None
    BY <1>1, NewHistoryDoes
<1>. QED BY <1>2, FileAssumption DEF NoAnswers, Answered

(* And there is nothing of the new job that would need one. *)
LEMMA RenewedJob ==
    ASSUME TypeInv, TypeInv', IdInv, KindInv, OrderInv, NEW i \in Nat, NEW n \in Nat, Renews(i, n)
    PROVE  /\ i \in DOMAIN write_jobs'
           /\ \A p \in InW' : ~IsW(p, "block", i)'
           /\ \A p \in InR' : ~IsToken(p, i)'
           /\ i \in DOMAIN read_jobs' => ~read_jobs'[i].file_confirmed
<1>0. jobs \in Nat
    BY DEF TypeInv
<1>1. CASE TakesReceive(i, n)
    <2>1. /\ Takes("receive", i, n) /\ Updates(write_jobs, write_jobs', i)
          /\ UNCHANGED <<upload, read_jobs, to_reader>>
        BY <1>1, Zenon DEF TakesReceive
    <2>2. UploadNew(i) \/ ~upload
        BY <2>1 DEF Takes, Pops, OrderInv, UploadFreshInv, InW, W
    <2>3. upload
        BY <2>1 DEF Takes, Pops, KindInv, DownloadKinds, InW, W
    <2>. QED BY <2>1, <2>2, <2>3 DEF Takes, Pops, Updates, UploadNew, IsToken, IsW, InW, InR, W, R
<1>2. CASE StartsDownload(i, n)
    BY <1>0, <1>2 DEF StartsDownload, Updates, Pushes, IdInv, Ids, IsToken, IsW, InW, InR, W, R
<1>3. CASE AddsDownload(i, n)
    BY <1>0, <1>3 DEF AddsDownload, Updates, IdInv, Ids, IsToken, IsW, InW, InR, W, R
<1>. QED BY <1>1, <1>2, <1>3, Zenon DEF Renews

(* So what was answered agrees with the messages of the new job. *)
LEMMA RenewedAnswers ==
    ASSUME TypeInv, TypeInv', IdInv, KindInv, OrderInv, IdInv', KindInv', OrderInv',
           NEW i \in Nat, NEW n \in Nat, Renews(i, n)
    PROVE  AnsweredInv'
<1>1. NoAnswers'
    BY RenewedHistory
<1>2. /\ i \in DOMAIN write_jobs'
      /\ \A p \in InW' : ~IsW(p, "block", i)'
      /\ \A p \in InR' : ~IsToken(p, i)'
      /\ i \in DOMAIN read_jobs' => ~read_jobs'[i].file_confirmed
    BY RenewedJob
<1>3. AnswersToWriter(i)'
    BY <1>1, <1>2 DEF NoAnswers, KindInv, AnswersToWriter, IsW
<1>4. AnswersToReader(i)'
    BY <1>2 DEF AnswersToReader, IsToken, IsR
<1>5. AnswersOfUser(i)'
    BY <1>1 DEF TypeInv, NoAnswers, AnswersOfUser
<1>6. AnswersOfJob(i)'
    BY <1>1, <1>2 DEF NoAnswers, AnswersOfJob
<1>7. \A k : Owner(k)' => k = i
    BY <1>2 DEF IdInv, OrderInv, UploadSingle, UploadOwnerInv, Owner
<1>. QED BY <1>1, <1>3, <1>4, <1>5, <1>6, <1>7 DEF AnsweredInv, AnsweredFrom

(* No other job takes the place of the one the history is about. *)
LEMMA OwnerKept ==
    ASSUME TypeInv, KindInv, NEW i \in Nat, NEW n \in Nat, NEW kind, Step(i, n, kind),
           ~Renews(i, n), NEW k, Owner(k)'
    PROVE  Owner(k)
<1>1. CASE upload
    BY <1>1, UploadSteps, UploadOwnerKept
<1>2. CASE ~upload
    BY <1>2, DownloadSteps, DownloadOwnerKept
<1>. QED BY <1>1, <1>2

(* What was answered agrees with what is under way of the job. *)
LEMMA AnsweredInvStep ==
    ASSUME TypeInv, TypeInv', IdInv, KindInv, OrderInv, IdInv', KindInv', OrderInv', TokenWaits, OneToken,
           ReaderInv, AnsweredInv, NEW i \in Nat, NEW n \in Nat, NEW kind, Step(i, n, kind)
    PROVE  AnsweredInv'
<1>1. CASE Renews(i, n)
    BY <1>1, RenewedAnswers
<1>2. CASE ~Renews(i, n)
    <2>1. SUFFICES ASSUME NEW k, Owner(k)' PROVE AnsweredFrom(k)'
        BY DEF AnsweredInv
    <2>2. Owner(k)
        BY <1>2, <2>1, OwnerKept
    <2>3. k \in Ids
        BY <2>2 DEF Owner, IdInv
    <2>4. AnsweredFrom(k)
        BY <2>2, <2>3 DEF AnsweredInv
    <2>5. CASE Decides(i, n)
        BY <2>2, <2>5, DecidesAnswers, OwnerUnique
    <2>6. CASE ~Decides(i, n)
        <3>1. AnswersToWriter(k)'
            BY <1>2, <2>4, <2>6, ToWriterStep
        <3>2. AnswersToReader(k)'
            BY <1>2, <2>4, <2>6, ToReaderStep
        <3>3. AnswersOfUser(k)'
            BY <1>2, <2>4, <2>6, OfUserStep
        <3>4. AnswersOfJob(k)'
            BY <1>2, <2>3, <2>4, <2>6, OfJobStep
        <3>5. upload' = upload
            BY <1>2, <2>6, HistoryKept
        <3>6. (~upload /\ DownloadFresh(k)') => NoAnswers'
            BY <1>2, <2>3, <2>4, <2>6, FreshStep, DownloadSteps
        <3>. QED BY <3>1, <3>2, <3>3, <3>4, <3>5, <3>6 DEF AnsweredFrom
    <2>. QED BY <2>5, <2>6
<1>. QED BY <1>1, <1>2

-----------------------------------------------------------------------------
(* The writer's disk.                                                      *)

(* What an answer is about, and what it changes. *)
LEMMA DecidesDoes ==
    ASSUME NEW i \in Nat, NEW n \in Files, Decides(i, n)
    PROVE  /\ \A f \in Files : f # n => verdict'[f] = verdict[f] /\ kept'[f] = kept[f]
           /\ verdict'[n] \in {"overwrite", "skip"} /\ kept'[n] = disk[<<n, "final">>]
           /\ UNCHANGED <<upload, disk, tainted>>
<1>1. PICK b \in BOOLEAN : IsDecided(n, b)
    BY Zenon DEF Decides, GetsDigestKnows, AnswersUpload, TakesDigestKnows, AnswersDownload,
       TakesDigestWants
<1>2. UNCHANGED <<upload, disk>>
    BY Zenon DEF Decides, GetsDigestKnows, AnswersUpload, TakesDigestKnows, AnswersDownload,
       TakesDigestWants
<1>. QED BY <1>1, <1>2 DEF IsDecided

(* The writer gets blocks of files that are wanted. *)
LEMMA BlocksWanted ==
    ASSUME IdInv, KindInv, AnsweredInv, NEW i \in Nat, NEW n \in Nat, Takes("block", i, n),
           i \in DOMAIN write_jobs
    PROVE  n \in Files /\ verdict[n] = "overwrite"
<1>1. Owner(i) /\ i \in Ids
    BY DEF Owner, IdInv
<1>. QED BY <1>1 DEF AnsweredInv, AnsweredFrom, AnswersToWriter, Takes, Pops, KindInv, IsW, InW, W

(* Files this job is not to touch. *)
Keeps(f) == verdict[f] = "skip" /\ ~(upload /\ f \in tainted)

(* What a step may do to a disk that becomes d: nothing appears as         *)
(* .download but what is wanted, and no file changes that is to be kept.   *)
Spares(d) ==
    \A f \in Files :
        /\ d[<<f, "download">>] \in {Absent, disk[<<f, "download">>]} \/ verdict[f] = "overwrite"
        /\ Keeps(f) => d[<<f, "final">>] = disk[<<f, "final">>]

(* modify_time: what is renamed is wanted, or was left behind. *)
LEMMA ModifySpares ==
    ASSUME TypeInv, WriterInv, DownloadsInv, NEW i \in DOMAIN write_jobs
    PROVE  Spares(modify_time(write_jobs[i]))
<1>1. write_jobs[i] \in WriteJobs
    BY WriterHas
<1>2. \/ modify_time(write_jobs[i]) = disk
      \/ /\ write_jobs[i].files /\ write_jobs[i].file_num \in Files
         /\ disk[<<write_jobs[i].file_num, "download">>] # Absent
         /\ modify_time(write_jobs[i])[<<write_jobs[i].file_num, "download">>] = Absent
         /\ \A f \in Files : f # write_jobs[i].file_num =>
               /\ modify_time(write_jobs[i])[<<f, "final">>] = disk[<<f, "final">>]
               /\ modify_time(write_jobs[i])[<<f, "download">>] = disk[<<f, "download">>]
    BY <1>1, ModifyTimeDoes
<1>3. write_jobs[i].file_num \in Files /\ disk[<<write_jobs[i].file_num, "download">>] # Absent =>
          ~Keeps(write_jobs[i].file_num)
    BY DEF WriterInv, DownloadsInv, Keeps
<1>. QED BY <1>2, <1>3 DEF Spares

(* The next file is created as .download. *)
LEMMA CreatedSpares ==
    ASSUME TypeInv, WriterInv, DownloadsInv, NEW i \in DOMAIN write_jobs, NEW n \in Files,
           verdict[n] = "overwrite", NEW d,
           \A x \in Names : x # <<n, "download">> => d[x] = modify_time(write_jobs[i])[x]
    PROVE  Spares(d)
<1>1. Spares(modify_time(write_jobs[i]))
    BY ModifySpares
<1>2. \A f \in Files : d[<<f, "final">>] = modify_time(write_jobs[i])[<<f, "final">>]
    BY DEF Names
<1>3. \A f \in Files : f # n =>
          d[<<f, "download">>] = modify_time(write_jobs[i])[<<f, "download">>]
    BY DEF Names
<1>. QED BY <1>1, <1>2, <1>3 DEF Spares, Keeps

(* TransferJob::write. *)
LEMMA BlockSpares ==
    ASSUME TypeInv, IdInv, KindInv, AnsweredInv, WriterInv, DownloadsInv, NEW i \in Nat, NEW n \in Nat,
           TakesBlock(i, n)
    PROVE  Spares(disk')
<1>1. Takes("block", i, n) /\ i \in DOMAIN write_jobs
    BY Zenon DEF TakesBlock
<1>2. n \in Files /\ verdict[n] = "overwrite"
    BY <1>1, BlocksWanted
<1>3. CASE IsFirst(write_jobs[i], n)
    <2>1. \A x \in Names : x # <<n, "download">> => disk'[x] = modify_time(write_jobs[i])[x]
        BY <1>3, Zenon DEF TakesBlock
    <2>. QED BY <1>1, <1>2, <2>1, CreatedSpares
<1>4. CASE ~IsFirst(write_jobs[i], n)
    <2>1. /\ \A x \in Names : x # write_jobs[i].file => disk'[x] = disk[x]
          /\ write_jobs[i].file # None
        BY <1>4, Zenon DEF TakesBlock, IsFirst
    <2>2. PICK f \in Files, s \in {"final", "download"} : write_jobs[i].file = <<f, s>>
        BY <1>1, <2>1, WriterHas DEF Names
    <2>3. verdict[f] = "overwrite"
        <3>1. write_jobs[i].file # None => verdict[write_jobs[i].file[1]] = "overwrite"
            BY <1>1, Zenon DEF WriterInv
        <3>. QED BY <2>1, <2>2, <3>1
    <2>4. \A g \in Files, t \in {"final", "download"} : g # f => disk'[<<g, t>>] = disk[<<g, t>>]
        BY <2>1, <2>2 DEF Names
    <2>. QED BY <2>3, <2>4 DEF Spares, Keeps
<1>. QED BY <1>3, <1>4

(* See BlockSpares. *)
LEMMA BlockInVainSpares ==
    ASSUME TypeInv, IdInv, KindInv, AnsweredInv, WriterInv, DownloadsInv, NEW i \in Nat, NEW n \in Nat,
           TakesBlockInVain(i, n)
    PROVE  Spares(disk')
<1>1. Takes("block", i, n) /\ i \in DOMAIN write_jobs
    BY Zenon DEF TakesBlockInVain
<1>2. n \in Files /\ verdict[n] = "overwrite"
    BY <1>1, BlocksWanted
<1>3. Spares(modify_time(write_jobs[i]))
    BY <1>1, ModifySpares
<1>4. Spares(created(write_jobs[i], n))
    BY <1>1, <1>2, CreatedSpares, CreatedDoes, WriterHas
<1>5. Spares(disk)
    BY DEF Spares
<1>6. disk' \in {modify_time(write_jobs[i]), created(write_jobs[i], n), disk}
    BY Zenon DEF TakesBlockInVain
<1>. QED BY <1>3, <1>4, <1>5, <1>6

(* No step makes a .download of a file that is not wanted, or touches one to be kept. *)
LEMMA DiskStep ==
    ASSUME TypeInv, IdInv, KindInv, AnsweredInv, WriterInv, DownloadsInv, NEW i \in Nat, NEW n \in
           Nat, NEW kind, Step(i, n, kind), ~Renews(i, n)
    PROVE  Spares(disk')
<1>1. CASE SendsDigest(i)
    BY <1>1 DEF SendsDigest, Spares, Timer, readerFrame
<1>2. CASE SendsBlock(i)
    BY <1>2 DEF SendsBlock, Spares, Timer, readerFrame
<1>3. CASE SendsEnd(i)
    BY <1>3 DEF SendsEnd, Spares, Timer, readerFrame
<1>4. CASE SendsReadError(i)
    BY <1>4 DEF SendsReadError, Spares, Timer, readerFrame
<1>5. CASE SendsDigestError(i)
    BY <1>5 DEF SendsDigestError, Spares, Timer, readerFrame
<1>6. CASE SendsLast(i, kind)
    BY <1>6 DEF SendsLast, Spares, Timer, readerFrame
<1>7. CASE GetsSend(i, n)
    BY <1>7 DEF GetsSend, Spares, readerFrame
<1>8. CASE GetsSendInVain(i, n)
    BY <1>8 DEF GetsSendInVain, Spares, readerFrame
<1>9. CASE GetsCancel(i, n)
    BY <1>9 DEF GetsCancel, Spares, readerFrame
<1>10. CASE GetsConfirm(i, n)
    BY <1>10 DEF GetsConfirm, Spares, readerFrame
<1>11. CASE GetsOther(kind, i, n)
    BY <1>11 DEF GetsOther, Spares, readerFrame
<1>12. CASE GetsDigestAsks(i, n)
    BY <1>12 DEF GetsDigestAsks, Spares, readerFrame
<1>13. ASSUME NEW b \in BOOLEAN, GetsDigestKnows(i, n, b) PROVE Spares(disk')
    BY <1>13 DEF GetsDigestKnows, Spares, readerFrame
<1>14. CASE TakesOther(kind, i, n)
    BY <1>14 DEF TakesOther, Spares, readerFrame
<1>15. CASE TakesReceive(i, n)
    BY <1>15 DEF Renews
<1>16. CASE TakesCancel(i, n)
    BY <1>16, WriterHas, RemoveDownloadDoes DEF TakesCancel, Spares
<1>17. CASE TakesDone(i, n)
    BY <1>17, ModifySpares DEF TakesDone
<1>18. CASE TakesError(i, n)
    BY <1>18 DEF TakesError, Spares, readerFrame
<1>19. CASE TakesDir(i, n)
    BY <1>19 DEF TakesDir, Spares, readerFrame
<1>20. CASE TakesDigestAsks(i, n)
    BY <1>20 DEF TakesDigestAsks, Spares, readerFrame
<1>21. ASSUME NEW b \in BOOLEAN, TakesDigestKnows(i, n, b) PROVE Spares(disk')
    BY <1>21 DEF TakesDigestKnows, Spares, readerFrame
<1>22. CASE TakesDigestReturns(i, n)
    BY <1>22 DEF TakesDigestReturns, Spares, readerFrame
<1>23. CASE TakesDigestWants(i, n)
    BY <1>23 DEF TakesDigestWants, Spares, readerFrame
<1>24. CASE TakesDigestInVain(i, n)
    BY <1>24 DEF TakesDigestInVain, Spares, readerFrame
<1>25. CASE TakesBlock(i, n)
    BY <1>25, BlockSpares
<1>26. CASE TakesBlockInVain(i, n)
    BY <1>26, BlockInVainSpares
<1>27. CASE StartsUpload(i, n)
    BY <1>27 DEF StartsUpload, Spares, readerFrame
<1>28. CASE StartsDownload(i, n)
    BY <1>28 DEF Renews
<1>29. CASE AddsUpload(i, n)
    BY <1>29 DEF AddsUpload, Spares, readerFrame
<1>30. CASE AddsDownload(i, n)
    BY <1>30 DEF Renews
<1>31. CASE ResumesUpload(i, n)
    BY <1>31 DEF ResumesUpload, Spares, readerFrame
<1>32. CASE ResumesDownload(i, n)
    BY <1>32 DEF ResumesDownload, Spares, readerFrame
<1>33. CASE CancelsUpload(i)
    BY <1>33 DEF CancelsUpload, Spares, readerFrame
<1>34. CASE CancelsDownload(i)
    BY <1>34, WriterHas, RemoveDownloadDoes DEF CancelsDownload, Spares
<1>35. ASSUME NEW b \in BOOLEAN, AnswersUpload(i, n, b) PROVE Spares(disk')
    BY <1>35 DEF AnswersUpload, Spares, readerFrame
<1>36. ASSUME NEW b \in BOOLEAN, AnswersDownload(i, n, b) PROVE Spares(disk')
    BY <1>36 DEF AnswersDownload, Spares, readerFrame
<1>37. CASE AnswersNobody(i, n)
    BY <1>37 DEF AnswersNobody, Spares, readerFrame
<1>38. CASE Reconnects
    BY <1>38 DEF Reconnects, Spares, readerFrame
<1>39. CASE Stutters
    BY <1>39 DEF Stutters, Spares, readerFrame
<1>. QED BY <1>1, <1>2, <1>3, <1>4, <1>5, <1>6, <1>7, <1>8, <1>9, <1>10, <1>11, <1>12, <1>13,
   <1>14, <1>15, <1>16, <1>17, <1>18, <1>19, <1>20, <1>21, <1>22, <1>23, <1>24, <1>25, <1>26,
   <1>27, <1>28, <1>29, <1>30, <1>31, <1>32, <1>33, <1>34, <1>35, <1>36, <1>37, <1>38, <1>39,
   Zenon DEF Step

(* A new job takes over a disk whose leftovers are known. *)
LEMMA RenewedDownloads ==
    ASSUME TypeInv, NEW i \in Nat, NEW n \in Nat, Renews(i, n)
    PROVE  DownloadsInv'
<1>1. NewHistory(n) /\ disk' \in {disk} \cup Directories
    BY Zenon DEF Renews, TakesReceive, StartsDownload, AddsDownload
<1>2. \A f \in Files : f \in tainted' <=> f \in tainted \/ disk[<<f, "download">>] # Absent
    BY <1>1, NewHistoryDoes
<1>3. \A f \in Files : disk'[<<f, "download">>] \in {Absent, disk[<<f, "download">>]}
    BY <1>1 DEF Directories
<1>. QED BY <1>2, <1>3 DEF DownloadsInv

(* A .download there is of a file this job wants, or was left behind. *)
LEMMA DownloadsInvStep ==
    ASSUME TypeInv, IdInv, KindInv, OrderInv, TokenWaits, OneToken, AnsweredInv, WriterInv, DownloadsInv,
           NEW i \in Nat, NEW n \in Nat, NEW kind, Step(i, n, kind)
    PROVE  DownloadsInv'
<1>1. CASE Renews(i, n)
    BY <1>1, RenewedDownloads
<1>2. CASE Decides(i, n)
    <2>1. n \in Files /\ ~Answered(n)
        BY <1>2, DecidesAnswers
    <2>2. /\ \A f \in Files : f # n => verdict'[f] = verdict[f]
          /\ UNCHANGED <<disk, tainted>>
        BY <1>2, <2>1, DecidesDoes
    <2>. QED BY <2>1, <2>2 DEF DownloadsInv, Answered
<1>3. CASE ~Renews(i, n) /\ ~Decides(i, n)
    <2>1. Spares(disk') /\ UNCHANGED <<verdict, tainted>>
        BY <1>3, DiskStep, HistoryKept
    <2>. QED BY <2>1 DEF Spares, DownloadsInv
<1>. QED BY <1>1, <1>2, <1>3

(* What was to be kept is as it was. *)
LEMMA KeptStep ==
    ASSUME TypeInv, IdInv, KindInv, OrderInv, TokenWaits, OneToken, AnsweredInv, WriterInv, DownloadsInv,
           KeptContents, NEW i \in Nat, NEW n \in Nat, NEW kind, Step(i, n, kind)
    PROVE  KeptContents'
<1>1. CASE Renews(i, n)
    BY <1>1, RenewedHistory DEF NoAnswers, Answered, KeptContents
<1>2. CASE Decides(i, n)
    <2>1. n \in Files
        BY <1>2, DecidesAnswers
    <2>2. /\ \A f \in Files : f # n => verdict'[f] = verdict[f] /\ kept'[f] = kept[f]
          /\ kept'[n] = disk[<<n, "final">>]
          /\ UNCHANGED <<upload, disk, tainted>>
        BY <1>2, <2>1, DecidesDoes
    <2>. QED BY <2>1, <2>2 DEF KeptContents
<1>3. CASE ~Renews(i, n) /\ ~Decides(i, n)
    <2>1. Spares(disk') /\ UNCHANGED <<upload, verdict, kept, tainted>>
        BY <1>3, DiskStep, HistoryKept
    <2>. QED BY <2>1 DEF Spares, Keeps, KeptContents
<1>. QED BY <1>1, <1>2, <1>3

(* The file a write job has open. *)
LEMMA OpenFile ==
    ASSUME TypeInv, NEW i \in DOMAIN write_jobs, write_jobs[i].file # None
    PROVE  write_jobs[i].file[1] \in Files
BY WriterHas DEF Names

(* A new job has no file open, and nothing is answered. *)
LEMMA RenewedWriter ==
    ASSUME TypeInv, TypeInv', IdInv, KindInv, OrderInv, OrderInv', NEW i \in Nat, NEW n \in Nat,
           Renews(i, n)
    PROVE  WriterInv'
<1>1. NoAnswers'
    BY RenewedHistory
<1>2. i \in DOMAIN write_jobs' /\ write_jobs'[i].file = None
    BY Zenon DEF Renews, TakesReceive, StartsDownload, AddsDownload, Updates, IsNew
<1>3. \A k \in DOMAIN write_jobs' : k = i
    <2>1. CASE TakesReceive(i, n)
        <3>1. Takes("receive", i, n) /\ upload' = upload
            BY <2>1, Zenon DEF TakesReceive
        <3>2. upload'
            BY <3>1 DEF Takes, Pops, KindInv, DownloadKinds, InW, W
        <3>. QED BY <1>2, <3>2 DEF OrderInv, UploadSingle
    <2>2. CASE StartsDownload(i, n)
        BY <2>2 DEF StartsDownload, Updates
    <2>3. CASE AddsDownload(i, n)
        BY <2>3 DEF AddsDownload, Updates
    <2>. QED BY <2>1, <2>2, <2>3, Zenon DEF Renews
<1>. QED BY <1>1, <1>2, <1>3 DEF WriterInv, NoAnswers, Answered

(* The answer in a download, recorded in the client's job. *)
LEMMA AnsweredWriter ==
    ASSUME TypeInv, IdInv, ~upload, AnsweredInv, WriterInv, NEW i \in Nat, NEW n \in Files,
           NEW b \in BOOLEAN, i \in DOMAIN write_jobs, i \in DOMAIN read_jobs, Waits(i, n), ~Answered(n),
           ~upload', Updates(write_jobs, write_jobs', i), IsAnswered(write_jobs[i], write_jobs'[i], n, b),
           IsDecided(n, b)
    PROVE  WriterInv'
<1>1. /\ b => verdict'[n] = "overwrite"
      /\ \A f \in Files : f # n => verdict'[f] = verdict[f]
    BY DecidedVerdict
<1>2. Owner(i) /\ i \in Ids
    BY DEF Owner, IdInv
<1>3. \A f \in Files : Answered(f) => f <= n
    BY <1>2 DEF AnsweredInv, AnsweredFrom, AnswersOfJob, Waits
<1>4. write_jobs'[i].file # None => write_jobs'[i].file = write_jobs[i].file
    BY Zenon DEF IsAnswered
<1>5. write_jobs'[i].file # None => verdict'[write_jobs'[i].file[1]] = "overwrite"
    BY <1>1, <1>4, OpenFile DEF WriterInv, Answered
<1>6. \/ write_jobs[i].file_num # n /\ write_jobs'[i].file_num = write_jobs[i].file_num
      \/ b /\ write_jobs'[i].file_num = n
      \/ write_jobs'[i].file_num = n + 1
    BY Zenon DEF IsAnswered
<1>7. n + 1 \in Files => verdict'[n + 1] # "skip"
    <2>1. n \in Nat /\ ~(n + 1 <= n) /\ n + 1 # n
        BY DEF Files
    <2>. QED BY <1>1, <1>3, <2>1 DEF Answered
<1>8. write_jobs'[i].file_num \in Files => verdict'[write_jobs'[i].file_num] # "skip"
    <2>1. CASE write_jobs[i].file_num # n /\ write_jobs'[i].file_num = write_jobs[i].file_num
        BY <1>1, <2>1 DEF WriterInv
    <2>2. CASE b /\ write_jobs'[i].file_num = n
        <3>1. verdict'[n] = "overwrite"
            BY <1>1, <2>2, Zenon
        <3>. QED BY <2>2, <3>1
    <2>3. CASE write_jobs'[i].file_num = n + 1
        BY <1>7, <2>3
    <2>. QED BY <1>6, <2>1, <2>2, <2>3, Zenon
<1>9. \A k \in DOMAIN write_jobs' : k = i
    BY DEF Updates, IdInv
<1>. QED BY <1>5, <1>8, <1>9 DEF WriterInv

(* See AnsweredWriter; in an upload the connection manager does not hear   *)
(* of the answer.                                                          *)
LEMMA DecidesWriter ==
    ASSUME TypeInv, IdInv, KindInv, OrderInv, TokenWaits, OneToken, TokenInv, AnsweredInv, WriterInv,
           NEW i \in Nat, NEW n \in Nat, Decides(i, n)
    PROVE  WriterInv'
<1>1. n \in Files /\ Waits(i, n) /\ ~Answered(n)
    BY DecidesAnswers
<1>2. CASE upload
    <2>1. write_jobs' = write_jobs
        BY <1>2, Zenon DEF Decides, GetsDigestKnows, AnswersUpload, TakesDigestKnows, AnswersDownload,
           TakesDigestWants
    <2>2. (\A f \in Files : f # n => verdict'[f] = verdict[f]) /\ upload' = upload
        BY <1>1, DecidesDoes
    <2>. QED BY <1>1, <1>2, <2>1, <2>2, OpenFile DEF WriterInv, Answered
<1>3. CASE ~upload
    <2>1. PICK b \in BOOLEAN : TakesDigestKnows(i, n, b) \/ AnswersDownload(i, n, b)
        BY <1>3, Zenon DEF Decides, GetsDigestKnows, AnswersUpload, TakesDigestWants
    <2>2. /\ i \in DOMAIN write_jobs /\ Updates(write_jobs, write_jobs', i)
          /\ IsAnswered(write_jobs[i], write_jobs'[i], n, b) /\ IsDecided(n, b)
        BY <2>1, Zenon DEF TakesDigestKnows, AnswersDownload
    <2>3. Asks(i)
        <3>1. CASE TakesDigestKnows(i, n, b)
            <4>1. Takes("digest", i, n)
                BY <3>1, Zenon DEF TakesDigestKnows
            <4>. QED BY <4>1 DEF Takes, Pops, Asks, IsW, InW, W
        <3>2. CASE AnswersDownload(i, n, b)
            <4>1. <<i, n>> \in asked
                BY <3>2, Zenon DEF AnswersDownload
            <4>. QED BY <4>1 DEF Asks
        <3>. QED BY <2>1, <3>1, <3>2
    <2>4. i \in DOMAIN read_jobs
        BY <1>3, <2>2, <2>3 DEF TokenInv
    <2>5. ~upload'
        BY <1>1, <1>3, DecidesDoes
    <2>. QED BY <1>1, <1>3, <2>2, <2>4, <2>5, AnsweredWriter
<1>. QED BY <1>2, <1>3

(* What a block does to the job. *)
LEMMA BlockWriter ==
    ASSUME TypeInv, IdInv, KindInv, AnsweredInv, WriterInv, NEW i \in Nat, NEW n \in Nat,
           TakesBlock(i, n) \/ TakesBlockInVain(i, n)
    PROVE  WriterInv'
<1>1. /\ Takes("block", i, n) /\ i \in DOMAIN write_jobs /\ Updates(write_jobs, write_jobs', i)
      /\ UNCHANGED <<upload, verdict>>
    BY Zenon DEF TakesBlock, TakesBlockInVain
<1>2. n \in Files /\ verdict[n] = "overwrite"
    BY <1>1, BlocksWanted
<1>3. /\ write_jobs'[i].file_num \in {write_jobs[i].file_num, n}
      /\ write_jobs'[i].file \in {write_jobs[i].file, moved(write_jobs[i]), <<n, "download">>}
    BY <1>1, Zenon DEF TakesBlock, TakesBlockInVain, IsWriting, IsFirst
<1>4. moved(write_jobs[i]) # None /\ write_jobs[i].file # None =>
          moved(write_jobs[i])[1] = write_jobs[i].file[1]
    BY DEF moved
<1>5. write_jobs[i].file = None => moved(write_jobs[i]) = None
    BY FileAssumption, WriterHas, <1>1 DEF moved
<1>6. write_jobs'[i].file # None => verdict[write_jobs'[i].file[1]] = "overwrite"
    BY <1>1, <1>2, <1>3, <1>4, <1>5 DEF WriterInv
<1>7. \/ write_jobs'[i].file_num = n
      \/ /\ write_jobs'[i].file_num = write_jobs[i].file_num
         /\ write_jobs'[i].file \in {write_jobs[i].file, moved(write_jobs[i])}
    BY <1>1, Zenon DEF TakesBlock, TakesBlockInVain, IsWriting, IsFirst
<1>8. upload /\ write_jobs'[i].file # None =>
          write_jobs'[i].file_num \in Files /\ verdict[write_jobs'[i].file_num] = "overwrite"
    BY <1>1, <1>2, <1>5, <1>7 DEF WriterInv
<1>. QED BY <1>1, <1>2, <1>3, <1>6, <1>8 DEF Updates, WriterInv

(* What a write job has open is wanted, and in a download it is not at a file that is kept. *)
LEMMA WriterKept ==
    ASSUME TypeInv, IdInv, KindInv, AnsweredInv, WriterInv, NEW i \in Nat, NEW n \in Nat, NEW
           kind, Step(i, n, kind), ~Renews(i, n), ~Decides(i, n)
    PROVE  WriterInv'
<1>0. UNCHANGED <<upload, verdict, kept, tainted>>
    BY HistoryKept
<1>1. CASE SendsDigest(i)
    BY <1>1, <1>0 DEF SendsDigest, Timer, Updates, readerFrame, WriterInv
<1>2. CASE SendsBlock(i)
    BY <1>2, <1>0 DEF SendsBlock, Timer, Updates, readerFrame, WriterInv
<1>3. CASE SendsEnd(i)
    BY <1>3, <1>0 DEF SendsEnd, Timer, Updates, readerFrame, WriterInv
<1>4. CASE SendsReadError(i)
    BY <1>4, <1>0 DEF SendsReadError, Timer, Updates, readerFrame, WriterInv
<1>5. CASE SendsDigestError(i)
    BY <1>5, <1>0 DEF SendsDigestError, Timer, Updates, readerFrame, WriterInv
<1>6. CASE SendsLast(i, kind)
    BY <1>6, <1>0 DEF SendsLast, Removes, readerFrame, WriterInv
<1>7. CASE GetsSend(i, n)
    BY <1>7, <1>0 DEF GetsSend, Updates, readerFrame, WriterInv
<1>8. CASE GetsSendInVain(i, n)
    BY <1>8, <1>0 DEF GetsSendInVain, readerFrame, WriterInv
<1>9. CASE GetsCancel(i, n)
    BY <1>9, <1>0 DEF GetsCancel, Removes, readerFrame, WriterInv
<1>10. CASE GetsConfirm(i, n)
    BY <1>10, <1>0 DEF GetsConfirm, readerFrame, WriterInv
<1>11. CASE GetsOther(kind, i, n)
    BY <1>11, <1>0 DEF GetsOther, readerFrame, WriterInv
<1>12. CASE GetsDigestAsks(i, n)
    BY <1>12, <1>0 DEF GetsDigestAsks, WriterInv
<1>13. ASSUME NEW b \in BOOLEAN, GetsDigestKnows(i, n, b) PROVE WriterInv'
    BY <1>13, Zenon DEF Decides
<1>14. CASE TakesOther(kind, i, n)
    BY <1>14, <1>0 DEF TakesOther, WriterInv
<1>15. CASE TakesReceive(i, n)
    BY <1>15 DEF Renews
<1>16. CASE TakesCancel(i, n)
    BY <1>16, <1>0 DEF TakesCancel, Removes, WriterInv
<1>17. CASE TakesDone(i, n)
    BY <1>17, <1>0 DEF TakesDone, Removes, WriterInv
<1>18. CASE TakesError(i, n)
    BY <1>18, <1>0 DEF TakesError, Removes, WriterInv
<1>19. CASE TakesDir(i, n)
    BY <1>19, <1>0 DEF TakesDir, Updates, WriterInv
<1>20. CASE TakesDigestAsks(i, n)
    BY <1>20, <1>0 DEF TakesDigestAsks, WriterInv
<1>21. ASSUME NEW b \in BOOLEAN, TakesDigestKnows(i, n, b) PROVE WriterInv'
    BY <1>21, Zenon DEF Decides
<1>22. CASE TakesDigestReturns(i, n)
    BY <1>22, <1>0 DEF TakesDigestReturns, WriterInv
<1>23. CASE TakesDigestWants(i, n)
    BY <1>23, Zenon DEF Decides
<1>24. CASE TakesDigestInVain(i, n)
    BY <1>24, <1>0 DEF TakesDigestInVain, WriterInv
<1>25. CASE TakesBlock(i, n)
    BY <1>25, BlockWriter
<1>26. CASE TakesBlockInVain(i, n)
    BY <1>26, BlockWriter
<1>27. CASE StartsUpload(i, n)
    BY <1>27, <1>0 DEF StartsUpload, Updates, WriterInv
<1>28. CASE StartsDownload(i, n)
    BY <1>28 DEF Renews
<1>29. CASE AddsUpload(i, n)
    BY <1>29, <1>0 DEF AddsUpload, Updates, WriterInv
<1>30. CASE AddsDownload(i, n)
    BY <1>30 DEF Renews
<1>31. CASE ResumesUpload(i, n)
    BY <1>31, <1>0 DEF ResumesUpload, Updates, IsResumed, WriterInv
<1>32. CASE ResumesDownload(i, n)
    BY <1>32, <1>0 DEF ResumesDownload, Updates, IsResumed, WriterInv
<1>33. CASE CancelsUpload(i)
    BY <1>33, <1>0 DEF CancelsUpload, Removes, WriterInv
<1>34. CASE CancelsDownload(i)
    BY <1>34, <1>0 DEF CancelsDownload, Removes, WriterInv
<1>35. ASSUME NEW b \in BOOLEAN, AnswersUpload(i, n, b) PROVE WriterInv'
    BY <1>35, Zenon DEF Decides
<1>36. ASSUME NEW b \in BOOLEAN, AnswersDownload(i, n, b) PROVE WriterInv'
    BY <1>36, Zenon DEF Decides
<1>37. CASE AnswersNobody(i, n)
    BY <1>37, <1>0 DEF AnswersNobody, WriterInv
<1>38. CASE Reconnects
    BY <1>38, <1>0 DEF Reconnects, WriterInv
<1>39. CASE Stutters
    BY <1>39, <1>0 DEF Stutters, WriterInv
<1>. QED BY <1>1, <1>2, <1>3, <1>4, <1>5, <1>6, <1>7, <1>8, <1>9, <1>10, <1>11, <1>12, <1>13,
   <1>14, <1>15, <1>16, <1>17, <1>18, <1>19, <1>20, <1>21, <1>22, <1>23, <1>24, <1>25, <1>26,
   <1>27, <1>28, <1>29, <1>30, <1>31, <1>32, <1>33, <1>34, <1>35, <1>36, <1>37, <1>38, <1>39,
   Zenon DEF Step

(* See WriterKept. *)
LEMMA WriterInvStep ==
    ASSUME TypeInv, TypeInv', IdInv, KindInv, OrderInv, OrderInv', TokenWaits, OneToken, TokenInv,
           AnsweredInv, WriterInv, NEW i \in Nat, NEW n \in Nat, NEW kind, Step(i, n, kind)
    PROVE  WriterInv'
<1>1. CASE Renews(i, n)
    BY <1>1, RenewedWriter
<1>2. CASE Decides(i, n)
    BY <1>2, DecidesWriter
<1>3. CASE ~Renews(i, n) /\ ~Decides(i, n)
    BY <1>3, WriterKept
<1>. QED BY <1>1, <1>2, <1>3

-----------------------------------------------------------------------------
(* The invariant.                                                          *)

Inv ==
    /\ TypeInv /\ IdInv /\ KindInv /\ OrderInv
    /\ ReaderInv /\ TokenWaits /\ OneToken /\ TokenInv
    /\ AnsweredInv /\ WriterInv /\ DownloadsInv /\ KeptContents

(* It holds before anything is transferred. *)
LEMMA InitInv ==
    ASSUME Init
    PROVE  Inv
<1>1. DOMAIN read_jobs = {} /\ DOMAIN write_jobs = {}
    BY DEF Init
<1>2. InW = {} /\ InR = {} /\ asked = {}
    BY EmptySeq DEF Init, InW, InR, At
<1>3. TypeInv
    <2>1. IsTable(read_jobs, ReadJobs) /\ IsTable(write_jobs, WriteJobs)
        BY EmptySeq DEF Init, IsTable
    <2>2. to_writer \in Seq(Messages) /\ to_reader \in Seq(Messages)
        BY DEF Init
    <2>3. Absent \in Contents /\ Old \in Contents
        BY DEF Absent, Old, Contents
    <2>4. disk \in [Names -> Contents] /\ kept \in [Files -> Contents]
        BY <2>3 DEF Init, Directories, Names
    <2>5. verdict \in [Files -> {None, "before", "overwrite", "skip"}]
        BY DEF Init
    <2>6. /\ upload \in BOOLEAN /\ done \in BOOLEAN /\ broken \in BOOLEAN
          /\ asked \subseteq Nat \X Files /\ tainted \subseteq Files
          /\ saved \in Nat \cup {None} /\ jobs \in Nat /\ failures \in Nat
        BY DEF Init
    <2>. QED BY <2>1, <2>2, <2>4, <2>5, <2>6 DEF TypeInv
<1>4. \A f \in Files : disk[<<f, "download">>] = Absent /\ verdict[f] = None
    BY DEF Init, Directories
<1>5. IdInv /\ KindInv
    BY <1>1, <1>2 DEF IdInv, KindInv, UploadKinds, DownloadKinds
<1>6. OrderInv
    BY <1>1, <1>2 DEF OrderInv, UploadFreshInv, UploadOrder, UploadEnds, UploadSingle, UploadOwnerInv,
       DownloadInv
<1>7. ReaderInv /\ TokenWaits /\ TokenInv
    BY <1>1, <1>2 DEF ReaderInv, TokenWaits, TokenInv
<1>8. OneToken
    BY <1>2 DEF OneToken, OneW, OneR, OneA, OneWR, OneWA, OneRA
<1>9. AnsweredInv
    BY <1>1 DEF AnsweredInv, Owner
<1>10. WriterInv /\ DownloadsInv /\ KeptContents
    BY <1>1, <1>4, FileAssumption DEF WriterInv, DownloadsInv, KeptContents
<1>. QED BY <1>3, <1>5, <1>6, <1>7, <1>8, <1>9, <1>10 DEF Inv

(* The order of the messages, by the direction of the transfers. *)
LEMMA OrderStep ==
    ASSUME TypeInv, TypeInv', IdInv, KindInv, OrderInv, NEW i \in Nat, NEW n \in Nat, NEW kind,
           Step(i, n, kind), upload' = upload
    PROVE  OrderInv'
<1>1. CASE upload
    <2>1. UploadStep(i, n, kind)
        BY <1>1, UploadSteps
    <2>2. UploadFreshInv /\ UploadOrder /\ UploadEnds /\ UploadSingle /\ UploadOwnerInv
        BY <1>1 DEF OrderInv
    <2>3. UploadFreshInv'
        BY <1>1, <2>1, <2>2, UploadFreshStep
    <2>4. UploadOrder'
        BY <1>1, <2>1, <2>2, UploadOrderStep
    <2>5. UploadEnds'
        BY <1>1, <2>1, <2>2, UploadEndsStep
    <2>6. UploadSingle'
        BY <1>1, <2>1, <2>2, UploadSingleStep
    <2>7. UploadOwnerInv'
        BY <1>1, <2>1, <2>2, <2>4, <2>6, UploadOwnerStep
    <2>. QED BY <1>1, <2>3, <2>4, <2>5, <2>6, <2>7 DEF OrderInv
<1>2. CASE ~upload
    <2>1. DownloadStep(i, n, kind) /\ DownloadInv
        BY <1>2, DownloadSteps DEF OrderInv
    <2>. QED BY <1>2, <2>1, DownloadInvStep DEF OrderInv
<1>. QED BY <1>1, <1>2

(* A transfer goes one way. *)
LEMMA NextKeepsDirection ==
    ASSUME Inv, [Next]_vars
    PROVE  upload' = upload
<1>0. /\ TypeInv /\ IdInv /\ KindInv /\ OrderInv /\ ReaderInv /\ TokenWaits /\ OneToken /\ TokenInv
      /\ AnsweredInv
    BY DEF Inv
<1>1. PICK i \in Nat, n \in Nat : \E kind : Step(i, n, kind)
    BY <1>0, NextDoes
<1>2. PICK kind : Step(i, n, kind)
    BY <1>1
<1>3. CASE Renews(i, n)
    BY <1>3, Zenon DEF Renews, TakesReceive, StartsDownload, AddsDownload
<1>4. CASE Decides(i, n)
    BY <1>0, <1>4, DecidesAnswers, DecidesDoes
<1>. QED BY <1>0, <1>2, <1>3, <1>4, HistoryKept

(* Every step keeps it. *)
LEMMA NextInv ==
    ASSUME Inv, [Next]_vars
    PROVE  Inv'
<1>0. /\ TypeInv /\ IdInv /\ KindInv /\ OrderInv /\ ReaderInv /\ TokenWaits /\ OneToken /\ TokenInv
      /\ AnsweredInv /\ WriterInv /\ DownloadsInv /\ KeptContents
    BY DEF Inv
<1>1. TypeInv' /\ \E i, n \in Nat : \E kind : Step(i, n, kind)
    BY <1>0, NextDoes
<1>2. PICK i \in Nat, n \in Nat : \E kind : Step(i, n, kind)
    BY <1>1
<1>3. PICK kind : Step(i, n, kind)
    BY <1>2
<1>4. IdInv'
    BY <1>0, <1>1, <1>3, IdStep
<1>5. KindInv'
    BY <1>0, <1>1, <1>3, KindStep
<1>6. upload' = upload
    BY NextKeepsDirection
<1>7. OrderInv'
    BY <1>0, <1>1, <1>3, <1>6, OrderStep
<1>8. TokenWaits'
    BY <1>0, <1>1, <1>3, TokenWaitsStep DEF OrderInv
<1>9. OneToken'
    BY <1>0, <1>1, <1>3, OneTokenStep
<1>10. ReaderInv'
    BY <1>0, <1>1, <1>3, ReaderInvStep
<1>11. TokenInv'
    <2>1. CASE upload
        BY <1>6, <2>1 DEF TokenInv
    <2>2. CASE ~upload
        BY <1>0, <1>1, <1>3, <2>2, DownloadSteps, TokenInvStep DEF OrderInv
    <2>. QED BY <2>1, <2>2
<1>12. AnsweredInv'
    BY <1>0, <1>1, <1>3, <1>4, <1>5, <1>7, AnsweredInvStep
<1>13. WriterInv'
    BY <1>0, <1>1, <1>3, <1>7, WriterInvStep
<1>14. DownloadsInv' /\ KeptContents'
    BY <1>0, <1>3, DownloadsInvStep, KeptStep
<1>. QED BY <1>1, <1>4, <1>5, <1>7, <1>8, <1>9, <1>10, <1>11, <1>12, <1>13, <1>14 DEF Inv

(* The state is always well formed: the jobs, the queues, the disk and     *)
(* what is remembered of them.                                             *)
THEOREM TypesHold == Spec => []TypeInv
<1>1. Inv => TypeInv
    BY DEF Inv
<1>. QED BY <1>1, InitInv, NextInv, PTL DEF Spec

-----------------------------------------------------------------------------
(* The times of files to be kept.                                          *)

StampsInv == \A s \in stamped : upload /\ ~s[2]

(* What set_file_mtime notes. *)
LEMMA SetTimeNotes ==
    ASSUME NEW i \in DOMAIN write_jobs, NEW s \in set_file_mtime(write_jobs[i])
    PROVE  \/ s \in stamped
           \/ /\ write_jobs[i].file_num \in Files /\ verdict[write_jobs[i].file_num] = "skip"
              /\ s[2] = (write_jobs[i].file # None)
BY DEF set_file_mtime

(* What is noted is what the writer's jobs set, if anything. *)
LEMMA StampsCome ==
    ASSUME [Next]_vars
    PROVE  \/ stamped' \in {stamped, {}}
           \/ \E i \in DOMAIN write_jobs : stamped' = set_file_mtime(write_jobs[i])
<1>. DEFINE Goal == \/ stamped' \in {stamped, {}}
                    \/ \E i \in DOMAIN write_jobs : stamped' = set_file_mtime(write_jobs[i])
<1>. SUFFICES Goal
    OBVIOUS
<1>1. ASSUME NEW i \in 1..MaxJobs, handle_read_job(i) PROVE Goal
    BY <1>1, Zenon DEF handle_read_job, read_past_end, send_current_digest, read_block, read_end,
       read_fails, digest_fails, Replies, readerOnly, historyVars
<1>2. CASE on_send \/ on_send_fails \/ on_cancel \/ on_send_confirm \/ on_job_status
    BY <1>2, Zenon DEF on_send, on_send_fails, on_cancel, on_send_confirm, on_job_status, readerOnly,
       historyVars
<1>3. CASE on_digest_upload
    BY <1>3, Zenon DEF on_digest_upload, Decided, historyVars
<1>4. CASE ignore \/ on_cancel_write \/ on_dir \/ on_digest_fails \/ on_error
    BY <1>4, Zenon DEF ignore, on_cancel_write, on_dir, on_digest_fails, on_error, historyVars
<1>5. CASE on_receive
    BY <1>5, Zenon DEF on_receive, NewHistory
<1>6. CASE on_digest \/ CheckDigest
    BY <1>6, Zenon DEF on_digest, CheckDigest, Answer, Decided, historyVars
<1>7. CASE on_block \/ on_done
    BY <1>7, Zenon DEF on_block, on_done, Mine
<1>8. CASE on_block_sync_fails \/ on_block_create_fails \/ on_block_write_fails
    BY <1>8, Zenon DEF on_block_sync_fails, on_block_create_fails, on_block_write_fails, WriteFails,
       Mine
<1>9. CASE SendFiles \/ AddJob
    BY <1>9, Zenon DEF SendFiles, AddJob, StartJob, NewHistory, historyVars
<1>10. ASSUME NEW i \in 1..MaxJobs, ResumeJob(i) \/ CancelJob(i) PROVE Goal
    BY <1>10, Zenon DEF ResumeJob, CancelJob, historyVars
<1>11. ASSUME NEW question \in asked, NEW overwrite \in BOOLEAN, NEW remember \in BOOLEAN,
               SetConfirmOverrideFile(question[1], question[2], overwrite, remember)
       PROVE  Goal
    BY <1>11, Zenon DEF SetConfirmOverrideFile, Answer, Decided, historyVars
<1>12. CASE reconnect \/ UNCHANGED vars
    BY <1>12, Zenon DEF reconnect, vars, historyVars
<1>. HIDE DEF Goal
<1>. QED BY <1>1, <1>2, <1>3, <1>4, <1>5, <1>6, <1>7, <1>8, <1>9, <1>10, <1>11, <1>12, Zenon
   DEF Next, ReaderReceives, WriterReceives, UserStep

(* A job that sets the time of a kept file is one of an upload, and has    *)
(* not opened a file.                                                      *)
LEMMA StampsStep ==
    ASSUME Inv, StampsInv, [Next]_vars
    PROVE  StampsInv'
<1>1. upload' = upload /\ upload \in BOOLEAN
    BY NextKeepsDirection DEF Inv, TypeInv
<1>2. ASSUME NEW i \in DOMAIN write_jobs, stamped' = set_file_mtime(write_jobs[i]) PROVE StampsInv'
    <2>1. /\ ~upload /\ write_jobs[i].file_num \in Files => verdict[write_jobs[i].file_num] # "skip"
          /\ upload /\ write_jobs[i].file # None => verdict[write_jobs[i].file_num] = "overwrite"
        BY DEF Inv, WriterInv
    <2>2. ASSUME NEW s \in stamped' PROVE upload /\ ~s[2]
        <3>1. \/ s \in stamped
              \/ /\ write_jobs[i].file_num \in Files /\ verdict[write_jobs[i].file_num] = "skip"
                 /\ s[2] = (write_jobs[i].file # None)
            BY <1>2, <2>2, SetTimeNotes
        <3>. QED BY <1>1, <2>1, <3>1, Zenon DEF StampsInv
    <2>. QED BY <1>1, <2>2, Zenon DEF StampsInv
<1>. QED BY <1>1, <1>2, StampsCome, Zenon DEF StampsInv

(* A file the user decided to keep keeps its contents until the job is     *)
(* over, and its time of modification, in whatever order questions,        *)
(* answers, blocks, errors and cancellations of this and of earlier jobs   *)
(* arrive, and whatever fails.  Both have their exception in an upload,    *)
(* where the manager's job does not hear of the answer: the contents of a  *)
(* file of which an earlier transfer left a .download, and the time of the *)
(* file a job stands at that has opened none.                              *)
THEOREM KeptFilesUntouchedHolds == Spec => []KeptFilesUntouched
<1>1. Init => Inv /\ StampsInv
    BY InitInv DEF Init, StampsInv
<1>2. Inv /\ StampsInv /\ [Next]_vars => Inv' /\ StampsInv'
    BY NextInv, StampsStep
<1>3. Inv /\ StampsInv => KeptFilesUntouched
    BY DEF Inv, StampsInv, KeptFilesUntouched
<1>. QED BY <1>1, <1>2, <1>3, PTL DEF Spec

(* The question whether a file is to be overwritten is in one place at a   *)
(* time, and while it is there the reader of the file waits: no answer is  *)
(* lost, counted twice or taken for that of another file.                  *)
THEOREM OneQuestion == Spec => [](OneToken /\ TokenWaits)
<1>1. Inv => OneToken /\ TokenWaits
    BY DEF Inv
<1>. QED BY <1>1, InitInv, NextInv, PTL DEF Spec
=============================================================================
