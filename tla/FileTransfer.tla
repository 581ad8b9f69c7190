---------------------------- MODULE FileTransfer ----------------------------
(***************************************************************************)
(* One side reads a list of files and sends it in blocks, the other writes *)
(* them.  src/libs/hbb_common/src/fs.rs, TransferJob and handle_read_jobs. *)
(* In a download the host's connection reads (connection.rs, FileAction    *)
(* and file_timer) and the client writes (client/io_loop.rs, the handlers  *)
(* of FileResponse); in an upload the client reads and the host's          *)
(* connection manager writes (ui_cm_interface.rs, handle_fs), to which the *)
(* connection hands what it gets.  The user is always the client's.        *)
(*                                                                         *)
(* Before it reads a file the reader asks, with a digest, whether the      *)
(* writer wants it; if the writer has one of that name the user is asked.  *)
(* A file is written as name.download and renamed when the next one        *)
(* begins.  The contents of a file are the sequence of its blocks, a block *)
(* standing for the file it was read from and its place there.             *)
(***************************************************************************)
EXTENDS Integers, Sequences, Functions

CONSTANTS
    NumFiles,      \* files to be transferred
    Size,          \* and their numbers of blocks
    None,
    MaxJobs,       \* bound: transfers started
    MaxFailures    \* bound: errors of the two file systems

Files == 0..NumFiles - 1

ASSUME FileAssumption ==
    /\ NumFiles \in Nat \ {0} /\ Size \in [Files -> Nat]
    /\ MaxJobs \in Nat /\ MaxFailures \in Nat
    /\ None \notin Nat \cup Nat \X {"final", "download"} \cup {"overwrite", "skip", "before"}

Old == << <<-1, 1>> >>       \* a file the writer had before
Absent == << <<-2, 1>> >>

Whole(f) == [i \in 1..Size[f] |-> <<f, i>>]

VARIABLES
    upload,        \* the client reads
    read_jobs,     \* of the reader, by id
    write_jobs,    \* of the writer, by id
    to_writer,
    to_reader,
    disk,          \* the writer's: contents of <<f, "final">>, <<f, "download">>
    asked,         \* override_file_confirm dialogs open: <<id, file_num>>
    saved,         \* file_num of the client's job saved in the peer's config
    jobs,          \* ids given so far
    failures,
    verdict,       \* history: what this job answered for each file
    kept,          \* history: the contents the answer "skip" was about
    done,          \* history: this job got its done
    broken,        \* history: writing failed in some job
    tainted,       \* history: files a job found a .download of
    stamped        \* history: kept files given another time: <<f, some file was open>>

jobVars == <<read_jobs, write_jobs, to_writer, to_reader, asked>>
historyVars == <<verdict, kept, done, tainted, stamped>>
vars == <<upload, jobVars, disk, saved, jobs, failures, historyVars, broken>>

(* A directory before anything was written to it. *)
Directories == {d \in [Files \X {"final", "download"} -> {Absent, Old}] :
                   \A f \in Files : d[<<f, "download">>] = Absent}

Init ==
    /\ upload \in BOOLEAN
    /\ read_jobs = <<>> /\ write_jobs = <<>>
    /\ to_writer = <<>> /\ to_reader = <<>>
    /\ disk \in Directories
    /\ asked = {}
    /\ saved = None
    /\ jobs = 0 /\ failures = 0
    /\ verdict = [f \in Files |-> None]
    /\ kept = [f \in Files |-> Absent]
    /\ done = FALSE /\ broken = FALSE
    /\ tainted = {} /\ stamped = {}

-----------------------------------------------------------------------------
(* TransferJob.  Definitions named after a deviation are the ones after    *)
(* them with a plausible mistake.                                          *)

NewJob(num) ==
    [file_num |-> num, file |-> None, file_confirmed |-> FALSE,
     file_is_waiting |-> FALSE, file_skipped |-> FALSE,
     default_overwrite_strategy |-> None, files |-> FALSE, is_last_job |-> FALSE]

skipped_still_waiting(job) ==
    [job EXCEPT !.file = None, !.file_confirmed = FALSE,
                !.file_num = @ + 1, !.file_skipped = TRUE]

set_file_skipped(job) ==
    [job EXCEPT !.file = None, !.file_confirmed = FALSE,
                !.file_is_waiting = FALSE, !.file_num = @ + 1, !.file_skipped = TRUE]

set_file_confirmed(job) == [job EXCEPT !.file_confirmed = TRUE, !.file_skipped = FALSE]

confirm_any_file(job, num, overwrite) ==
    IF overwrite THEN set_file_confirmed(job) ELSE set_file_skipped(job)

confirm(job, num, overwrite) ==
    IF job.file_num # num THEN job
    ELSE IF overwrite THEN set_file_confirmed(job) ELSE set_file_skipped(job)

(* The last file has been read, skipped or failed. *)
next_file(job) ==
    [job EXCEPT !.file_num = @ + 1, !.file = None,
                !.file_confirmed = FALSE, !.file_is_waiting = FALSE]

job_skipped(job) == job.file_skipped /\ NumFiles = 1

job_completed(job) == ~job.file_confirmed /\ ~job.file_is_waiting

(* What is renamed on the writer's disk when a file is over. *)
modify_time(job) ==
    LET num == job.file_num
    IN  IF job.files /\ num \in Files /\ disk[<<num, "download">>] # Absent
        THEN [disk EXCEPT ![<<num, "final">>] = disk[<<num, "download">>],
                          ![<<num, "download">>] = Absent]
        ELSE disk

(* set_file_mtime: the file of that name, which may be another than the    *)
(* one renamed, gets the time of the reader's.  Noted of a file to be kept,*)
(* with whether the job has opened a file yet.                             *)
set_file_mtime(job) ==
    LET num == job.file_num
    IN  IF job.files /\ num \in Files /\ verdict[num] = "skip"
           /\ modify_time(job)[<<num, "final">>] # Absent
        THEN stamped \cup {<<num, job.file # None>>} ELSE stamped

remove_download_file(job) ==
    IF job.files /\ job.file_num \in Files
    THEN [disk EXCEPT ![<<job.file_num, "download">>] = Absent]
    ELSE disk

Msg(kind, id, num) == [kind |-> kind, id |-> id, num |-> num]
Block(id, num, data) == [kind |-> "block", id |-> id, num |-> num, data |-> data]

remove_job(id, js) == Restrict(js, DOMAIN js \ {id})

Put(js, id, job) == [i \in DOMAIN js \cup {id} |-> IF i = id THEN job ELSE js[i]]

(* Only the connection manager tells the reader what became of a message. *)
Reply(m) == to_reader' = IF upload THEN Append(to_reader, m) ELSE to_reader

-----------------------------------------------------------------------------
(* What the reader gets: requests, in a download; in an upload what the    *)
(* connection manager answers.                                             *)

Receive == to_reader # <<>> /\ to_reader' = Tail(to_reader)

readerOnly == <<upload, write_jobs, asked, disk, saved, jobs, historyVars, broken>>

on_send ==
    /\ Receive /\ Head(to_reader).kind = "send"
    /\ LET m == Head(to_reader)
       IN  /\ read_jobs' = Put(read_jobs, m.id, [NewJob(m.num) EXCEPT !.files = TRUE])
           /\ to_writer' = Append(to_writer, Msg("dir", m.id, 0))
    /\ UNCHANGED <<readerOnly, failures>>

(* new_read cannot list the files. *)
on_send_fails ==
    /\ Receive /\ Head(to_reader).kind = "send"
    /\ failures < MaxFailures
    /\ failures' = failures + 1
    /\ to_writer' = Append(to_writer, Msg("error", Head(to_reader).id, 0))
    /\ UNCHANGED <<readerOnly, read_jobs>>

on_cancel ==
    /\ Receive /\ Head(to_reader).kind = "cancel"
    /\ read_jobs' = remove_job(Head(to_reader).id, read_jobs)
    /\ UNCHANGED <<readerOnly, failures, to_writer>>

on_send_confirm ==
    /\ Receive /\ Head(to_reader).kind = "confirm"
    /\ LET m == Head(to_reader)
       IN  read_jobs' = IF m.id \in DOMAIN read_jobs
                        THEN [read_jobs EXCEPT ![m.id] = confirm(@, m.num, m.overwrite)]
                        ELSE read_jobs
    /\ UNCHANGED <<readerOnly, failures, to_writer>>

-----------------------------------------------------------------------------
(* The reader's timer: one pass of handle_read_jobs over job id, unless it *)
(* still waits for its user to resume it.  An open file is known by the    *)
(* number of blocks read from it.                                          *)

Replies(id, job, m) ==
    /\ read_jobs' = [read_jobs EXCEPT ![id] = job]
    /\ to_writer' = Append(to_writer, m)
    /\ UNCHANGED <<readerOnly, to_reader>>

Runs(id) == id \in DOMAIN read_jobs /\ ~read_jobs[id].is_last_job

HasNext(id) == Runs(id) /\ read_jobs[id].file_num \in Files

(* After the last file, done, or the error "skipped". *)
read_past_end(id) ==
    /\ Runs(id) /\ read_jobs[id].file_num \notin Files
    /\ job_completed(read_jobs[id])
    /\ read_jobs' = remove_job(id, read_jobs)
    /\ to_writer' = Append(to_writer,
                        Msg(IF job_skipped(read_jobs[id]) THEN "error" ELSE "done", id,
                            read_jobs[id].file_num))
    /\ UNCHANGED <<readerOnly, to_reader, failures>>

(* The file is opened, if it is not yet, and its digest sent, once. *)
send_current_digest(id) ==
    /\ HasNext(id)
    /\ LET job == read_jobs[id]
       IN  /\ job.file = None \/ (~job.file_confirmed /\ ~job.file_is_waiting)
           /\ Replies(id, [job EXCEPT !.file = 0, !.file_confirmed = FALSE,
                                      !.file_is_waiting = TRUE],
                      Msg("digest", id, job.file_num))
    /\ UNCHANGED failures

read_block(id) ==
    /\ HasNext(id)
    /\ LET job == read_jobs[id]
       IN  /\ job.file # None /\ job.file_confirmed
           /\ job.file < Size[job.file_num]
           /\ Replies(id, [job EXCEPT !.file = @ + 1],
                      Block(id, job.file_num, << <<job.file_num, job.file + 1>> >>))
    /\ UNCHANGED failures

(* Nothing is left to read: an empty block, and the next file. *)
read_end(id) ==
    /\ HasNext(id)
    /\ LET job == read_jobs[id]
       IN  /\ job.file # None /\ job.file_confirmed
           /\ job.file = Size[job.file_num]
           /\ Replies(id, next_file(job), Block(id, job.file_num, <<>>))
    /\ UNCHANGED failures

(* The file cannot be opened, or not be read on: an error, and the next    *)
(* file.                                                                   *)
read_fails(id) ==
    /\ HasNext(id)
    /\ failures < MaxFailures
    /\ failures' = failures + 1
    /\ read_jobs[id].file = None \/ read_jobs[id].file_confirmed
    /\ LET next == next_file(read_jobs[id])
       IN  Replies(id, next, Msg("error", id, next.file_num))

(* Its digest cannot be found out: an error, and the same file again. *)
digest_fails(id) ==
    /\ HasNext(id)
    /\ failures < MaxFailures
    /\ failures' = failures + 1
    /\ LET job == read_jobs[id]
       IN  /\ job.file = None \/ (~job.file_confirmed /\ ~job.file_is_waiting)
           /\ Replies(id, [job EXCEPT !.file = 0, !.file_confirmed = FALSE,
                                      !.file_is_waiting = FALSE],
                      Msg("error", id, job.file_num))

handle_read_job(id) ==
    \/ read_past_end(id) \/ send_current_digest(id) \/ read_block(id)
    \/ read_end(id) \/ read_fails(id) \/ digest_fails(id)

-----------------------------------------------------------------------------
(* What the client's user asks for.  A transfer is started when the last   *)
(* one is over for the client.                                             *)

clientOnly == <<upload, failures, broken>>

ClientJobs == IF upload THEN read_jobs ELSE write_jobs

(* The client's jobs become js and m is sent to the host. *)
ClientSends(js, m) ==
    IF upload
    THEN /\ read_jobs' = js /\ to_writer' = Append(to_writer, m)
         /\ UNCHANGED <<write_jobs, to_reader>>
    ELSE /\ write_jobs' = js /\ to_reader' = Append(to_reader, m)
         /\ UNCHANGED <<read_jobs, to_writer>>

(* Leftovers of earlier jobs the new one will find. *)
Leftovers == {f \in Files : disk[<<f, "download">>] # Absent}

(* A write job begins with file num. *)
NewHistory(num) ==
    /\ verdict' = [f \in Files |-> IF f < num THEN "before" ELSE None]
    /\ kept' = [f \in Files |-> Absent]
    /\ done' = FALSE
    /\ tainted' = tainted \cup Leftovers
    /\ stamped' = {}

StartJob(num) ==
    /\ ClientJobs = <<>> /\ jobs < MaxJobs
    /\ jobs' = jobs + 1
    /\ IF upload THEN UNCHANGED historyVars ELSE NewHistory(num)

(* new_read knows its files; new_write is told them by the host. *)
ClientJob(num) == [NewJob(num) EXCEPT !.files = upload]

(* The request for a transfer, to the host.  When an upload is resumed it  *)
(* names the path the client reads from.                                   *)
Request(id, num, resumed) ==
    IF upload THEN [kind |-> "receive", id |-> id, num |-> num, resumed |-> resumed]
    ELSE Msg("send", id, num)

SendFiles ==
    /\ StartJob(0)
    /\ ClientSends(Put(ClientJobs, jobs', ClientJob(0)), Request(jobs', 0, FALSE))
    /\ UNCHANGED <<clientOnly, disk, asked, saved>>

(* load_last_jobs, after a new login: the job waits for its user. *)
AddJob ==
    /\ saved # None
    /\ StartJob(saved)
    /\ LET js == Put(ClientJobs, jobs', [ClientJob(saved) EXCEPT !.is_last_job = TRUE])
       IN  IF upload THEN read_jobs' = js /\ UNCHANGED write_jobs
           ELSE write_jobs' = js /\ UNCHANGED read_jobs
    /\ saved' = None
    /\ UNCHANGED <<clientOnly, to_writer, to_reader, disk, asked>>

ResumeJob(id) ==
    /\ id \in DOMAIN ClientJobs /\ ClientJobs[id].is_last_job
    /\ ClientSends([ClientJobs EXCEPT ![id].is_last_job = FALSE],
                   Request(id, ClientJobs[id].file_num, TRUE))
    /\ UNCHANGED <<clientOnly, disk, asked, saved, jobs, historyVars>>

CancelJob(id) ==
    /\ id \in DOMAIN ClientJobs
    /\ ClientSends(remove_job(id, ClientJobs), Msg("cancel", id, 0))
    /\ disk' = IF upload THEN disk ELSE remove_download_file(write_jobs[id])
    /\ UNCHANGED <<clientOnly, asked, saved, jobs, historyVars>>

Confirmation(id, num, overwrite) ==
    [kind |-> "confirm", id |-> id, num |-> num, overwrite |-> overwrite]

Decided(num, overwrite) ==
    /\ verdict' = [verdict EXCEPT ![num] = IF overwrite THEN "overwrite" ELSE "skip"]
    /\ kept' = [kept EXCEPT ![num] = disk[<<num, "final">>]]
    /\ UNCHANGED <<done, tainted, stamped>>

answer_not_recorded(id, job, num, overwrite) ==
    /\ IF upload
       THEN /\ read_jobs' = [read_jobs EXCEPT ![id] = confirm(job, num, overwrite)]
            /\ UNCHANGED <<write_jobs, to_reader>>
       ELSE /\ write_jobs' = [write_jobs EXCEPT ![id] = job]
            /\ to_reader' = Append(to_reader, Confirmation(id, num, overwrite))
            /\ UNCHANGED read_jobs
    /\ Decided(num, overwrite)

(* The client's answer for file num, recorded in its job; in a download    *)
(* the reader is the host and gets it too.                                 *)
Answer(id, job, num, overwrite) ==
    /\ IF upload
       THEN /\ read_jobs' = [read_jobs EXCEPT ![id] = confirm(job, num, overwrite)]
            /\ UNCHANGED <<write_jobs, to_reader>>
       ELSE /\ write_jobs' = [write_jobs EXCEPT ![id] = confirm(job, num, overwrite)]
            /\ to_reader' = Append(to_reader, Confirmation(id, num, overwrite))
            /\ UNCHANGED read_jobs
    /\ Decided(num, overwrite)

SetConfirmOverrideFile(id, num, overwrite, remember) ==
    /\ <<id, num>> \in asked
    /\ asked' = asked \ {<<id, num>>}
    /\ IF id \in DOMAIN ClientJobs
       THEN Answer(id, IF remember
                       THEN [ClientJobs[id] EXCEPT !.default_overwrite_strategy = overwrite]
                       ELSE ClientJobs[id], num, overwrite)
       ELSE UNCHANGED <<read_jobs, write_jobs, to_reader, historyVars>>
    /\ UNCHANGED <<clientOnly, to_writer, disk, saved, jobs>>

(* In an upload the connection manager has sent the digest of its own      *)
(* file.  The answer remembered is also sent to the host, where no job of  *)
(* the connection has that id.                                             *)
on_digest_upload ==
    /\ upload /\ Receive /\ Head(to_reader).kind = "digest"
    /\ LET m == Head(to_reader)
           strategy == read_jobs[m.id].default_overwrite_strategy
       IN  IF m.id \notin DOMAIN read_jobs
           THEN UNCHANGED <<read_jobs, asked, historyVars>>
           ELSE IF strategy = None
           THEN /\ asked' = asked \cup {<<m.id, m.num>>}
                /\ UNCHANGED <<read_jobs, historyVars>>
           ELSE /\ read_jobs' = [read_jobs EXCEPT ![m.id] = confirm(@, m.num, strategy)]
                /\ Decided(m.num, strategy)
                /\ UNCHANGED asked
    /\ UNCHANGED <<clientOnly, write_jobs, to_writer, disk, saved, jobs>>

(* Done and errors of the writer are shown; the read job stays. *)
on_job_status ==
    /\ upload /\ Receive /\ Head(to_reader).kind \in {"done", "error"}
    /\ UNCHANGED <<readerOnly, failures, read_jobs, to_writer>>

(* The connection is lost: the host's jobs are gone, the client saves the  *)
(* one it has (sync_jobs_status_to_local) and connects again.              *)
reconnect ==
    /\ jobs \in 1..MaxJobs - 1
    /\ read_jobs' = <<>> /\ write_jobs' = <<>>
    /\ to_writer' = <<>> /\ to_reader' = <<>>
    /\ asked' = {}
    /\ saved' = IF ClientJobs = <<>> THEN None
                ELSE ClientJobs[CHOOSE id \in DOMAIN ClientJobs : TRUE].file_num
    /\ UNCHANGED <<upload, disk, jobs, failures, historyVars, broken>>

-----------------------------------------------------------------------------
(* What the writer gets.  A message for a job it has not, or not any more, *)
(* changes nothing.                                                        *)

writerOnly == <<upload, read_jobs, asked, saved, jobs>>

Arrives(kind) == to_writer # <<>> /\ Head(to_writer).kind = kind /\ to_writer' = Tail(to_writer)

Mine == Head(to_writer).id \in DOMAIN write_jobs

ignore ==
    /\ to_writer # <<>> /\ ~Mine /\ Head(to_writer).kind # "receive"
    /\ to_writer' = Tail(to_writer)
    /\ UNCHANGED <<writerOnly, failures, broken, write_jobs, to_reader, disk, historyVars>>

(* NewWrite of the connection manager.  A resumed upload is written where  *)
(* the client reads: this may be the same path, or some other directory.   *)
on_receive ==
    /\ Arrives("receive")
    /\ LET m == Head(to_writer)
       IN  /\ write_jobs' = Put(write_jobs, m.id, [NewJob(m.num) EXCEPT !.files = TRUE])
           /\ disk' \in IF m.resumed THEN {disk} \cup Directories ELSE {disk}
           /\ NewHistory(m.num)
    /\ UNCHANGED <<writerOnly, failures, broken, to_reader>>

on_cancel_write ==
    /\ Arrives("cancel") /\ Mine
    /\ disk' = remove_download_file(write_jobs[Head(to_writer).id])
    /\ write_jobs' = remove_job(Head(to_writer).id, write_jobs)
    /\ UNCHANGED <<writerOnly, failures, broken, to_reader, historyVars>>

on_dir ==
    /\ Arrives("dir") /\ Mine
    /\ write_jobs' = [write_jobs EXCEPT ![Head(to_writer).id].files = TRUE]
    /\ UNCHANGED <<writerOnly, failures, broken, to_reader, disk, historyVars>>

(* The client: a file that is there is overwritten or not as the user once *)
(* said for all, or is asked; one that is not there is wanted.             *)
on_digest ==
    /\ ~upload /\ Arrives("digest") /\ Mine
    /\ LET m == Head(to_writer)
           job == write_jobs[m.id]
           strategy == job.default_overwrite_strategy
           exists == disk[<<m.num, "final">>] # Absent
       IN  IF exists /\ strategy = None
           THEN /\ asked' = asked \cup {<<m.id, m.num>>}
                /\ UNCHANGED <<read_jobs, write_jobs, to_reader, historyVars>>
           ELSE /\ Answer(m.id, job, m.num, ~exists \/ strategy)
                /\ UNCHANGED asked
    /\ UNCHANGED <<clientOnly, disk, saved, jobs>>

(* The connection manager: CheckDigest.  What it decides is not recorded   *)
(* in its own job.                                                         *)
CheckDigest ==
    /\ upload /\ Arrives("digest") /\ Mine
    /\ LET m == Head(to_writer)
       IN  IF disk[<<m.num, "final">>] # Absent
           THEN Reply(m) /\ UNCHANGED historyVars
           ELSE Reply(Confirmation(m.id, m.num, TRUE)) /\ Decided(m.num, TRUE)
    /\ UNCHANGED <<writerOnly, failures, broken, write_jobs, disk>>

(* The writer's own file cannot be looked at: the host of a download gets  *)
(* no answer, the client of an upload an error.                            *)
on_digest_fails ==
    /\ Arrives("digest") /\ Mine
    /\ disk[<<Head(to_writer).num, "final">>] # Absent
    /\ failures < MaxFailures
    /\ failures' = failures + 1
    /\ Reply(Msg("error", Head(to_writer).id, Head(to_writer).num))
    /\ UNCHANGED <<writerOnly, broken, write_jobs, disk, historyVars>>

(* TransferJob::write: the first block of a file ends the file before it,  *)
(* whose .download is renamed, and creates the new one.                    *)
IsFirst(job, num) == job.file_num # num \/ job.file = None

(* An open file goes with its name. *)
moved(job) == IF job.file = <<job.file_num, "download">>
              THEN <<job.file_num, "final">> ELSE job.file

created(job, num) == [modify_time(job) EXCEPT ![<<num, "download">>] = <<>>]

on_block ==
    /\ Arrives("block") /\ Mine
    /\ LET m == Head(to_writer)
           job == write_jobs[m.id]
           first == IsFirst(job, m.num)
           file == IF first THEN <<m.num, "download">> ELSE job.file
           before == IF first THEN created(job, m.num) ELSE disk
       IN  /\ disk' = [before EXCEPT ![file] = @ \o m.data]
           /\ write_jobs' = [write_jobs EXCEPT ![m.id].file_num = m.num, ![m.id].file = file]
           /\ stamped' = IF first THEN set_file_mtime(job) ELSE stamped
    /\ UNCHANGED <<writerOnly, failures, broken, to_reader, verdict, kept, done, tainted>>

(* The errors of write, which the client does not look at and the manager  *)
(* reports, keeping the job.                                               *)
WriteFails ==
    /\ Arrives("block") /\ Mine
    /\ failures < MaxFailures
    /\ failures' = failures + 1
    /\ broken' = TRUE
    /\ Reply(Msg("error", Head(to_writer).id, Head(to_writer).num))
    /\ UNCHANGED <<writerOnly, verdict, kept, done, tainted>>

(* The file before cannot be synced; or the new one cannot be created, and *)
(* the job goes on with the old file under the new number ...              *)
on_block_sync_fails ==
    /\ WriteFails
    /\ LET m == Head(to_writer)
           job == write_jobs[m.id]
       IN  /\ IsFirst(job, m.num) /\ job.file # None
           /\ disk' = modify_time(job)
           /\ write_jobs' = [write_jobs EXCEPT ![m.id].file = moved(job)]
           /\ stamped' = set_file_mtime(job)

on_block_create_fails ==
    /\ WriteFails
    /\ LET m == Head(to_writer)
           job == write_jobs[m.id]
       IN  /\ IsFirst(job, m.num)
           /\ disk' = modify_time(job)
           /\ write_jobs' = [write_jobs EXCEPT ![m.id].file_num = m.num,
                                               ![m.id].file = moved(job)]
           /\ stamped' = set_file_mtime(job)

(* ... or the block cannot be written. *)
on_block_write_fails ==
    /\ WriteFails
    /\ LET m == Head(to_writer)
           job == write_jobs[m.id]
       IN  /\ m.data # <<>>
           /\ IF IsFirst(job, m.num)
              THEN /\ disk' = created(job, m.num)
                   /\ write_jobs' = [write_jobs EXCEPT ![m.id].file_num = m.num,
                                        ![m.id].file = <<m.num, "download">>]
                   /\ stamped' = set_file_mtime(job)
              ELSE UNCHANGED <<disk, write_jobs, stamped>>

on_done ==
    /\ Arrives("done") /\ Mine
    /\ LET id == Head(to_writer).id
       IN  /\ disk' = modify_time(write_jobs[id])
           /\ write_jobs' = remove_job(id, write_jobs)
           /\ stamped' = set_file_mtime(write_jobs[id])
    /\ Reply(Head(to_writer))
    /\ done' = TRUE
    /\ UNCHANGED <<writerOnly, failures, broken, verdict, kept, tainted>>

error_renames ==
    /\ Arrives("error") /\ Mine
    /\ LET id == Head(to_writer).id
       IN  /\ disk' = modify_time(write_jobs[id])
           /\ write_jobs' = remove_job(id, write_jobs)
           /\ stamped' = set_file_mtime(write_jobs[id])
    /\ Reply(Head(to_writer))
    /\ UNCHANGED <<writerOnly, failures, broken, verdict, kept, done, tainted>>

on_error ==
    /\ Arrives("error") /\ Mine
    /\ write_jobs' = remove_job(Head(to_writer).id, write_jobs)
    /\ Reply(Head(to_writer))
    /\ UNCHANGED <<writerOnly, failures, broken, disk, historyVars>>

-----------------------------------------------------------------------------
ReaderReceives ==
    \/ on_send \/ on_send_fails \/ on_cancel \/ on_send_confirm
    \/ on_digest_upload \/ on_job_status

WriterReceives ==
    \/ ignore \/ on_receive \/ on_cancel_write \/ on_dir
    \/ on_digest \/ CheckDigest \/ on_digest_fails \/ on_block \/ on_done \/ on_error
    \/ on_block_sync_fails \/ on_block_create_fails \/ on_block_write_fails

UserStep ==
    \/ SendFiles \/ AddJob
    \/ \E id \in 1..MaxJobs : ResumeJob(id) \/ CancelJob(id)
    \/ \E question \in asked, overwrite, remember \in BOOLEAN :
          SetConfirmOverrideFile(question[1], question[2], overwrite, remember)

Next ==
    \/ ReaderReceives \/ \E id \in 1..MaxJobs : handle_read_job(id)
    \/ WriterReceives
    \/ UserStep
    \/ reconnect

(* The loops of the two sides run and their timers tick; no user has to do  *)
(* or to answer anything, and nothing has to fail.                         *)
Fairness ==
    /\ WF_vars(ReaderReceives) /\ WF_vars(WriterReceives)
    /\ \A id \in 1..MaxJobs : WF_vars(handle_read_job(id))

Spec == Init /\ [][Next]_vars /\ Fairness

-----------------------------------------------------------------------------
(* The file a user decided to keep has the contents it had when the        *)
(* question was answered, to the end of the job: whatever the disks fail   *)
(* at and whichever files were taken before.  In a download this holds     *)
(* whatever an earlier transfer left behind; the connection manager, which *)
(* does not hear of the answer, renames a .download left behind on to the  *)
(* file.                                                                   *)
KeptContents ==
    \A f \in Files :
        (verdict[f] = "skip" /\ ~(upload /\ f \in tainted)) => disk[<<f, "final">>] = kept[f]

(* Nor is its time of modification set, by which the next transfer tells   *)
(* the two files apart; except in an upload by a job of the manager that   *)
(* has opened no file yet, and stands at the file it began with whatever   *)
(* was answered for it: its first block sets the time of that file.        *)
KeptFilesUntouched ==
    /\ KeptContents
    /\ \A s \in stamped : upload /\ ~s[2]

(* A job that is done has dealt with every file from where it started: it  *)
(* was kept, or it is there, whole, and nothing of it is left as .download *)
(* (unless writing it failed, which ends no job).                          *)
DoneMeansWhole ==
    (done /\ ~broken) =>
        \A f \in Files :
            \/ verdict[f] \in {"before", "skip"}
            \/ /\ verdict[f] = "overwrite"
               /\ disk[<<f, "final">>] = Whole(f)
               /\ disk[<<f, "download">>] = Absent

(* No file gets its name before it is whole, also when the transfer is     *)
(* cancelled, fails or is cut off; except where an earlier transfer has    *)
(* left a .download behind, which the first block renames.                 *)
NoTruncatedFile ==
    broken \/ \A f \in Files \ tainted :
                 disk[<<f, "final">>] \in {Absent, Old, Whole(f)}

(* A read job comes to its end, unless it waits to be resumed, a question  *)
(* is open, or reading or writing has failed.                              *)
TransferEnds ==
    \A id \in 1..MaxJobs :
        Runs(id) ~> (id \notin DOMAIN read_jobs \/ asked # {} \/ failures > 0)
=============================================================================
