---------------------- MODULE FileTransferFlow_proofs ----------------------
(***************************************************************************)
(* Proofs about what is under way between the two jobs of a transfer, for  *)
(* any number of files, blocks, transfers and failures, in both            *)
(* directions: the messages of a job follow each other without a gap, so   *)
(* no file is cut short and done means that all files are there, whole.    *)
(* The effects of the actions (SendsDigest to Reconnects) and the          *)
(* invariant Inv are those of FileTransfer_proofs.                         *)
(***************************************************************************)
EXTENDS FileTransfer_proofs

-----------------------------------------------------------------------------
(* How far reader and writer are, and what is between them.                *)

(* A place is a file and the number of its blocks dealt with.  Where what  *)
(* message m is about begins and ends; a block without data ends its file. *)
Begin(m) ==
    IF m.kind # "block" THEN <<m.num, 0>>
    ELSE IF m.data = <<>> THEN <<m.num, Size[m.num]>> ELSE <<m.num, m.data[1][2] - 1>>

End(m) ==
    IF m.kind # "block" THEN <<m.num, 0>>
    ELSE IF m.data = <<>> THEN <<m.num + 1, 0>> ELSE <<m.num, m.data[1][2]>>

(* Where a read job goes on, if there is one ... *)
PlaceOf(job) == <<job.file_num, IF job.file_confirmed THEN job.file ELSE 0>>

ReaderAt(js, i) == {PlaceOf(js[k]) : k \in DOMAIN js \cap {i}}

(* ... and what a write job expects, when all of its open file is content: *)
(* of a file all of which has been written it is not known whether its end *)
(* has been seen.                                                          *)
WriterAt(job, content) ==
    IF job.file = None THEN {<<job.file_num, 0>>}
    ELSE {<<job.file_num, Len(content)>>}
         \cup {<<m, 0>> : m \in {k \in {job.file_num + 1} : Len(content) = Size[job.file_num]}}

WriterOf(d, js, i) == WriterAt(js[i], d[<<js[i].file_num, "download">>])

(* Places with nothing but files to be kept between them. *)
Between(f, a, b) == (a[1] <= f /\ f < b[1]) \/ (b[1] <= f /\ f < a[1])

Meets(v, a, b) ==
    \/ a = b
    \/ /\ a[1] \in Nat /\ b[1] \in Nat /\ a[2] = 0 /\ b[2] = 0
       /\ \A f \in Files : Between(f, a, b) => v[f] = "skip"

IsEvent(m, i) == m.kind \in {"digest", "block", "done"} /\ m.id = i
IsError(m, i) == m.kind = "error" /\ m.id = i

(* Of job i there is no error in queue q before position r; what is next   *)
(* to be dealt with when all before r is, the writer being at one of As,   *)
(* is place b.                                                             *)
NoError(q, r, i) == \A s \in At(q) : s < r => ~IsError(q[s], i)
NoEvent(q, p, r, i) == \A s \in At(q) : p < s /\ s < r => ~IsEvent(q[s], i)

NextIs(i, q, v, As, r, b) ==
    \/ /\ \E a \in As : Meets(v, a, b)
       /\ NoEvent(q, 0, r, i)
    \/ \E p \in At(q) : /\ p < r /\ IsEvent(q[p], i) /\ NoEvent(q, p, r, i)
                        /\ Meets(v, End(q[p]), b)

(* What is under way of job i is next after the places As of the writer,   *)
(* in order and without a gap, up to the places Bs of the reader or to an  *)
(* error, which ends the job.                                              *)
Stream(i, q, v, As, Bs) ==
    /\ \A r \in At(q) : IsEvent(q[r], i) /\ NoError(q, r, i) =>
          NextIs(i, q, v, As, r, Begin(q[r]))
    /\ NoError(q, Len(q) + 1, i) => \A b \in Bs : NextIs(i, q, v, As, Len(q) + 1, b)

StreamInv ==
    \A i \in DOMAIN write_jobs :
        Stream(i, to_writer, verdict, WriterOf(disk, write_jobs, i), ReaderAt(read_jobs, i))

(* The blocks of a file, and how far one that is not confirmed was read. *)
Fits(m) ==
    m.kind = "block" =>
        m.data = <<>> \/ \E k \in 1..Size[m.num] : m.data = << <<m.num, k>> >>

DataInv ==
    /\ \A p \in InW : Fits(W(p))
    /\ \A i \in DOMAIN read_jobs :
          read_jobs[i].file # None /\ ~read_jobs[i].file_confirmed => read_jobs[i].file = 0

(* Done comes after the last file. *)
LastInv ==
    /\ \A p \in InW : W(p).kind = "done" => W(p).num \notin Files /\ W(p).id \notin DOMAIN read_jobs

(* While a question is open nothing else of its job is under way, and done *)
(* is the last of it.                                                      *)
Busy(m, i) == m.kind \in {"digest", "block", "done", "error"} /\ m.id = i

QuietInv ==
    /\ \A p, r \in InW : W(p).kind \in {"digest", "done"} /\ Busy(W(r), W(p).id) => r <= p
    /\ \A p \in InR, r \in InW : IsToken(p, R(p).id) => ~Busy(W(r), R(p).id)
    /\ \A q \in asked, r \in InW : ~Busy(W(r), q[1])

(* A job the other side has not heard of is where that will begin: entry i *)
(* of js, and what is under way of it in q, at file n.                     *)
BeginsAt(q, js, i, n) ==
    /\ i \in DOMAIN js /\ NoError(q, Len(q) + 1, i) => js[i].file_num = n
    /\ \A r \in At(q) : IsEvent(q[r], i) /\ NoError(q, r, i) => q[r].num = n

UploadStart ==
    \A p \in InW : W(p).kind = "receive" => BeginsAt(to_writer, read_jobs, W(p).id, W(p).num)

DownloadStart ==
    /\ \A i \in DOMAIN write_jobs : DownloadFresh(i) => write_jobs[i].file = None
    /\ \A p \in InR : R(p).kind = "send" /\ R(p).id \in DOMAIN write_jobs =>
          write_jobs[R(p).id].file_num = R(p).num

(* The client is told the files of a download before it gets them. *)
FilesFirst(q, D, i) ==
    /\ i \in D => \E p \in At(q) : q[p].kind = "dir" /\ q[p].id = i
    /\ \A p \in At(q) : q[p].kind = "block" /\ q[p].id = i =>
          \E r \in At(q) : r < p /\ q[r].kind = "dir" /\ q[r].id = i

DownloadFiles ==
    \A i \in DOMAIN write_jobs :
        ~write_jobs[i].files => FilesFirst(to_writer, DOMAIN read_jobs, i)

StartInv ==
    /\ upload => UploadStart /\ \A i \in DOMAIN write_jobs : write_jobs[i].files
    /\ ~upload => DownloadStart /\ DownloadFiles

-----------------------------------------------------------------------------
(* What is on the writer's disk.                                           *)

Dealt(f) ==
    \/ verdict[f] \in {"before", "skip"}
    \/ /\ verdict[f] = "overwrite"
       /\ disk[<<f, "final">>] = Whole(f) /\ disk[<<f, "download">>] = Absent

(* The first of the blocks of f. *)
Begun(f, s) == Len(s) <= Size[f] /\ \A k \in 1..Len(s) : s[k] = <<f, k>>

DiskInv ==
    \A i \in DOMAIN write_jobs :
        LET job == write_jobs[i]
        IN  /\ job.file # None => /\ job.file_num \in Files /\ job.file = <<job.file_num, "download">>
                                  /\ job.files
                                  /\ Begun(job.file_num, disk[job.file])
            /\ \A f \in Files \ tainted :
                  disk[<<f, "download">>] # Absent => job.file = <<f, "download">>
            /\ \A f \in Files : f < job.file_num => Dealt(f)

FinalInv == \A f \in Files \ tainted : disk[<<f, "final">>] \in {Absent, Old, Whole(f)}

DoneInv == done => (\A k : ~Owner(k)) /\ \A f \in Files : Dealt(f)

WholeInv == StreamInv /\ DiskInv /\ FinalInv /\ DoneInv

-----------------------------------------------------------------------------
(* Places and what is between them, for any queue and verdicts.            *)

(* Meets is an equivalence. *)
LEMMA MeetsItself ==
    ASSUME NEW v, NEW a
    PROVE  Meets(v, a, a)
BY DEF Meets

(* See MeetsItself. *)
LEMMA MeetsBack ==
    ASSUME NEW v, NEW a, NEW b, Meets(v, a, b)
    PROVE  Meets(v, b, a)
BY DEF Meets, Between

(* See MeetsItself. *)
LEMMA MeetsOn ==
    ASSUME NEW v, NEW a, NEW b, NEW c, Meets(v, a, b), Meets(v, b, c)
    PROVE  Meets(v, a, c)
<1>1. CASE a = b \/ b = c
    BY <1>1
<1>2. CASE a # b /\ b # c
    <2>1. /\ a[1] \in Nat /\ b[1] \in Nat /\ c[1] \in Nat /\ a[2] = 0 /\ c[2] = 0
          /\ \A f \in Files : Between(f, a, b) \/ Between(f, b, c) => v[f] = "skip"
        BY <1>2 DEF Meets
    <2>2. \A f \in Files : Between(f, a, c) => Between(f, a, b) \/ Between(f, b, c)
        BY <2>1 DEF Files, Between
    <2>. QED BY <2>1, <2>2 DEF Meets
<1>. QED BY <1>1, <1>2

(* What was to be skipped still is. *)
LEMMA MeetsStill ==
    ASSUME NEW v, NEW v2, \A f \in Files : v[f] = "skip" => v2[f] = "skip",
           NEW a, NEW b, Meets(v, a, b)
    PROVE  Meets(v2, a, b)
BY DEF Meets

(* A file to be skipped is no distance. *)
LEMMA MeetsSkipped ==
    ASSUME NEW v, NEW n \in Files, v[n] = "skip"
    PROVE  Meets(v, <<n, 0>>, <<n + 1, 0>>)
BY FileAssumption DEF Meets, Between, Files

(* A file that is not to be skipped is one. *)
LEMMA MeetsBound ==
    ASSUME NEW v, NEW a, NEW b, Meets(v, a, b), a # b, NEW f \in Files, v[f] # "skip"
    PROVE  /\ a[1] \in Nat /\ b[1] \in Nat /\ a[2] = 0 /\ b[2] = 0
           /\ ~(a[1] <= f /\ f < b[1]) /\ ~(b[1] <= f /\ f < a[1])
BY DEF Meets, Between

(* What is next when the writer moves to a place that meets where it was,  *)
(* or the reader does.                                                     *)
LEMMA NextIsMoved ==
    ASSUME NEW i, NEW q, NEW v, NEW v2, NEW As, NEW As2, NEW r, NEW b, NEW b2,
           NextIs(i, q, v, As, r, b),
           \A f \in Files : v[f] = "skip" => v2[f] = "skip",
           \A a \in As : \E a2 \in As2 : Meets(v2, a2, a),
           Meets(v2, b, b2)
    PROVE  NextIs(i, q, v2, As2, r, b2)
<1>1. CASE (\E a \in As : Meets(v, a, b)) /\ NoEvent(q, 0, r, i)
    <2>1. PICK a \in As : Meets(v, a, b)
        BY <1>1
    <2>2. PICK a2 \in As2 : Meets(v2, a2, a)
        BY <2>1
    <2>3. Meets(v2, a2, b2)
        BY <2>1, <2>2, MeetsStill, MeetsOn
    <2>. QED BY <1>1, <2>3 DEF NextIs
<1>2. CASE \E p \in At(q) : /\ p < r /\ IsEvent(q[p], i) /\ NoEvent(q, p, r, i)
                            /\ Meets(v, End(q[p]), b)
    <2>1. PICK p \in At(q) : /\ p < r /\ IsEvent(q[p], i) /\ NoEvent(q, p, r, i)
                             /\ Meets(v, End(q[p]), b)
        BY <1>2
    <2>2. Meets(v2, End(q[p]), b2)
        BY <2>1, MeetsStill, MeetsOn
    <2>. QED BY <2>1, <2>2 DEF NextIs
<1>. QED BY <1>1, <1>2 DEF NextIs

(* A stream when reader or writer move to places that meet where they were. *)
LEMMA StreamMoved ==
    ASSUME NEW i, NEW q, NEW v, NEW v2, NEW As, NEW As2, NEW Bs, NEW Bs2,
           Stream(i, q, v, As, Bs),
           \A f \in Files : v[f] = "skip" => v2[f] = "skip",
           \A a \in As : \E a2 \in As2 : Meets(v2, a2, a),
           \A b2 \in Bs2 : \E b \in Bs : Meets(v2, b, b2)
    PROVE  Stream(i, q, v2, As2, Bs2)
<1>1. ASSUME NEW r \in At(q), IsEvent(q[r], i), NoError(q, r, i)
      PROVE  NextIs(i, q, v2, As2, r, Begin(q[r]))
    BY <1>1, NextIsMoved, MeetsItself DEF Stream
<1>2. ASSUME NoError(q, Len(q) + 1, i), NEW b2 \in Bs2
      PROVE  NextIs(i, q, v2, As2, Len(q) + 1, b2)
    <2>1. PICK b \in Bs : Meets(v2, b, b2)
        OBVIOUS
    <2>. QED BY <1>2, <2>1, NextIsMoved DEF Stream
<1>. QED BY <1>1, <1>2 DEF Stream

(* A queue that has got a message. *)
LEMMA PushedLength ==
    ASSUME NEW q \in Seq(Messages), NEW q2 \in Seq(Messages), NEW kind, NEW k, NEW n,
           Pushes(q, q2, kind, k, n)
    PROVE  /\ Len(q) \in Nat /\ Len(q2) = Len(q) + 1 /\ Len(q) + 1 \in At(q2)
           /\ \A p \in At(q) : p \in Nat /\ p < Len(q) + 1 /\ p \in At(q2) /\ q2[p] = q[p]
           /\ \A p \in At(q2) : p \in Nat /\ p < Len(q2) + 1
           /\ \A p \in At(q2) : p # Len(q) + 1 => p \in At(q)
BY DEF Pushes, At

(* What is next before the new message is what was. *)
LEMMA NextIsPushed ==
    ASSUME NEW q \in Seq(Messages), NEW q2 \in Seq(Messages), NEW kind, NEW k, NEW n,
           Pushes(q, q2, kind, k, n), NEW i, NEW v, NEW As, NEW b, NEW r \in Nat, r <= Len(q) + 1
    PROVE  /\ NextIs(i, q, v, As, r, b) => NextIs(i, q2, v, As, r, b)
           /\ NoError(q2, r, i) => NoError(q, r, i)
<1>1. /\ Len(q) \in Nat
      /\ \A p \in At(q) : p \in Nat /\ p < Len(q) + 1 /\ p \in At(q2) /\ q2[p] = q[p]
      /\ \A p \in At(q2) : p \in Nat /\ (p < r => p \in At(q) /\ q2[p] = q[p])
    BY PushedLength
<1>2. \A p : NoEvent(q, p, r, i) => NoEvent(q2, p, r, i)
    BY <1>1 DEF NoEvent
<1>. QED BY <1>1, <1>2 DEF NextIs, NoError

(* What is next after it, if it is of the same job ... *)
LEMMA NextIsEvent ==
    ASSUME NEW q \in Seq(Messages), NEW q2 \in Seq(Messages), NEW kind, NEW k, NEW n,
           Pushes(q, q2, kind, k, n), NEW i, NEW v, NEW As, NEW b,
           IsEvent(q2[Len(q) + 1], i), Meets(v, End(q2[Len(q) + 1]), b)
    PROVE  NextIs(i, q2, v, As, Len(q2) + 1, b)
<1>1. Len(q) \in Nat /\ Len(q2) = Len(q) + 1 /\ Len(q) + 1 \in At(q2) /\ \A p \in At(q2) : p \in Nat
    BY PushedLength
<1>2. NoEvent(q2, Len(q) + 1, Len(q2) + 1, i)
    BY <1>1 DEF NoEvent
<1>. QED BY <1>1, <1>2 DEF NextIs

(* ... and if it is not. *)
LEMMA NextIsAside ==
    ASSUME NEW q \in Seq(Messages), NEW q2 \in Seq(Messages), NEW kind, NEW k, NEW n,
           Pushes(q, q2, kind, k, n), NEW i, NEW v, NEW As, NEW b,
           ~IsEvent(q2[Len(q) + 1], i), NextIs(i, q, v, As, Len(q) + 1, b)
    PROVE  NextIs(i, q2, v, As, Len(q2) + 1, b)
<1>1. /\ Len(q) \in Nat /\ Len(q2) = Len(q) + 1
      /\ \A p \in At(q) : p \in Nat /\ p < Len(q) + 1 /\ p \in At(q2) /\ q2[p] = q[p]
      /\ \A p \in At(q2) : p \in Nat /\ (p # Len(q) + 1 => p \in At(q))
    BY PushedLength
<1>2. \A p : NoEvent(q, p, Len(q) + 1, i) => NoEvent(q2, p, Len(q2) + 1, i)
    BY <1>1 DEF NoEvent
<1>. QED BY <1>1, <1>2 DEF NextIs

(* The part of a stream that was there before a message was put at its end. *)
LEMMA StreamBefore ==
    ASSUME NEW q \in Seq(Messages), NEW q2 \in Seq(Messages), NEW kind, NEW k, NEW n,
           Pushes(q, q2, kind, k, n), NEW i, NEW v, NEW As, NEW Bs, Stream(i, q, v, As, Bs),
           NEW r \in At(q2), r # Len(q) + 1, IsEvent(q2[r], i), NoError(q2, r, i)
    PROVE  NextIs(i, q2, v, As, r, Begin(q2[r]))
<1>1. r \in Nat /\ r <= Len(q) + 1 /\ r \in At(q) /\ q2[r] = q[r]
    BY PushedLength
<1>. QED BY <1>1, NextIsPushed DEF Stream

(* The stream of job i goes on when a message of another kind, or of       *)
(* another job, is put at its end ...                                      *)
LEMMA StreamAside ==
    ASSUME NEW q \in Seq(Messages), NEW q2 \in Seq(Messages), NEW kind, NEW k, NEW n,
           Pushes(q, q2, kind, k, n), NEW i, NEW v, NEW As, NEW Bs, Stream(i, q, v, As, Bs),
           ~IsEvent(q2[Len(q) + 1], i)
    PROVE  Stream(i, q2, v, As, Bs)
<1>1. ASSUME NEW r \in At(q2), IsEvent(q2[r], i), NoError(q2, r, i)
      PROVE  NextIs(i, q2, v, As, r, Begin(q2[r]))
    BY <1>1, StreamBefore
<1>2. ASSUME NoError(q2, Len(q2) + 1, i), NEW b \in Bs
      PROVE  NextIs(i, q2, v, As, Len(q2) + 1, b)
    <2>1. NoError(q, Len(q) + 1, i)
        BY <1>2, PushedLength DEF NoError
    <2>. QED BY <2>1, NextIsAside DEF Stream
<1>. QED BY <1>1, <1>2 DEF Stream

(* ... when what comes next is ... *)
LEMMA StreamEvent ==
    ASSUME NEW q \in Seq(Messages), NEW q2 \in Seq(Messages), NEW kind, NEW k, NEW n,
           Pushes(q, q2, kind, k, n), NEW i, NEW v, NEW As, NEW Bs, Stream(i, q, v, As, Bs),
           IsEvent(q2[Len(q) + 1], i), NEW b \in Bs, Meets(v, b, Begin(q2[Len(q) + 1])),
           NEW Bs2, \A b2 \in Bs2 : Meets(v, End(q2[Len(q) + 1]), b2)
    PROVE  Stream(i, q2, v, As, Bs2)
<1>1. ASSUME NEW r \in At(q2), IsEvent(q2[r], i), NoError(q2, r, i)
      PROVE  NextIs(i, q2, v, As, r, Begin(q2[r]))
    <2>1. CASE r # Len(q) + 1
        BY <1>1, <2>1, StreamBefore
    <2>2. CASE r = Len(q) + 1
        <3>1. Len(q) \in Nat /\ Len(q) + 1 \in Nat /\ Len(q) + 1 <= Len(q) + 1
            BY PushedLength
        <3>2. NoError(q, Len(q) + 1, i)
            BY <1>1, <2>2, <3>1, NextIsPushed
        <3>3. NextIs(i, q, v, As, Len(q) + 1, b)
            BY <3>2 DEF Stream
        <3>4. NextIs(i, q, v, As, Len(q) + 1, Begin(q2[Len(q) + 1]))
            BY <3>3, NextIsMoved, MeetsItself
        <3>. QED BY <2>2, <3>1, <3>4, NextIsPushed
    <2>. QED BY <2>1, <2>2
<1>2. ASSUME NEW b2 \in Bs2
      PROVE  NextIs(i, q2, v, As, Len(q2) + 1, b2)
    BY NextIsEvent
<1>. QED BY <1>1, <1>2 DEF Stream

(* ... and when an error is, wherever the reader goes then. *)
LEMMA StreamError ==
    ASSUME NEW q \in Seq(Messages), NEW q2 \in Seq(Messages), NEW kind, NEW k, NEW n,
           Pushes(q, q2, kind, k, n), NEW i, NEW v, NEW As, NEW Bs, Stream(i, q, v, As, Bs),
           IsError(q2[Len(q) + 1], i), NEW Bs2
    PROVE  Stream(i, q2, v, As, Bs2)
<1>1. ASSUME NEW r \in At(q2), IsEvent(q2[r], i), NoError(q2, r, i)
      PROVE  NextIs(i, q2, v, As, r, Begin(q2[r]))
    BY <1>1, StreamBefore DEF IsEvent, IsError
<1>2. ~NoError(q2, Len(q2) + 1, i)
    BY PushedLength DEF NoError
<1>. QED BY <1>1, <1>2 DEF Stream

(* A queue whose first message was taken. *)
LEMMA PoppedLength ==
    ASSUME NEW q \in Seq(Messages), NEW q2 \in Seq(Messages), Pops(q, q2)
    PROVE  /\ Len(q) \in Nat /\ Len(q2) + 1 = Len(q) /\ Len(q2) \in Nat /\ 1 \in At(q)
           /\ \A p \in At(q) : p \in Nat /\ p >= 1
           /\ \A p \in At(q2) : p \in Nat /\ p >= 1 /\ p + 1 \in At(q) /\ q2[p] = q[p + 1]
           /\ \A p \in At(q) : p # 1 => p - 1 \in At(q2) /\ q2[p - 1] = q[p]
<1>1. /\ Len(q) \in Nat /\ Len(q2) \in Nat /\ 1 \in At(q)
      /\ \A p \in At(q) : p \in Nat /\ p >= 1
      /\ \A p \in At(q2) : p \in Nat /\ p >= 1 /\ p + 1 \in At(q) /\ q2[p] = q[p + 1]
      /\ \A p \in At(q) : p # 1 => p - 1 \in At(q2) /\ q2[p - 1] = q[p]
    BY DEF Pops, At
<1>2. /\ Len(q) >= 1
      /\ Len(q) # 1 => Len(q) - 1 <= Len(q2)
      /\ Len(q2) >= 1 => Len(q2) + 1 <= Len(q)
    BY <1>1 DEF At
<1>3. Len(q2) + 1 = Len(q)
    <2>1. Len(q) \in Nat /\ Len(q2) \in Nat
        BY <1>1
    <2>. QED BY <1>2, <2>1
<1>. QED BY <1>1, <1>3

(* What is next after the first message. *)
LEMMA NextIsPopped ==
    ASSUME NEW q \in Seq(Messages), NEW q2 \in Seq(Messages), Pops(q, q2),
           NEW i, NEW v, NEW As, NEW As2, NEW b, NEW r \in Nat, NextIs(i, q, v, As, r + 1, b),
           \/ ~IsEvent(q[1], i) /\ As2 = As
           \/ IsEvent(q[1], i) /\ End(q[1]) \in As2 /\ r >= 1
    PROVE  NextIs(i, q2, v, As2, r, b)
<1>1. /\ \A p \in At(q) : p \in Nat /\ p >= 1
      /\ \A p \in At(q2) : p \in Nat /\ p >= 1 /\ p + 1 \in At(q) /\ q2[p] = q[p + 1]
      /\ \A p \in At(q) : p # 1 => p - 1 \in At(q2) /\ q2[p - 1] = q[p]
      /\ 1 \in At(q)
    BY PoppedLength
<1>2. \A p \in Nat : NoEvent(q, p, r + 1, i) => NoEvent(q2, p - 1, r, i)
    BY <1>1 DEF NoEvent
<1>3. NoEvent(q, 0, r + 1, i) => NoEvent(q2, 0, r, i)
    BY <1>1 DEF NoEvent
<1>4. CASE \E p \in At(q) : /\ p < r + 1 /\ IsEvent(q[p], i) /\ NoEvent(q, p, r + 1, i)
                            /\ Meets(v, End(q[p]), b)
    <2>1. PICK p \in At(q) : /\ p < r + 1 /\ IsEvent(q[p], i) /\ NoEvent(q, p, r + 1, i)
                             /\ Meets(v, End(q[p]), b)
        BY <1>4
    <2>2. CASE p = 1
        <3>1. End(q[1]) \in As2
            BY <2>1, <2>2
        <3>2. NoEvent(q2, 0, r, i)
            BY <1>2, <2>1, <2>2
        <3>. QED BY <2>1, <2>2, <3>1, <3>2 DEF NextIs
    <2>3. CASE p # 1
        <3>1. p - 1 \in At(q2) /\ q2[p - 1] = q[p] /\ p - 1 < r
            BY <1>1, <2>1, <2>3
        <3>2. NoEvent(q2, p - 1, r, i)
            BY <1>1, <1>2, <2>1
        <3>. QED BY <2>1, <3>1, <3>2 DEF NextIs
    <2>. QED BY <2>2, <2>3
<1>5. CASE (\E a \in As : Meets(v, a, b)) /\ NoEvent(q, 0, r + 1, i)
    <2>1. CASE ~IsEvent(q[1], i) /\ As2 = As
        BY <1>3, <1>5, <2>1 DEF NextIs
    <2>2. CASE IsEvent(q[1], i) /\ r >= 1
        <3>1. 1 \in At(q) /\ 0 < 1 /\ 1 < r + 1
            BY <1>1, <2>2
        <3>. QED BY <1>5, <2>2, <3>1, Zenon DEF NoEvent
    <2>. QED BY <2>1, <2>2
<1>. QED BY <1>4, <1>5 DEF NextIs

(* No error of the job was taken, so where there is none now there was     *)
(* none.                                                                   *)
LEMMA NoErrorPopped ==
    ASSUME NEW q \in Seq(Messages), NEW q2 \in Seq(Messages), Pops(q, q2), NEW i, NEW r \in Nat,
           NoError(q2, r, i), ~IsError(q[1], i)
    PROVE  NoError(q, r + 1, i)
<1>1. \A p \in At(q) : p \in Nat /\ (p # 1 => p - 1 \in At(q2) /\ q2[p - 1] = q[p])
    BY PoppedLength
<1>. QED BY <1>1 DEF NoError

(* The rest of a stream whose first message was taken ... *)
LEMMA StreamTaken ==
    ASSUME NEW q \in Seq(Messages), NEW q2 \in Seq(Messages), Pops(q, q2),
           NEW i, NEW v, NEW As, NEW As2, NEW Bs, Stream(i, q, v, As, Bs), ~IsError(q[1], i),
           \/ ~IsEvent(q[1], i) /\ As2 = As
           \/ IsEvent(q[1], i) /\ End(q[1]) \in As2
    PROVE  Stream(i, q2, v, As2, Bs)
<1>1. /\ Len(q2) + 1 = Len(q) /\ Len(q2) \in Nat
      /\ \A p \in At(q2) : p \in Nat /\ p >= 1 /\ p + 1 \in At(q) /\ q2[p] = q[p + 1]
    BY PoppedLength
<1>2. ASSUME NEW r \in At(q2), IsEvent(q2[r], i), NoError(q2, r, i)
      PROVE  NextIs(i, q2, v, As2, r, Begin(q2[r]))
    <2>1. r \in Nat /\ r >= 1 /\ r + 1 \in At(q) /\ q2[r] = q[r + 1]
        BY <1>1
    <2>2. NextIs(i, q, v, As, r + 1, Begin(q2[r]))
        BY <1>2, <2>1, NoErrorPopped DEF Stream
    <2>. QED BY <2>1, <2>2, NextIsPopped
<1>3. ASSUME NoError(q2, Len(q2) + 1, i), NEW b \in Bs
      PROVE  NextIs(i, q2, v, As2, Len(q2) + 1, b)
    <2>1. Len(q2) + 1 \in Nat /\ Len(q2) + 1 >= 1 /\ (Len(q2) + 1) + 1 = Len(q) + 1
        BY <1>1
    <2>2. NoError(q, Len(q) + 1, i)
        BY <1>3, <2>1, NoErrorPopped
    <2>3. NextIs(i, q, v, As, (Len(q2) + 1) + 1, b)
        BY <2>1, <2>2 DEF Stream
    <2>. QED BY <2>1, <2>3, NextIsPopped
<1>. QED BY <1>2, <1>3 DEF Stream

(* ... which was about the place the writer is at. *)
LEMMA StreamHead ==
    ASSUME NEW q \in Seq(Messages), 1 \in At(q), NEW i, NEW v, NEW As, NEW Bs,
           Stream(i, q, v, As, Bs), IsEvent(q[1], i)
    PROVE  \E a \in As : Meets(v, a, Begin(q[1]))
<1>1. \A p \in At(q) : p \in Nat /\ ~(p < 1)
    BY DEF At
<1>2. NoError(q, 1, i)
    BY <1>1 DEF NoError
<1>3. NextIs(i, q, v, As, 1, Begin(q[1]))
    BY <1>2 DEF Stream
<1>. QED BY <1>1, <1>3 DEF NextIs

(* When nothing of a job is under way the reader is where the writer is. *)
LEMMA StreamIdle ==
    ASSUME NEW q \in Seq(Messages), NEW i, NEW v, NEW As, NEW Bs, Stream(i, q, v, As, Bs),
           \A p \in At(q) : ~IsEvent(q[p], i) /\ ~IsError(q[p], i), NEW b \in Bs
    PROVE  \E a \in As : Meets(v, a, b)
<1>1. NoError(q, Len(q) + 1, i)
    BY DEF NoError
<1>2. NextIs(i, q, v, As, Len(q) + 1, b)
    BY <1>1 DEF Stream
<1>. QED BY <1>2 DEF NextIs

(* A job nothing of which is under way. *)
LEMMA StreamEmpty ==
    ASSUME NEW q \in Seq(Messages), NEW i, NEW v, NEW As, NEW Bs,
           \A p \in At(q) : ~IsEvent(q[p], i), \A b \in Bs : \E a \in As : Meets(v, a, b)
    PROVE  Stream(i, q, v, As, Bs)
<1>1. \A r : NoEvent(q, 0, r, i)
    BY DEF NoEvent
<1>. QED BY <1>1 DEF Stream, NextIs

(* A job of which there is at most one message, about the place where      *)
(* writer and reader begin.                                                *)
LEMMA StreamBegun ==
    ASSUME NEW q \in Seq(Messages), NEW i, NEW v, NEW a,
           \A p, r \in At(q) : IsEvent(q[p], i) /\ IsEvent(q[r], i) => p = r,
           \A r \in At(q) : IsEvent(q[r], i) /\ NoError(q, r, i) =>
               Begin(q[r]) = a /\ End(q[r]) = a,
           NEW Bs, NoError(q, Len(q) + 1, i) => \A b \in Bs : b = a
    PROVE  Stream(i, q, v, {a}, Bs)
<1>0. Len(q) \in Nat /\ \A p \in At(q) : p \in Nat /\ 0 < p /\ p < Len(q) + 1
    BY DEF At
<1>1. ASSUME NEW r \in At(q), IsEvent(q[r], i), NoError(q, r, i)
      PROVE  NextIs(i, q, v, {a}, r, Begin(q[r]))
    <2>1. NoEvent(q, 0, r, i)
        BY <1>0, <1>1 DEF NoEvent
    <2>. QED BY <1>1, <2>1, MeetsItself DEF NextIs
<1>2. ASSUME NoError(q, Len(q) + 1, i), NEW b \in Bs
      PROVE  NextIs(i, q, v, {a}, Len(q) + 1, b)
    <2>1. CASE \A p \in At(q) : ~IsEvent(q[p], i)
        BY <1>2, <2>1, MeetsItself DEF NextIs, NoEvent
    <2>2. CASE \E p \in At(q) : IsEvent(q[p], i)
        <3>1. PICK p \in At(q) : IsEvent(q[p], i)
            BY <2>2
        <3>2. NoError(q, p, i) /\ NoEvent(q, p, Len(q) + 1, i) /\ p < Len(q) + 1
            BY <1>0, <1>2, <3>1 DEF NoError, NoEvent
        <3>. QED BY <1>2, <3>1, <3>2, MeetsItself DEF NextIs
    <2>. QED BY <2>1, <2>2
<1>. QED BY <1>1, <1>2 DEF Stream

-----------------------------------------------------------------------------
(* The steps.                                                              *)


(* Writing fails, and a job gets its done, in a step of its own. *)
LEMMA FlagsKept ==
    ASSUME NEW i \in Nat, NEW n \in Nat, NEW kind, Step(i, n, kind)
    PROVE  /\ broken' = broken \/ TakesBlockInVain(i, n)
           /\ done' = done \/ TakesDone(i, n) \/ Renews(i, n)
<1>1. CASE SendsDigest(i)
    BY <1>1 DEF SendsDigest, Timer, Updates, Pushes, readerFrame
<1>2. CASE SendsBlock(i)
    BY <1>2 DEF SendsBlock, Timer, Updates, Pushes, readerFrame
<1>3. CASE SendsEnd(i)
    BY <1>3 DEF SendsEnd, Timer, Updates, Pushes, readerFrame
<1>4. CASE SendsReadError(i)
    BY <1>4 DEF SendsReadError, Timer, Updates, Pushes, readerFrame
<1>5. CASE SendsDigestError(i)
    BY <1>5 DEF SendsDigestError, Timer, Updates, Pushes, readerFrame
<1>6. CASE SendsLast(i, kind)
    BY <1>6 DEF SendsLast, Removes, Pushes, readerFrame
<1>7. CASE GetsSend(i, n)
    BY <1>7 DEF GetsSend, Gets, Pops, Updates, IsNew, Pushes, readerFrame
<1>8. CASE GetsSendInVain(i, n)
    BY <1>8 DEF GetsSendInVain, Gets, Pops, Pushes, readerFrame
<1>9. CASE GetsCancel(i, n)
    BY <1>9 DEF GetsCancel, Gets, Pops, Removes, readerFrame
<1>10. CASE GetsConfirm(i, n)
    BY <1>10 DEF GetsConfirm, Gets, Pops, Updates, IsAnswered, readerFrame
<1>11. CASE GetsOther(kind, i, n)
    BY <1>11 DEF GetsOther, Gets, Pops, readerFrame
<1>12. CASE GetsDigestAsks(i, n)
    BY <1>12 DEF GetsDigestAsks, Gets, Pops
<1>13. ASSUME NEW b \in BOOLEAN, GetsDigestKnows(i, n, b)
       PROVE  (broken' = broken \/ TakesBlockInVain(i, n)) /\ (done' = done \/ TakesDone(i, n) \/ Renews(i, n))
    BY <1>13 DEF GetsDigestKnows, Gets, Pops, Updates, IsAnswered, IsDecided
<1>14. CASE TakesOther(kind, i, n)
    BY <1>14 DEF TakesOther, Takes, Pops
<1>15. CASE TakesReceive(i, n)
    BY <1>15 DEF TakesReceive, Takes, Pops, Updates, IsNew, Renews
<1>16. CASE TakesCancel(i, n)
    BY <1>16 DEF TakesCancel, Takes, Pops, Removes
<1>17. CASE TakesDone(i, n)
    BY <1>17 DEF TakesDone, Takes, Pops, Removes, Told, Pushes
<1>18. CASE TakesError(i, n)
    BY <1>18 DEF TakesError, Takes, Pops, Removes, Told, Pushes
<1>19. CASE TakesDir(i, n)
    BY <1>19 DEF TakesDir, Takes, Pops, Updates
<1>20. CASE TakesDigestAsks(i, n)
    BY <1>20 DEF TakesDigestAsks, Takes, Pops
<1>21. ASSUME NEW b \in BOOLEAN, TakesDigestKnows(i, n, b)
       PROVE  (broken' = broken \/ TakesBlockInVain(i, n)) /\ (done' = done \/ TakesDone(i, n) \/ Renews(i, n))
    BY <1>21 DEF TakesDigestKnows, Takes, Pops, Updates, IsAnswered, IsDecided, Pushes
<1>22. CASE TakesDigestReturns(i, n)
    BY <1>22 DEF TakesDigestReturns, Takes, Pops, Pushes
<1>23. CASE TakesDigestWants(i, n)
    BY <1>23 DEF TakesDigestWants, Takes, Pops, Pushes, IsDecided
<1>24. CASE TakesDigestInVain(i, n)
    BY <1>24 DEF TakesDigestInVain, Takes, Pops, Told, Pushes
<1>25. CASE TakesBlock(i, n)
    BY <1>25 DEF TakesBlock, Takes, Pops, Updates, IsWriting
<1>26. CASE TakesBlockInVain(i, n)
    BY <1>26 DEF TakesBlockInVain, Takes, Pops, Updates, IsWriting, Told, Pushes
<1>27. CASE StartsUpload(i, n)
    BY <1>27 DEF StartsUpload, Updates, IsNew, Pushes
<1>28. CASE StartsDownload(i, n)
    BY <1>28 DEF StartsDownload, Updates, IsNew, Pushes, Renews
<1>29. CASE AddsUpload(i, n)
    BY <1>29 DEF AddsUpload, Updates, IsNew
<1>30. CASE AddsDownload(i, n)
    BY <1>30 DEF AddsDownload, Updates, IsNew, Renews
<1>31. CASE ResumesUpload(i, n)
    BY <1>31 DEF ResumesUpload, Updates, IsResumed, Pushes
<1>32. CASE ResumesDownload(i, n)
    BY <1>32 DEF ResumesDownload, Updates, IsResumed, Pushes
<1>33. CASE CancelsUpload(i)
    BY <1>33 DEF CancelsUpload, Removes, Pushes
<1>34. CASE CancelsDownload(i)
    BY <1>34 DEF CancelsDownload, Removes, Pushes
<1>35. ASSUME NEW b \in BOOLEAN, AnswersUpload(i, n, b)
       PROVE  (broken' = broken \/ TakesBlockInVain(i, n)) /\ (done' = done \/ TakesDone(i, n) \/ Renews(i, n))
    BY <1>35 DEF AnswersUpload, Updates, IsAnswered, IsDecided
<1>36. ASSUME NEW b \in BOOLEAN, AnswersDownload(i, n, b)
       PROVE  (broken' = broken \/ TakesBlockInVain(i, n)) /\ (done' = done \/ TakesDone(i, n) \/ Renews(i, n))
    BY <1>36 DEF AnswersDownload, Updates, IsAnswered, IsDecided, Pushes
<1>37. CASE AnswersNobody(i, n)
    BY <1>37 DEF AnswersNobody
<1>38. CASE Reconnects
    BY <1>38 DEF Reconnects
<1>39. CASE Stutters
    BY <1>39 DEF Stutters
<1>. QED BY <1>1, <1>2, <1>3, <1>4, <1>5, <1>6, <1>7, <1>8, <1>9, <1>10, <1>11, <1>12, <1>13,
   <1>14, <1>15, <1>16, <1>17, <1>18, <1>19, <1>20, <1>21, <1>22, <1>23, <1>24, <1>25, <1>26,
   <1>27, <1>28, <1>29, <1>30, <1>31, <1>32, <1>33, <1>34, <1>35, <1>36, <1>37, <1>38, <1>39,
   Zenon DEF Step

(* The reader hears of a download: there is nothing of it yet. *)
LEMMA SendNew ==
    ASSUME KindInv, OrderInv, NEW i \in Nat, NEW n \in Nat, Gets("send", i, n)
    PROVE  ~upload /\ DownloadNew(i)
<1>1. ~upload
    BY DEF Gets, Pops, KindInv, UploadKinds, InR, R
<1>. QED BY <1>1 DEF Gets, Pops, OrderInv, DownloadInv, InR, R

(* A block is one of those of its file, and they are read from its beginning. *)
LEMMA DataStep ==
    ASSUME TypeInv, TypeInv', KindInv, DataInv, NEW i \in Nat, NEW n \in Nat, NEW kind, Step(i, n,
           kind)
    PROVE  DataInv'
<1>0. \A m : m.kind # "block" => Fits(m)
    BY DEF Fits
<1>1. CASE SendsDigest(i)
    BY <1>1, <1>0 DEF SendsDigest, Timer, Updates, Pushes, readerFrame, DataInv, InW, W
<1>2. CASE SendsBlock(i)
  <2>. DEFINE m == to_writer'[Len(to_writer) + 1]
  <2>1. /\ read_jobs[i].file \in Nat /\ Size[read_jobs[i].file_num] \in Nat
        /\ read_jobs[i].file < Size[read_jobs[i].file_num]
        /\ m.data = << <<read_jobs[i].file_num, read_jobs[i].file + 1>> >>
        /\ Timer(i, "block", read_jobs[i].file_num) /\ read_jobs'[i].file_confirmed
    BY <1>2, FileAssumption DEF SendsBlock, Timer, W
  <2>2. m.num = read_jobs[i].file_num
    BY <2>1 DEF Timer, Pushes, W
  <2>3. Fits(m)
    <3>1. read_jobs[i].file + 1 \in 1..Size[m.num]
        BY <2>1, <2>2
    <3>. QED BY <2>1, <2>2, <3>1, Zenon DEF Fits
  <2>. QED BY <2>1, <2>3 DEF Timer, Updates, Pushes, DataInv, InW, W
<1>3. CASE SendsEnd(i)
  <2>. DEFINE m == to_writer'[Len(to_writer) + 1]
  <2>1. /\ m.data = <<>> /\ Timer(i, "block", read_jobs[i].file_num)
        /\ read_jobs'[i].file = None
    BY <1>3, Zenon DEF SendsEnd, W
  <2>2. Fits(m)
    BY <2>1, Zenon DEF Fits
  <2>. QED BY <2>1, <2>2 DEF Timer, Updates, Pushes, DataInv, InW, W
<1>4. CASE SendsReadError(i)
    BY <1>4, <1>0 DEF SendsReadError, Timer, Updates, Pushes, readerFrame, DataInv, InW, W
<1>5. CASE SendsDigestError(i)
    BY <1>5, <1>0 DEF SendsDigestError, Timer, Updates, Pushes, readerFrame, DataInv, InW, W
<1>6. CASE SendsLast(i, kind)
    BY <1>6, <1>0 DEF SendsLast, Removes, Pushes, readerFrame, DataInv, InW, W
<1>7. CASE GetsSend(i, n)
    BY <1>7, <1>0 DEF GetsSend, Gets, Pops, Updates, IsNew, Pushes, readerFrame, DataInv, InW, W
<1>8. CASE GetsSendInVain(i, n)
    BY <1>8, <1>0 DEF GetsSendInVain, Gets, Pops, Pushes, readerFrame, DataInv, InW, W
<1>9. CASE GetsCancel(i, n)
    BY <1>9, <1>0 DEF GetsCancel, Gets, Pops, Removes, readerFrame, DataInv, InW, W
<1>10. CASE GetsConfirm(i, n)
    BY <1>10, <1>0 DEF GetsConfirm, Gets, Pops, Updates, IsAnswered, readerFrame, DataInv, InW, W
<1>11. CASE GetsOther(kind, i, n)
    BY <1>11, <1>0 DEF GetsOther, Gets, Pops, readerFrame, DataInv, InW, W
<1>12. CASE GetsDigestAsks(i, n)
    BY <1>12, <1>0 DEF GetsDigestAsks, Gets, Pops, DataInv, InW, W
<1>13. ASSUME NEW b \in BOOLEAN, GetsDigestKnows(i, n, b) PROVE DataInv'
    BY <1>13, <1>0 DEF GetsDigestKnows, Gets, Pops, Updates, IsAnswered, IsDecided, DataInv, InW,
       W
<1>14. CASE TakesOther(kind, i, n)
    BY <1>14, <1>0 DEF TakesOther, Takes, Pops, DataInv, InW, W
<1>15. CASE TakesReceive(i, n)
    BY <1>15, <1>0 DEF TakesReceive, Takes, Pops, Updates, IsNew, DataInv, InW, W
<1>16. CASE TakesCancel(i, n)
    BY <1>16, <1>0 DEF TakesCancel, Takes, Pops, Removes, DataInv, InW, W
<1>17. CASE TakesDone(i, n)
    BY <1>17, <1>0 DEF TakesDone, Takes, Pops, Removes, Told, Pushes, DataInv, InW, W
<1>18. CASE TakesError(i, n)
    BY <1>18, <1>0 DEF TakesError, Takes, Pops, Removes, Told, Pushes, DataInv, InW, W
<1>19. CASE TakesDir(i, n)
    BY <1>19, <1>0 DEF TakesDir, Takes, Pops, Updates, DataInv, InW, W
<1>20. CASE TakesDigestAsks(i, n)
    BY <1>20, <1>0 DEF TakesDigestAsks, Takes, Pops, DataInv, InW, W
<1>21. ASSUME NEW b \in BOOLEAN, TakesDigestKnows(i, n, b) PROVE DataInv'
    BY <1>21, <1>0 DEF TakesDigestKnows, Takes, Pops, Updates, IsAnswered, IsDecided, Pushes,
       DataInv, InW, W
<1>22. CASE TakesDigestReturns(i, n)
    BY <1>22, <1>0 DEF TakesDigestReturns, Takes, Pops, Pushes, DataInv, InW, W
<1>23. CASE TakesDigestWants(i, n)
    BY <1>23, <1>0 DEF TakesDigestWants, Takes, Pops, Pushes, IsDecided, DataInv, InW, W
<1>24. CASE TakesDigestInVain(i, n)
    BY <1>24, <1>0 DEF TakesDigestInVain, Takes, Pops, Told, Pushes, DataInv, InW, W
<1>25. CASE TakesBlock(i, n)
    BY <1>25, <1>0 DEF TakesBlock, Takes, Pops, Updates, IsWriting, DataInv, InW, W
<1>26. CASE TakesBlockInVain(i, n)
    BY <1>26, <1>0 DEF TakesBlockInVain, Takes, Pops, Updates, IsWriting, Told, Pushes, DataInv,
       InW, W
<1>27. CASE StartsUpload(i, n)
    BY <1>27, <1>0 DEF StartsUpload, Updates, IsNew, Pushes, DataInv, InW, W
<1>28. CASE StartsDownload(i, n)
    BY <1>28, <1>0 DEF StartsDownload, Updates, IsNew, Pushes, DataInv, InW, W
<1>29. CASE AddsUpload(i, n)
    BY <1>29, <1>0 DEF AddsUpload, Updates, IsNew, DataInv, InW, W
<1>30. CASE AddsDownload(i, n)
    BY <1>30, <1>0 DEF AddsDownload, Updates, IsNew, DataInv, InW, W
<1>31. CASE ResumesUpload(i, n)
    BY <1>31, <1>0 DEF ResumesUpload, Updates, IsResumed, Pushes, DataInv, InW, W
<1>32. CASE ResumesDownload(i, n)
    BY <1>32, <1>0 DEF ResumesDownload, Updates, IsResumed, Pushes, DataInv, InW, W
<1>33. CASE CancelsUpload(i)
    BY <1>33, <1>0 DEF CancelsUpload, Removes, Pushes, DataInv, InW, W
<1>34. CASE CancelsDownload(i)
    BY <1>34, <1>0 DEF CancelsDownload, Removes, Pushes, DataInv, InW, W
<1>35. ASSUME NEW b \in BOOLEAN, AnswersUpload(i, n, b) PROVE DataInv'
    BY <1>35, <1>0 DEF AnswersUpload, Updates, IsAnswered, IsDecided, DataInv, InW, W
<1>36. ASSUME NEW b \in BOOLEAN, AnswersDownload(i, n, b) PROVE DataInv'
    BY <1>36, <1>0 DEF AnswersDownload, Updates, IsAnswered, IsDecided, Pushes, DataInv, InW, W
<1>37. CASE AnswersNobody(i, n)
    BY <1>37, <1>0 DEF AnswersNobody, DataInv, InW, W
<1>38. CASE Reconnects
    BY <1>38, <1>0 DEF Reconnects, DataInv, InW, W
<1>39. CASE Stutters
    BY <1>39, <1>0 DEF Stutters, DataInv, InW, W
<1>. QED BY <1>1, <1>2, <1>3, <1>4, <1>5, <1>6, <1>7, <1>8, <1>9, <1>10, <1>11, <1>12, <1>13,
   <1>14, <1>15, <1>16, <1>17, <1>18, <1>19, <1>20, <1>21, <1>22, <1>23, <1>24, <1>25, <1>26,
   <1>27, <1>28, <1>29, <1>30, <1>31, <1>32, <1>33, <1>34, <1>35, <1>36, <1>37, <1>38, <1>39,
   Zenon DEF Step

(* Done comes after the last file, and ends the job. *)
LEMMA LastStep ==
    ASSUME TypeInv, TypeInv', IdInv, KindInv, OrderInv, LastInv, NEW i \in Nat, NEW n \in Nat, NEW
           kind, Step(i, n, kind)
    PROVE  LastInv'
<1>0. jobs \in Nat
    BY DEF TypeInv
<1>1. CASE SendsDigest(i)
    BY <1>1 DEF SendsDigest, Timer, Updates, Pushes, readerFrame, LastInv, InW, W
<1>2. CASE SendsBlock(i)
    BY <1>2 DEF SendsBlock, Timer, Updates, Pushes, readerFrame, LastInv, InW, W
<1>3. CASE SendsEnd(i)
    BY <1>3 DEF SendsEnd, Timer, Updates, Pushes, readerFrame, LastInv, InW, W
<1>4. CASE SendsReadError(i)
    BY <1>4 DEF SendsReadError, Timer, Updates, Pushes, readerFrame, LastInv, InW, W
<1>5. CASE SendsDigestError(i)
    BY <1>5 DEF SendsDigestError, Timer, Updates, Pushes, readerFrame, LastInv, InW, W
<1>6. CASE SendsLast(i, kind)
    BY <1>6 DEF SendsLast, Removes, Pushes, readerFrame, LastInv, InW, W
<1>7. CASE GetsSend(i, n)
  <2>1. DownloadNew(i)
    BY <1>7, SendNew, Zenon DEF GetsSend
  <2>. QED BY <1>7, <2>1 DEF GetsSend, Gets, Pops, Updates, Pushes, DownloadNew, LastInv, InW, W
<1>8. CASE GetsSendInVain(i, n)
    BY <1>8 DEF GetsSendInVain, Gets, Pops, Pushes, readerFrame, LastInv, InW, W
<1>9. CASE GetsCancel(i, n)
    BY <1>9 DEF GetsCancel, Gets, Pops, Removes, readerFrame, LastInv, InW, W
<1>10. CASE GetsConfirm(i, n)
    BY <1>10 DEF GetsConfirm, Gets, Pops, Updates, IsAnswered, readerFrame, LastInv, InW, W
<1>11. CASE GetsOther(kind, i, n)
    BY <1>11 DEF GetsOther, Gets, Pops, readerFrame, LastInv, InW, W
<1>12. CASE GetsDigestAsks(i, n)
    BY <1>12 DEF GetsDigestAsks, Gets, Pops, LastInv, InW, W
<1>13. ASSUME NEW b \in BOOLEAN, GetsDigestKnows(i, n, b) PROVE LastInv'
    BY <1>13 DEF GetsDigestKnows, Gets, Pops, Updates, IsAnswered, IsDecided, LastInv, InW, W
<1>14. CASE TakesOther(kind, i, n)
    BY <1>14 DEF TakesOther, Takes, Pops, LastInv, InW, W
<1>15. CASE TakesReceive(i, n)
    BY <1>15 DEF TakesReceive, Takes, Pops, Updates, IsNew, LastInv, InW, W
<1>16. CASE TakesCancel(i, n)
    BY <1>16 DEF TakesCancel, Takes, Pops, Removes, LastInv, InW, W
<1>17. CASE TakesDone(i, n)
    BY <1>17 DEF TakesDone, Takes, Pops, Removes, Told, Pushes, LastInv, InW, W
<1>18. CASE TakesError(i, n)
    BY <1>18 DEF TakesError, Takes, Pops, Removes, Told, Pushes, LastInv, InW, W
<1>19. CASE TakesDir(i, n)
    BY <1>19 DEF TakesDir, Takes, Pops, Updates, LastInv, InW, W
<1>20. CASE TakesDigestAsks(i, n)
    BY <1>20 DEF TakesDigestAsks, Takes, Pops, LastInv, InW, W
<1>21. ASSUME NEW b \in BOOLEAN, TakesDigestKnows(i, n, b) PROVE LastInv'
    BY <1>21 DEF TakesDigestKnows, Takes, Pops, Updates, IsAnswered, IsDecided, Pushes, LastInv,
       InW, W
<1>22. CASE TakesDigestReturns(i, n)
    BY <1>22 DEF TakesDigestReturns, Takes, Pops, Pushes, LastInv, InW, W
<1>23. CASE TakesDigestWants(i, n)
    BY <1>23 DEF TakesDigestWants, Takes, Pops, Pushes, IsDecided, LastInv, InW, W
<1>24. CASE TakesDigestInVain(i, n)
    BY <1>24 DEF TakesDigestInVain, Takes, Pops, Told, Pushes, LastInv, InW, W
<1>25. CASE TakesBlock(i, n)
    BY <1>25 DEF TakesBlock, Takes, Pops, Updates, IsWriting, LastInv, InW, W
<1>26. CASE TakesBlockInVain(i, n)
    BY <1>26 DEF TakesBlockInVain, Takes, Pops, Updates, IsWriting, Told, Pushes, LastInv, InW, W
<1>27. CASE StartsUpload(i, n)
    BY <1>27, <1>0 DEF StartsUpload, Updates, IsNew, Pushes, LastInv, InW, W, IdInv, Ids
<1>28. CASE StartsDownload(i, n)
    BY <1>28 DEF StartsDownload, Updates, IsNew, Pushes, LastInv, InW, W
<1>29. CASE AddsUpload(i, n)
    BY <1>29, <1>0 DEF AddsUpload, Updates, IsNew, LastInv, InW, W, IdInv, Ids
<1>30. CASE AddsDownload(i, n)
    BY <1>30 DEF AddsDownload, Updates, IsNew, LastInv, InW, W
<1>31. CASE ResumesUpload(i, n)
    BY <1>31 DEF ResumesUpload, Updates, IsResumed, Pushes, LastInv, InW, W
<1>32. CASE ResumesDownload(i, n)
    BY <1>32 DEF ResumesDownload, Updates, IsResumed, Pushes, LastInv, InW, W
<1>33. CASE CancelsUpload(i)
    BY <1>33 DEF CancelsUpload, Removes, Pushes, LastInv, InW, W
<1>34. CASE CancelsDownload(i)
    BY <1>34 DEF CancelsDownload, Removes, Pushes, LastInv, InW, W
<1>35. ASSUME NEW b \in BOOLEAN, AnswersUpload(i, n, b) PROVE LastInv'
    BY <1>35 DEF AnswersUpload, Updates, IsAnswered, IsDecided, LastInv, InW, W
<1>36. ASSUME NEW b \in BOOLEAN, AnswersDownload(i, n, b) PROVE LastInv'
    BY <1>36 DEF AnswersDownload, Updates, IsAnswered, IsDecided, Pushes, LastInv, InW, W
<1>37. CASE AnswersNobody(i, n)
    BY <1>37 DEF AnswersNobody, LastInv, InW, W
<1>38. CASE Reconnects
    BY <1>38 DEF Reconnects, LastInv, InW, W
<1>39. CASE Stutters
    BY <1>39 DEF Stutters, LastInv, InW, W
<1>. QED BY <1>1, <1>2, <1>3, <1>4, <1>5, <1>6, <1>7, <1>8, <1>9, <1>10, <1>11, <1>12, <1>13,
   <1>14, <1>15, <1>16, <1>17, <1>18, <1>19, <1>20, <1>21, <1>22, <1>23, <1>24, <1>25, <1>26,
   <1>27, <1>28, <1>29, <1>30, <1>31, <1>32, <1>33, <1>34, <1>35, <1>36, <1>37, <1>38, <1>39,
   Zenon DEF Step

(* A job whose reader does not wait for an answer has no question open and *)
(* is not over.                                                            *)
LEMMA NotAsked ==
    ASSUME TokenWaits, LastInv, NEW i \in DOMAIN read_jobs,
           \/ read_jobs[i].file = None
           \/ read_jobs[i].file_confirmed
           \/ ~read_jobs[i].file_is_waiting
    PROVE  /\ \A p \in InW : ~(W(p).kind \in {"digest", "done"} /\ W(p).id = i)
           /\ \A p \in InR : ~IsToken(p, i)
           /\ \A q \in asked : q[1] # i
BY DEF TokenWaits, LastInv, Waits, IsToken

(* The first message of the writer is taken, and a question perhaps goes on *)
(* to the reader or to the user.                                           *)
LEMMA QuietTaken ==
    ASSUME QuietInv, NEW kind, NEW i \in Nat, NEW n \in Nat, Takes(kind, i, n),
           \A p \in InR' : IsToken(p, R(p).id)' =>
               (\E s \in InR : R(p)' = R(s)) \/ (kind = "digest" /\ R(p)'.id = i),
           \A q \in asked' : q \in asked \/ (kind = "digest" /\ q[1] = i)
    PROVE  QuietInv'
<1>1. /\ \A p \in InW' : p \in Nat /\ p + 1 \in InW /\ W(p)' = W(p + 1) /\ ~(p + 1 <= 1)
      /\ 1 \in InW /\ W(1).kind = kind /\ W(1).id = i
    BY DEF Takes, Pops, InW, W, At
<1>2. kind = "digest" => \A r \in InW' : ~Busy(W(r)', i)
    BY <1>1 DEF QuietInv
<1>3. \A p, r \in InW' : W(p)'.kind \in {"digest", "done"} /\ Busy(W(r)', W(p)'.id) => r <= p
    BY <1>1 DEF QuietInv
<1>4. \A p \in InR', r \in InW' : IsToken(p, R(p).id)' => ~Busy(W(r)', R(p)'.id)
    BY <1>1, <1>2 DEF QuietInv, IsToken
<1>5. \A q \in asked', r \in InW' : ~Busy(W(r)', q[1])
    BY <1>1, <1>2 DEF QuietInv
<1>. QED BY <1>3, <1>4, <1>5 DEF QuietInv, Busy

(* A question is the last that is under way of its job, and so is its end. *)
LEMMA QuietStep ==
    ASSUME TypeInv, TypeInv', IdInv, KindInv, OrderInv, TokenWaits, OneToken, LastInv, QuietInv,
           NEW i \in Nat, NEW n \in Nat, NEW kind, Step(i, n, kind)
    PROVE  QuietInv'
<1>1. CASE SendsDigest(i)
  <2>1. /\ \A p \in InW : ~(W(p).kind \in {"digest", "done"} /\ W(p).id = i)
        /\ \A p \in InR : ~IsToken(p, i)
        /\ \A q \in asked : q[1] # i
    BY <1>1, NotAsked DEF SendsDigest, Timer
  <2>2. \E m : Pushes(to_writer, to_writer', "digest", i, m)
    BY <1>1, Zenon DEF SendsDigest, Timer
  <2>3. to_reader' = to_reader /\ asked' = asked
    BY <1>1, Zenon DEF SendsDigest, Timer, readerFrame
  <2>. QED BY <2>1, <2>2, <2>3 DEF Pushes, QuietInv, Busy, IsToken, InW, InR, W, R
<1>2. CASE SendsBlock(i)
  <2>1. /\ \A p \in InW : ~(W(p).kind \in {"digest", "done"} /\ W(p).id = i)
        /\ \A p \in InR : ~IsToken(p, i)
        /\ \A q \in asked : q[1] # i
    BY <1>2, NotAsked DEF SendsBlock, Timer
  <2>2. \E m : Pushes(to_writer, to_writer', "block", i, m)
    BY <1>2, Zenon DEF SendsBlock, Timer
  <2>3. to_reader' = to_reader /\ asked' = asked
    BY <1>2, Zenon DEF SendsBlock, Timer, readerFrame
  <2>. QED BY <2>1, <2>2, <2>3 DEF Pushes, QuietInv, Busy, IsToken, InW, InR, W, R
<1>3. CASE SendsEnd(i)
  <2>1. /\ \A p \in InW : ~(W(p).kind \in {"digest", "done"} /\ W(p).id = i)
        /\ \A p \in InR : ~IsToken(p, i)
        /\ \A q \in asked : q[1] # i
    BY <1>3, NotAsked DEF SendsEnd, Timer
  <2>2. \E m : Pushes(to_writer, to_writer', "block", i, m)
    BY <1>3, Zenon DEF SendsEnd, Timer
  <2>3. to_reader' = to_reader /\ asked' = asked
    BY <1>3, Zenon DEF SendsEnd, Timer, readerFrame
  <2>. QED BY <2>1, <2>2, <2>3 DEF Pushes, QuietInv, Busy, IsToken, InW, InR, W, R
<1>4. CASE SendsReadError(i)
  <2>1. /\ \A p \in InW : ~(W(p).kind \in {"digest", "done"} /\ W(p).id = i)
        /\ \A p \in InR : ~IsToken(p, i)
        /\ \A q \in asked : q[1] # i
    BY <1>4, NotAsked DEF SendsReadError, Timer
  <2>2. \E m : Pushes(to_writer, to_writer', "error", i, m)
    BY <1>4, Zenon DEF SendsReadError, Timer
  <2>3. to_reader' = to_reader /\ asked' = asked
    BY <1>4, Zenon DEF SendsReadError, Timer, readerFrame
  <2>. QED BY <2>1, <2>2, <2>3 DEF Pushes, QuietInv, Busy, IsToken, InW, InR, W, R
<1>5. CASE SendsDigestError(i)
  <2>1. /\ \A p \in InW : ~(W(p).kind \in {"digest", "done"} /\ W(p).id = i)
        /\ \A p \in InR : ~IsToken(p, i)
        /\ \A q \in asked : q[1] # i
    BY <1>5, NotAsked DEF SendsDigestError, Timer
  <2>2. \E m : Pushes(to_writer, to_writer', "error", i, m)
    BY <1>5, Zenon DEF SendsDigestError, Timer
  <2>3. to_reader' = to_reader /\ asked' = asked
    BY <1>5, Zenon DEF SendsDigestError, Timer, readerFrame
  <2>. QED BY <2>1, <2>2, <2>3 DEF Pushes, QuietInv, Busy, IsToken, InW, InR, W, R
<1>6. CASE SendsLast(i, kind)
  <2>1. /\ \A p \in InW : ~(W(p).kind \in {"digest", "done"} /\ W(p).id = i)
        /\ \A p \in InR : ~IsToken(p, i)
        /\ \A q \in asked : q[1] # i
    BY <1>6, NotAsked DEF SendsLast
  <2>2. \E m : Pushes(to_writer, to_writer', kind, i, m)
    BY <1>6, Zenon DEF SendsLast
  <2>3. to_reader' = to_reader /\ asked' = asked
    BY <1>6, Zenon DEF SendsLast, readerFrame
  <2>. QED BY <2>1, <2>2, <2>3 DEF Pushes, QuietInv, Busy, IsToken, InW, InR, W, R
<1>7. CASE GetsSend(i, n)
  <2>1. Gets("send", i, n) /\ Pushes(to_writer, to_writer', "dir", i, 0) /\ asked' = asked
    BY <1>7, Zenon DEF GetsSend, readerFrame
  <2>2. \A p \in InW' : (p \in InW /\ W(p)' = W(p)) \/ W(p)'.kind = "dir"
    BY <2>1 DEF Pushes, InW, W
  <2>3. \A p \in InR' : p + 1 \in InR /\ R(p)' = R(p + 1)
    BY <2>1 DEF Gets, Pops, InR, R
  <2>. QED BY <2>1, <2>2, <2>3 DEF QuietInv, Busy, IsToken
<1>8. CASE GetsSendInVain(i, n)
  <2>1. Gets("send", i, n) /\ Pushes(to_writer, to_writer', "error", i, 0) /\ asked' = asked
    BY <1>8, Zenon DEF GetsSendInVain, readerFrame
  <2>2. \A p \in InW' : (p \in InW /\ W(p)' = W(p)) \/ (W(p)'.kind = "error" /\ W(p)'.id = i)
    BY <2>1 DEF Pushes, InW, W
  <2>3. \A p \in InR' : p + 1 \in InR /\ R(p)' = R(p + 1)
    BY <2>1 DEF Gets, Pops, InR, R
  <2>4. DownloadNew(i)
    BY <2>1, SendNew
  <2>5. \A p, r \in InW' : W(p)'.kind \in {"digest", "done"} /\ Busy(W(r)', W(p)'.id) => r <= p
    BY <2>2, <2>4 DEF QuietInv, Busy, DownloadNew
  <2>6. \A p \in InR', r \in InW' : IsToken(p, R(p).id)' => ~Busy(W(r)', R(p)'.id)
    BY <2>2, <2>3, <2>4 DEF QuietInv, Busy, DownloadNew, IsToken
  <2>7. \A x \in asked', r \in InW' : ~Busy(W(r)', x[1])
    BY <2>1, <2>2, <2>4 DEF QuietInv, Busy, DownloadNew
  <2>. QED BY <2>5, <2>6, <2>7 DEF QuietInv, Busy
<1>9. CASE GetsCancel(i, n)
    BY <1>9 DEF GetsCancel, Gets, Pops, Removes, readerFrame, QuietInv, Busy, IsToken, InW, InR,
       W, R
<1>10. CASE GetsConfirm(i, n)
  <2>1. /\ Gets("confirm", i, n) /\ i \in DOMAIN read_jobs
        /\ Updates(read_jobs, read_jobs', i)
        /\ read_jobs'[i].is_last_job = read_jobs[i].is_last_job
        /\ UNCHANGED readerFrame /\ UNCHANGED to_writer
    BY <1>10, Zenon DEF GetsConfirm, IsAnswered
  <2>. QED BY <2>1 DEF Gets, Pops, Updates, readerFrame, QuietInv, Busy, IsToken, InW, InR, W, R
<1>11. CASE GetsOther(kind, i, n)
    BY <1>11 DEF GetsOther, Gets, Pops, readerFrame, QuietInv, Busy, IsToken, InW, InR, W, R
<1>12. CASE GetsDigestAsks(i, n)
    BY <1>12 DEF GetsDigestAsks, Gets, Pops, QuietInv, Busy, IsToken, InW, InR, W, R
<1>13. ASSUME NEW b \in BOOLEAN, GetsDigestKnows(i, n, b) PROVE QuietInv'
  <2>1. /\ upload /\ Gets("digest", i, n) /\ i \in DOMAIN read_jobs
        /\ Updates(read_jobs, read_jobs', i)
        /\ UNCHANGED <<upload, asked, write_jobs, to_writer, disk, saved, jobs, broken>>
    BY <1>13, Zenon DEF GetsDigestKnows
  <2>. QED BY <2>1 DEF Gets, Pops, Updates, QuietInv, Busy, IsToken, InW, InR, W, R
<1>14. CASE TakesOther(kind, i, n)
    BY <1>14 DEF TakesOther, Takes, Pops, QuietInv, Busy, IsToken, InW, InR, W, R
<1>15. CASE TakesReceive(i, n)
    BY <1>15 DEF TakesReceive, Takes, Pops, Updates, IsNew, QuietInv, Busy, IsToken, InW, InR, W,
       R
<1>16. CASE TakesCancel(i, n)
    BY <1>16 DEF TakesCancel, Takes, Pops, Removes, QuietInv, Busy, IsToken, InW, InR, W, R
<1>17. CASE TakesDone(i, n)
  <2>1. Takes("done", i, n) /\ Told("done", i, n) /\ asked' = asked
    BY <1>17, Zenon DEF TakesDone
  <2>2. \A p \in InR' : IsToken(p, R(p).id)' =>
            (\E s \in InR : R(p)' = R(s))
    BY <2>1 DEF Pushes, Told, IsToken, InR, R
  <2>. QED BY <2>1, <2>2, QuietTaken
<1>18. CASE TakesError(i, n)
  <2>1. Takes("error", i, n) /\ Told("error", i, n) /\ asked' = asked
    BY <1>18, Zenon DEF TakesError
  <2>2. \A p \in InR' : IsToken(p, R(p).id)' =>
            (\E s \in InR : R(p)' = R(s))
    BY <2>1 DEF Pushes, Told, IsToken, InR, R
  <2>. QED BY <2>1, <2>2, QuietTaken
<1>19. CASE TakesDir(i, n)
    BY <1>19 DEF TakesDir, Takes, Pops, Updates, QuietInv, Busy, IsToken, InW, InR, W, R
<1>20. CASE TakesDigestAsks(i, n)
  <2>1. Takes("digest", i, n) /\ to_reader' = to_reader /\ asked' = asked \cup {<<i, n>>}
    BY <1>20, Zenon DEF TakesDigestAsks
  <2>2. \A p \in InR' : IsToken(p, R(p).id)' =>
            (\E s \in InR : R(p)' = R(s)) \/ R(p)'.id = i
    BY <2>1 DEF Pushes, Told, IsToken, InR, R
  <2>. QED BY <2>1, <2>2, QuietTaken
<1>21. ASSUME NEW b \in BOOLEAN, TakesDigestKnows(i, n, b) PROVE QuietInv'
  <2>1. Takes("digest", i, n) /\ Pushes(to_reader, to_reader', "confirm", i, n) /\ asked' = asked
    BY <1>21, Zenon DEF TakesDigestKnows
  <2>2. \A p \in InR' : IsToken(p, R(p).id)' =>
            (\E s \in InR : R(p)' = R(s)) \/ R(p)'.id = i
    BY <2>1 DEF Pushes, Told, IsToken, InR, R
  <2>. QED BY <2>1, <2>2, QuietTaken
<1>22. CASE TakesDigestReturns(i, n)
  <2>1. Takes("digest", i, n) /\ Pushes(to_reader, to_reader', "digest", i, n) /\ asked' = asked
    BY <1>22, Zenon DEF TakesDigestReturns
  <2>2. \A p \in InR' : IsToken(p, R(p).id)' =>
            (\E s \in InR : R(p)' = R(s)) \/ R(p)'.id = i
    BY <2>1 DEF Pushes, Told, IsToken, InR, R
  <2>. QED BY <2>1, <2>2, QuietTaken
<1>23. CASE TakesDigestWants(i, n)
  <2>1. Takes("digest", i, n) /\ Pushes(to_reader, to_reader', "confirm", i, n) /\ asked' = asked
    BY <1>23, Zenon DEF TakesDigestWants
  <2>2. \A p \in InR' : IsToken(p, R(p).id)' =>
            (\E s \in InR : R(p)' = R(s)) \/ R(p)'.id = i
    BY <2>1 DEF Pushes, Told, IsToken, InR, R
  <2>. QED BY <2>1, <2>2, QuietTaken
<1>24. CASE TakesDigestInVain(i, n)
  <2>1. Takes("digest", i, n) /\ Told("error", i, n) /\ asked' = asked
    BY <1>24, Zenon DEF TakesDigestInVain
  <2>2. \A p \in InR' : IsToken(p, R(p).id)' =>
            (\E s \in InR : R(p)' = R(s))
    BY <2>1 DEF Pushes, Told, IsToken, InR, R
  <2>. QED BY <2>1, <2>2, QuietTaken
<1>25. CASE TakesBlock(i, n)
  <2>1. /\ Takes("block", i, n) /\ i \in DOMAIN write_jobs
        /\ Updates(write_jobs, write_jobs', i)
        /\ write_jobs'[i].is_last_job = write_jobs[i].is_last_job
        /\ UNCHANGED <<upload, read_jobs, to_reader, asked, saved, jobs, verdict, kept, done, tainted,
                       broken>>
    BY <1>25, Zenon DEF TakesBlock, IsWriting
  <2>. QED BY <2>1 DEF Takes, Pops, Updates, QuietInv, Busy, IsToken, InW, InR, W, R
<1>26. CASE TakesBlockInVain(i, n)
  <2>1. Takes("block", i, n) /\ Told("error", i, n) /\ asked' = asked
    BY <1>26, Zenon DEF TakesBlockInVain
  <2>2. \A p \in InR' : IsToken(p, R(p).id)' =>
            (\E s \in InR : R(p)' = R(s))
    BY <2>1 DEF Pushes, Told, IsToken, InR, R
  <2>. QED BY <2>1, <2>2, QuietTaken
<1>27. CASE StartsUpload(i, n)
    BY <1>27 DEF StartsUpload, Updates, IsNew, Pushes, QuietInv, Busy, IsToken, InW, InR, W, R
<1>28. CASE StartsDownload(i, n)
    BY <1>28 DEF StartsDownload, Updates, IsNew, Pushes, QuietInv, Busy, IsToken, InW, InR, W, R
<1>29. CASE AddsUpload(i, n)
    BY <1>29 DEF AddsUpload, Updates, IsNew, QuietInv, Busy, IsToken, InW, InR, W, R
<1>30. CASE AddsDownload(i, n)
    BY <1>30 DEF AddsDownload, Updates, IsNew, QuietInv, Busy, IsToken, InW, InR, W, R
<1>31. CASE ResumesUpload(i, n)
    BY <1>31 DEF ResumesUpload, Updates, IsResumed, Pushes, QuietInv, Busy, IsToken, InW, InR, W,
       R
<1>32. CASE ResumesDownload(i, n)
    BY <1>32 DEF ResumesDownload, Updates, IsResumed, Pushes, QuietInv, Busy, IsToken, InW, InR,
       W, R
<1>33. CASE CancelsUpload(i)
    BY <1>33 DEF CancelsUpload, Removes, Pushes, QuietInv, Busy, IsToken, InW, InR, W, R
<1>34. CASE CancelsDownload(i)
    BY <1>34 DEF CancelsDownload, Removes, Pushes, QuietInv, Busy, IsToken, InW, InR, W, R
<1>35. ASSUME NEW b \in BOOLEAN, AnswersUpload(i, n, b) PROVE QuietInv'
  <2>1. /\ upload /\ <<i, n>> \in asked /\ asked' = asked \ {<<i, n>>} /\ i \in DOMAIN read_jobs
        /\ Updates(read_jobs, read_jobs', i)
        /\ UNCHANGED <<upload, write_jobs, to_writer, to_reader, disk, saved, jobs, broken>>
    BY <1>35, Zenon DEF AnswersUpload
  <2>. QED BY <2>1 DEF Updates, QuietInv, Busy, IsToken, InW, InR, W, R
<1>36. ASSUME NEW b \in BOOLEAN, AnswersDownload(i, n, b) PROVE QuietInv'
  <2>1. /\ ~upload /\ <<i, n>> \in asked /\ asked' = asked \ {<<i, n>>} /\ i \in DOMAIN write_jobs
        /\ Updates(write_jobs, write_jobs', i)
        /\ Pushes(to_reader, to_reader', "confirm", i, n)
        /\ UNCHANGED <<upload, read_jobs, to_writer, disk, saved, jobs, broken>>
    BY <1>36, Zenon DEF AnswersDownload
  <2>. QED BY <2>1 DEF Updates, Pushes, QuietInv, Busy, IsToken, InW, InR, W, R
<1>37. CASE AnswersNobody(i, n)
    BY <1>37 DEF AnswersNobody, QuietInv, Busy, IsToken, InW, InR, W, R
<1>38. CASE Reconnects
    BY <1>38 DEF Reconnects, QuietInv, Busy, IsToken, InW, InR, W, R
<1>39. CASE Stutters
    BY <1>39 DEF Stutters, QuietInv, Busy, IsToken, InW, InR, W, R
<1>. QED BY <1>1, <1>2, <1>3, <1>4, <1>5, <1>6, <1>7, <1>8, <1>9, <1>10, <1>11, <1>12, <1>13,
   <1>14, <1>15, <1>16, <1>17, <1>18, <1>19, <1>20, <1>21, <1>22, <1>23, <1>24, <1>25, <1>26,
   <1>27, <1>28, <1>29, <1>30, <1>31, <1>32, <1>33, <1>34, <1>35, <1>36, <1>37, <1>38, <1>39,
   Zenon DEF Step

(* What was under way of a job that begins at file n still is ... *)
LEMMA BeginsPopped ==
    ASSUME NEW q \in Seq(Messages), NEW q2 \in Seq(Messages), Pops(q, q2), NEW js, NEW i, NEW n,
           BeginsAt(q, js, i, n), ~IsError(q[1], i)
    PROVE  BeginsAt(q2, js, i, n)
<1>1. /\ Len(q2) + 1 = Len(q) /\ Len(q2) \in Nat
      /\ \A p \in At(q2) : p \in Nat /\ p >= 1 /\ p + 1 \in At(q) /\ q2[p] = q[p + 1]
    BY PoppedLength
<1>2. ASSUME NEW r \in At(q2), IsEvent(q2[r], i), NoError(q2, r, i)
      PROVE  q2[r].num = n
    <2>1. NoError(q, r + 1, i)
        BY <1>1, <1>2, NoErrorPopped
    <2>. QED BY <1>1, <1>2, <2>1 DEF BeginsAt
<1>3. ASSUME i \in DOMAIN js, NoError(q2, Len(q2) + 1, i)
      PROVE  js[i].file_num = n
    <2>1. Len(q2) + 1 \in Nat /\ (Len(q2) + 1) + 1 = Len(q) + 1
        BY <1>1
    <2>2. NoError(q, Len(q) + 1, i)
        BY <1>3, <2>1, NoErrorPopped
    <2>. QED BY <1>3, <2>2 DEF BeginsAt
<1>. QED BY <1>2, <1>3 DEF BeginsAt

(* ... and is when it grows by a message about where the reader is. *)
LEMMA BeginsPushed ==
    ASSUME NEW q \in Seq(Messages), NEW q2 \in Seq(Messages), NEW kind, NEW k, NEW m,
           Pushes(q, q2, kind, k, m), NEW js, NEW js2, NEW i, NEW n, BeginsAt(q, js, i, n),
           IsEvent(q2[Len(q) + 1], i) => i \in DOMAIN js /\ m = js[i].file_num,
           \/ IsError(q2[Len(q) + 1], i)
           \/ i \in DOMAIN js2 => i \in DOMAIN js /\ js2[i].file_num = js[i].file_num
    PROVE  BeginsAt(q2, js2, i, n)
<1>1. /\ Len(q) \in Nat /\ Len(q) + 1 \in Nat /\ Len(q2) = Len(q) + 1 /\ Len(q) + 1 \in At(q2)
      /\ \A p \in At(q) : p \in Nat /\ p < Len(q) + 1 /\ p \in At(q2) /\ q2[p] = q[p]
      /\ \A p \in At(q2) : p \in Nat /\ p < Len(q2) + 1
      /\ \A p \in At(q2) : p # Len(q) + 1 => p \in At(q)
    BY PushedLength
<1>2. q2[Len(q) + 1].num = m
    BY DEF Pushes
<1>3. \A r \in At(q2) : NoError(q2, r, i) => NoError(q, r, i)
    BY <1>1 DEF NoError
<1>4. NoError(q2, Len(q2) + 1, i) => NoError(q, Len(q) + 1, i) /\ ~IsError(q2[Len(q) + 1], i)
    BY <1>1 DEF NoError
<1>5. ASSUME NEW r \in At(q2), IsEvent(q2[r], i), NoError(q2, r, i)
      PROVE  q2[r].num = n
    <2>1. CASE r # Len(q) + 1
        BY <1>1, <1>3, <1>5, <2>1 DEF BeginsAt
    <2>2. CASE r = Len(q) + 1
        BY <1>2, <1>3, <1>5, <2>2 DEF BeginsAt
    <2>. QED BY <2>1, <2>2
<1>. QED BY <1>4, <1>5 DEF BeginsAt

(* So it is when a message is taken, ... *)
LEMMA StartPopped ==
    ASSUME TypeInv, TypeInv', UploadOrder, UploadStart, Pops(to_writer, to_writer'),
           read_jobs' = read_jobs
    PROVE  UploadStart'
<1>1. SUFFICES ASSUME NEW p \in InW', W(p)'.kind = "receive"
               PROVE  BeginsAt(to_writer', read_jobs', W(p)'.id, W(p)'.num)
    BY DEF UploadStart
<1>2. /\ p + 1 \in InW /\ 1 \in InW /\ W(p)' = W(p + 1) /\ 1 < p + 1
      /\ to_writer[1] = W(1) /\ to_writer \in Seq(Messages) /\ to_writer' \in Seq(Messages)
    BY DEF Pops, InW, W, At, TypeInv
<1>3. BeginsAt(to_writer, read_jobs, W(p)'.id, W(p)'.num)
    BY <1>1, <1>2 DEF UploadStart
<1>4. ~IsError(to_writer[1], W(p)'.id)
    BY <1>1, <1>2 DEF UploadOrder, IsError
<1>. QED BY <1>2, <1>3, <1>4, BeginsPopped

(* ... when no job to be heard of is at another file than before, ... *)
LEMMA StartStill ==
    ASSUME UploadStart, to_writer' = to_writer,
           \A k \in DOMAIN read_jobs' : (\E p \in InW : IsW(p, "receive", k)) =>
               k \in DOMAIN read_jobs /\ read_jobs'[k].file_num = read_jobs[k].file_num
    PROVE  UploadStart'
<1>1. SUFFICES ASSUME NEW p \in InW, W(p).kind = "receive"
               PROVE  BeginsAt(to_writer, read_jobs', W(p).id, W(p).num)
    BY DEF UploadStart, InW, W
<1>. QED BY <1>1 DEF UploadStart, BeginsAt, IsW

(* ... when a message of it tells where it is, or that it failed, ... *)
LEMMA StartPushed ==
    ASSUME TypeInv, TypeInv', UploadStart, NEW kind, kind # "receive", NEW i, NEW n,
           Pushes(to_writer, to_writer', kind, i, n),
           (\E p \in InW : IsW(p, "receive", i)) =>
               (kind \in {"digest", "block", "done"} =>
                   i \in DOMAIN read_jobs /\ n = read_jobs[i].file_num),
           \A k \in DOMAIN read_jobs' : (\E p \in InW : IsW(p, "receive", k)) =>
               \/ kind = "error" /\ k = i
               \/ k \in DOMAIN read_jobs /\ read_jobs'[k].file_num = read_jobs[k].file_num
    PROVE  UploadStart'
<1>1. SUFFICES ASSUME NEW p \in InW', W(p)'.kind = "receive"
               PROVE  BeginsAt(to_writer', read_jobs', W(p)'.id, W(p)'.num)
    BY DEF UploadStart
<1>2. /\ p \in InW /\ W(p)' = W(p)
      /\ to_writer \in Seq(Messages) /\ to_writer' \in Seq(Messages)
    BY <1>1 DEF Pushes, InW, W, TypeInv
<1>3. BeginsAt(to_writer, read_jobs, W(p).id, W(p).num) /\ IsW(p, "receive", W(p).id)
    BY <1>1, <1>2 DEF UploadStart, IsW
<1>4. PICK m : m = to_writer'[Len(to_writer) + 1]
    OBVIOUS
<1>5. m.kind = kind /\ m.id = i
    BY <1>4 DEF Pushes
<1>6. IsEvent(m, W(p).id) => W(p).id \in DOMAIN read_jobs /\ n = read_jobs[W(p).id].file_num
    BY <1>2, <1>3, <1>5 DEF IsEvent
<1>7. \/ IsError(m, W(p).id)
      \/ W(p).id \in DOMAIN read_jobs' =>
             W(p).id \in DOMAIN read_jobs /\ read_jobs'[W(p).id].file_num = read_jobs[W(p).id].file_num
    BY <1>2, <1>3, <1>5 DEF IsError
<1>. QED BY <1>2, <1>3, <1>4, <1>6, <1>7, BeginsPushed

(* ... and when it is told of. *)
LEMMA StartTold ==
    ASSUME TypeInv, TypeInv', UploadStart, NEW i, NEW n,
           Pushes(to_writer, to_writer', "receive", i, n), Updates(read_jobs, read_jobs', i),
           read_jobs'[i].file_num = n, \A p \in InW : W(p).id # i
    PROVE  UploadStart'
<1>1. SUFFICES ASSUME NEW p \in InW', W(p)'.kind = "receive"
               PROVE  BeginsAt(to_writer', read_jobs', W(p)'.id, W(p)'.num)
    BY DEF UploadStart
<1>2. to_writer \in Seq(Messages) /\ to_writer' \in Seq(Messages)
    BY DEF TypeInv
<1>3. PICK m : m = to_writer'[Len(to_writer) + 1]
    OBVIOUS
<1>4. m.kind = "receive" /\ m.id = i /\ m.num = n
    BY <1>3 DEF Pushes
<1>5. \A k : ~IsEvent(m, k) /\ ~IsError(m, k)
    BY <1>4 DEF IsEvent, IsError
<1>6. CASE p \in InW /\ W(p)' = W(p)
    <2>1. BeginsAt(to_writer, read_jobs, W(p).id, W(p).num) /\ W(p).id # i
        BY <1>1, <1>6 DEF UploadStart
    <2>2. W(p).id \in DOMAIN read_jobs' => /\ W(p).id \in DOMAIN read_jobs
                                           /\ read_jobs'[W(p).id].file_num = read_jobs[W(p).id].file_num
        BY <2>1 DEF Updates
    <2>. QED BY <1>2, <1>3, <1>5, <1>6, <2>1, <2>2, BeginsPushed
<1>7. CASE W(p)' = m
    <2>1. \A r \in At(to_writer') : to_writer'[r].id = i => to_writer'[r] = m
        BY <1>3 DEF Pushes, InW, W
    <2>2. \A r \in At(to_writer') : ~IsEvent(to_writer'[r], i)
        BY <1>5, <2>1 DEF IsEvent
    <2>. QED BY <1>4, <1>7, <2>2 DEF BeginsAt
<1>8. (p \in InW /\ W(p)' = W(p)) \/ W(p)' = m
    BY <1>3 DEF Pushes, InW, W
<1>. QED BY <1>6, <1>7, <1>8

(* What is under way of an upload the host has not heard of is about the file it will begin with. *)
LEMMA UploadStartStep ==
    ASSUME TypeInv, TypeInv', IdInv, KindInv, UploadFreshInv, UploadOrder, UploadStart, NEW i \in
           Nat, NEW n \in Nat, NEW kind, UploadStep(i, n, kind)
    PROVE  UploadStart'
<1>0. \A k : (\E p \in InW : IsW(p, "receive", k)) =>
          /\ k \in DOMAIN read_jobs => ~read_jobs[k].file_confirmed /\ ~read_jobs[k].is_last_job
          /\ \A p \in InR : ~IsToken(p, k)
          /\ \A q \in asked : q[1] # k
          /\ k \in Ids
    BY DEF UploadFreshInv, UploadNew, IsW, IdInv
<1>00. jobs \in Nat /\ jobs + 1 \notin Ids
    BY DEF TypeInv, Ids
<1>1. CASE SendsDigest(i)
  <2>1. /\ Pushes(to_writer, to_writer', "digest", i, read_jobs[i].file_num)
        /\ Updates(read_jobs, read_jobs', i)
        /\ "digest" # "receive"
    BY <1>1, Zenon DEF SendsDigest, Timer
  <2>2. \A k \in DOMAIN read_jobs' : (\E p \in InW : IsW(p, "receive", k)) =>
            \/ "digest" = "error" /\ k = i
            \/ k \in DOMAIN read_jobs /\ read_jobs'[k].file_num = read_jobs[k].file_num
    BY <1>1, <1>0 DEF SendsDigest, Timer, Updates, Removes
  <2>3. (\E p \in InW : IsW(p, "receive", i)) =>
            ("digest" \in {"digest", "block", "done"} =>
                i \in DOMAIN read_jobs /\ read_jobs[i].file_num = read_jobs[i].file_num)
    BY <1>1, Zenon DEF SendsDigest, Timer
  <2>. QED BY <2>1, <2>2, <2>3, StartPushed
<1>2. CASE SendsBlock(i)
  <2>1. /\ Pushes(to_writer, to_writer', "block", i, read_jobs[i].file_num)
        /\ Updates(read_jobs, read_jobs', i)
        /\ "block" # "receive"
    BY <1>2, Zenon DEF SendsBlock, Timer
  <2>2. \A k \in DOMAIN read_jobs' : (\E p \in InW : IsW(p, "receive", k)) =>
            \/ "block" = "error" /\ k = i
            \/ k \in DOMAIN read_jobs /\ read_jobs'[k].file_num = read_jobs[k].file_num
    BY <1>2, <1>0 DEF SendsBlock, Timer, Updates, Removes
  <2>3. (\E p \in InW : IsW(p, "receive", i)) =>
            ("block" \in {"digest", "block", "done"} =>
                i \in DOMAIN read_jobs /\ read_jobs[i].file_num = read_jobs[i].file_num)
    BY <1>2, Zenon DEF SendsBlock, Timer
  <2>. QED BY <2>1, <2>2, <2>3, StartPushed
<1>3. CASE SendsEnd(i)
  <2>1. /\ Pushes(to_writer, to_writer', "block", i, read_jobs[i].file_num)
        /\ Updates(read_jobs, read_jobs', i)
        /\ "block" # "receive"
    BY <1>3, Zenon DEF SendsEnd, Timer
  <2>2. \A k \in DOMAIN read_jobs' : (\E p \in InW : IsW(p, "receive", k)) =>
            \/ "block" = "error" /\ k = i
            \/ k \in DOMAIN read_jobs /\ read_jobs'[k].file_num = read_jobs[k].file_num
    BY <1>3, <1>0 DEF SendsEnd, Timer, Updates, Removes
  <2>3. (\E p \in InW : IsW(p, "receive", i)) =>
            ("block" \in {"digest", "block", "done"} =>
                i \in DOMAIN read_jobs /\ read_jobs[i].file_num = read_jobs[i].file_num)
    BY <1>3, Zenon DEF SendsEnd, Timer
  <2>. QED BY <2>1, <2>2, <2>3, StartPushed
<1>4. CASE SendsReadError(i)
  <2>1. /\ Pushes(to_writer, to_writer', "error", i, read_jobs[i].file_num + 1)
        /\ Updates(read_jobs, read_jobs', i)
        /\ "error" # "receive"
    BY <1>4, Zenon DEF SendsReadError, Timer
  <2>2. \A k \in DOMAIN read_jobs' : (\E p \in InW : IsW(p, "receive", k)) =>
            \/ "error" = "error" /\ k = i
            \/ k \in DOMAIN read_jobs /\ read_jobs'[k].file_num = read_jobs[k].file_num
    BY <1>4, <1>0 DEF SendsReadError, Timer, Updates, Removes
  <2>3. (\E p \in InW : IsW(p, "receive", i)) =>
            ("error" \in {"digest", "block", "done"} =>
                i \in DOMAIN read_jobs /\ read_jobs[i].file_num + 1 = read_jobs[i].file_num)
    BY <1>4, Zenon DEF SendsReadError, Timer
  <2>. QED BY <2>1, <2>2, <2>3, StartPushed
<1>5. CASE SendsDigestError(i)
  <2>1. /\ Pushes(to_writer, to_writer', "error", i, read_jobs[i].file_num)
        /\ Updates(read_jobs, read_jobs', i)
        /\ "error" # "receive"
    BY <1>5, Zenon DEF SendsDigestError, Timer
  <2>2. \A k \in DOMAIN read_jobs' : (\E p \in InW : IsW(p, "receive", k)) =>
            \/ "error" = "error" /\ k = i
            \/ k \in DOMAIN read_jobs /\ read_jobs'[k].file_num = read_jobs[k].file_num
    BY <1>5, <1>0 DEF SendsDigestError, Timer, Updates, Removes
  <2>3. (\E p \in InW : IsW(p, "receive", i)) =>
            ("error" \in {"digest", "block", "done"} =>
                i \in DOMAIN read_jobs /\ read_jobs[i].file_num = read_jobs[i].file_num)
    BY <1>5, Zenon DEF SendsDigestError, Timer
  <2>. QED BY <2>1, <2>2, <2>3, StartPushed
<1>6. CASE SendsLast(i, kind)
  <2>1. /\ Pushes(to_writer, to_writer', kind, i, read_jobs[i].file_num)
        /\ Removes(read_jobs, read_jobs', i)
        /\ kind # "receive"
    BY <1>6, Zenon DEF SendsLast
  <2>2. \A k \in DOMAIN read_jobs' : (\E p \in InW : IsW(p, "receive", k)) =>
            \/ kind = "error" /\ k = i
            \/ k \in DOMAIN read_jobs /\ read_jobs'[k].file_num = read_jobs[k].file_num
    BY <1>6, <1>0 DEF SendsLast, Updates, Removes
  <2>3. (\E p \in InW : IsW(p, "receive", i)) =>
            (kind \in {"digest", "block", "done"} =>
                i \in DOMAIN read_jobs /\ read_jobs[i].file_num = read_jobs[i].file_num)
    BY <1>6, Zenon DEF SendsLast
  <2>. QED BY <2>1, <2>2, <2>3, StartPushed
<1>7. CASE GetsConfirm(i, n)
  <2>1. /\ Gets("confirm", i, n)
        /\ Updates(read_jobs, read_jobs', i)
        /\ to_writer' = to_writer /\ i \in DOMAIN read_jobs
    BY <1>7, Zenon DEF GetsConfirm, readerFrame
  <2>2. ~\E p \in InW : IsW(p, "receive", i)
    BY <1>0, <2>1 DEF Gets, Pops, IsToken, InR, R
  <2>. QED BY <2>1, <2>2, StartStill DEF Updates
<1>8. CASE GetsOther(kind, i, n)
    BY <1>8, StartStill DEF GetsOther, readerFrame
<1>9. CASE GetsDigestAsks(i, n)
    BY <1>9, StartStill DEF GetsDigestAsks
<1>10. ASSUME NEW b \in BOOLEAN, GetsDigestKnows(i, n, b) PROVE UploadStart'
  <2>1. /\ Gets("digest", i, n)
        /\ Updates(read_jobs, read_jobs', i)
        /\ to_writer' = to_writer /\ i \in DOMAIN read_jobs
    BY <1>10, Zenon DEF GetsDigestKnows
  <2>2. ~\E p \in InW : IsW(p, "receive", i)
    BY <1>0, <2>1 DEF Gets, Pops, IsToken, InR, R
  <2>. QED BY <2>1, <2>2, StartStill DEF Updates
<1>11. CASE TakesOther(kind, i, n)
  <2>1. Pops(to_writer, to_writer') /\ read_jobs' = read_jobs
    BY <1>11, Zenon DEF TakesOther, Takes
  <2>. QED BY <2>1, StartPopped
<1>12. CASE TakesReceive(i, n)
  <2>1. Pops(to_writer, to_writer') /\ read_jobs' = read_jobs
    BY <1>12, Zenon DEF TakesReceive, Takes
  <2>. QED BY <2>1, StartPopped
<1>13. CASE TakesCancel(i, n)
  <2>1. Pops(to_writer, to_writer') /\ read_jobs' = read_jobs
    BY <1>13, Zenon DEF TakesCancel, Takes
  <2>. QED BY <2>1, StartPopped
<1>14. CASE TakesDone(i, n)
  <2>1. Pops(to_writer, to_writer') /\ read_jobs' = read_jobs
    BY <1>14, Zenon DEF TakesDone, Takes
  <2>. QED BY <2>1, StartPopped
<1>15. CASE TakesError(i, n)
  <2>1. Pops(to_writer, to_writer') /\ read_jobs' = read_jobs
    BY <1>15, Zenon DEF TakesError, Takes
  <2>. QED BY <2>1, StartPopped
<1>16. CASE TakesDigestReturns(i, n)
  <2>1. Pops(to_writer, to_writer') /\ read_jobs' = read_jobs
    BY <1>16, Zenon DEF TakesDigestReturns, Takes
  <2>. QED BY <2>1, StartPopped
<1>17. CASE TakesDigestWants(i, n)
  <2>1. Pops(to_writer, to_writer') /\ read_jobs' = read_jobs
    BY <1>17, Zenon DEF TakesDigestWants, Takes
  <2>. QED BY <2>1, StartPopped
<1>18. CASE TakesDigestInVain(i, n)
  <2>1. Pops(to_writer, to_writer') /\ read_jobs' = read_jobs
    BY <1>18, Zenon DEF TakesDigestInVain, Takes
  <2>. QED BY <2>1, StartPopped
<1>19. CASE TakesBlock(i, n)
  <2>1. Pops(to_writer, to_writer') /\ read_jobs' = read_jobs
    BY <1>19, Zenon DEF TakesBlock, Takes
  <2>. QED BY <2>1, StartPopped
<1>20. CASE TakesBlockInVain(i, n)
  <2>1. Pops(to_writer, to_writer') /\ read_jobs' = read_jobs
    BY <1>20, Zenon DEF TakesBlockInVain, Takes
  <2>. QED BY <2>1, StartPopped
<1>21. CASE StartsUpload(i, n)
  <2>1. /\ Updates(read_jobs, read_jobs', i) /\ Pushes(to_writer, to_writer', "receive", i, n)
        /\ i = jobs + 1 /\ read_jobs'[i].file_num = n
    BY <1>21, Zenon DEF StartsUpload, IsNew
  <2>2. \A p \in InW : W(p).id # i
    BY <1>00, <2>1 DEF IdInv
  <2>. QED BY <2>1, <2>2, StartTold
<1>22. CASE AddsUpload(i, n)
  <2>1. /\ Updates(read_jobs, read_jobs', i) /\ to_writer' = to_writer /\ i = jobs + 1
    BY <1>22, Zenon DEF AddsUpload
  <2>. QED BY <1>0, <1>00, <2>1, StartStill DEF Updates
<1>23. CASE ResumesUpload(i, n)
  <2>1. /\ Updates(read_jobs, read_jobs', i) /\ Pushes(to_writer, to_writer', "receive", i, n)
        /\ i \in DOMAIN read_jobs /\ read_jobs[i].is_last_job /\ read_jobs'[i].file_num = n
    BY <1>23, Zenon DEF ResumesUpload, IsResumed
  <2>2. \A p \in InW : W(p).id # i
    BY <2>1 DEF UploadFreshInv
  <2>. QED BY <2>1, <2>2, StartTold
<1>24. CASE CancelsUpload(i)
  <2>1. /\ Pushes(to_writer, to_writer', "cancel", i, 0)
        /\ Removes(read_jobs, read_jobs', i)
        /\ "cancel" # "receive"
    BY <1>24, Zenon DEF CancelsUpload
  <2>2. \A k \in DOMAIN read_jobs' : (\E p \in InW : IsW(p, "receive", k)) =>
            \/ "cancel" = "error" /\ k = i
            \/ k \in DOMAIN read_jobs /\ read_jobs'[k].file_num = read_jobs[k].file_num
    BY <1>24, <1>0 DEF CancelsUpload, Updates, Removes
  <2>3. (\E p \in InW : IsW(p, "receive", i)) =>
            ("cancel" \in {"digest", "block", "done"} =>
                i \in DOMAIN read_jobs /\ 0 = read_jobs[i].file_num)
    BY <1>24, Zenon DEF CancelsUpload
  <2>. QED BY <2>1, <2>2, <2>3, StartPushed
<1>25. ASSUME NEW b \in BOOLEAN, AnswersUpload(i, n, b) PROVE UploadStart'
  <2>1. /\ <<i, n>> \in asked
        /\ Updates(read_jobs, read_jobs', i)
        /\ to_writer' = to_writer /\ i \in DOMAIN read_jobs
    BY <1>25, Zenon DEF AnswersUpload
  <2>2. ~\E p \in InW : IsW(p, "receive", i)
    BY <1>0, <2>1 DEF Gets, Pops, IsToken, InR, R
  <2>. QED BY <2>1, <2>2, StartStill DEF Updates
<1>26. CASE AnswersNobody(i, n)
    BY <1>26, StartStill DEF AnswersNobody
<1>27. CASE Reconnects
    BY <1>27 DEF Reconnects, UploadStart, InW
<1>28. CASE Stutters
    BY <1>28, StartStill DEF Stutters
<1>. QED BY <1>1, <1>2, <1>3, <1>4, <1>5, <1>6, <1>7, <1>8, <1>9, <1>10, <1>11, <1>12, <1>13,
   <1>14, <1>15, <1>16, <1>17, <1>18, <1>19, <1>20, <1>21, <1>22, <1>23, <1>24, <1>25, <1>26,
   <1>27, <1>28, Zenon DEF UploadStep

(* The connection manager knows the files from the start. *)
LEMMA UploadFilesStep ==
    ASSUME \A k \in DOMAIN write_jobs : write_jobs[k].files, NEW i \in Nat, NEW n \in Nat, NEW
           kind, UploadStep(i, n, kind)
    PROVE  \A k \in DOMAIN write_jobs' : write_jobs'[k].files
<1>1. CASE SendsDigest(i)
    BY <1>1, Zenon DEF SendsDigest, Timer, readerFrame
<1>2. CASE SendsBlock(i)
    BY <1>2, Zenon DEF SendsBlock, Timer, readerFrame
<1>3. CASE SendsEnd(i)
    BY <1>3, Zenon DEF SendsEnd, Timer, readerFrame
<1>4. CASE SendsReadError(i)
    BY <1>4, Zenon DEF SendsReadError, Timer, readerFrame
<1>5. CASE SendsDigestError(i)
    BY <1>5, Zenon DEF SendsDigestError, Timer, readerFrame
<1>6. CASE SendsLast(i, kind)
    BY <1>6, Zenon DEF SendsLast, readerFrame
<1>7. CASE GetsConfirm(i, n)
    BY <1>7, Zenon DEF GetsConfirm, readerFrame
<1>8. CASE GetsOther(kind, i, n)
    BY <1>8, Zenon DEF GetsOther, readerFrame
<1>9. CASE GetsDigestAsks(i, n)
    BY <1>9, Zenon DEF GetsDigestAsks
<1>10. ASSUME NEW b \in BOOLEAN, GetsDigestKnows(i, n, b)
       PROVE  \A k \in DOMAIN write_jobs' : write_jobs'[k].files
    BY <1>10, Zenon DEF GetsDigestKnows
<1>11. CASE TakesOther(kind, i, n)
    BY <1>11, Zenon DEF TakesOther
<1>12. CASE TakesReceive(i, n)
  <2>1. Updates(write_jobs, write_jobs', i) /\ write_jobs'[i].files
    BY <1>12, Zenon DEF TakesReceive, IsNew
  <2>. QED BY <2>1 DEF Updates
<1>13. CASE TakesCancel(i, n)
  <2>1. Removes(write_jobs, write_jobs', i)
    BY <1>13, Zenon DEF TakesCancel
  <2>. QED BY <2>1 DEF Removes
<1>14. CASE TakesDone(i, n)
  <2>1. Removes(write_jobs, write_jobs', i)
    BY <1>14, Zenon DEF TakesDone
  <2>. QED BY <2>1 DEF Removes
<1>15. CASE TakesError(i, n)
  <2>1. Removes(write_jobs, write_jobs', i)
    BY <1>15, Zenon DEF TakesError
  <2>. QED BY <2>1 DEF Removes
<1>16. CASE TakesDigestReturns(i, n)
    BY <1>16, Zenon DEF TakesDigestReturns
<1>17. CASE TakesDigestWants(i, n)
    BY <1>17, Zenon DEF TakesDigestWants
<1>18. CASE TakesDigestInVain(i, n)
    BY <1>18, Zenon DEF TakesDigestInVain
<1>19. CASE TakesBlock(i, n)
  <2>1. /\ i \in DOMAIN write_jobs /\ Updates(write_jobs, write_jobs', i)
        /\ write_jobs'[i].files = write_jobs[i].files
    BY <1>19, Zenon DEF TakesBlock, IsWriting
  <2>. QED BY <2>1 DEF Updates
<1>20. CASE TakesBlockInVain(i, n)
  <2>1. /\ i \in DOMAIN write_jobs /\ Updates(write_jobs, write_jobs', i)
        /\ write_jobs'[i].files = write_jobs[i].files
    BY <1>20, Zenon DEF TakesBlockInVain, IsWriting
  <2>. QED BY <2>1 DEF Updates
<1>21. CASE StartsUpload(i, n)
    BY <1>21, Zenon DEF StartsUpload
<1>22. CASE AddsUpload(i, n)
    BY <1>22, Zenon DEF AddsUpload
<1>23. CASE ResumesUpload(i, n)
    BY <1>23, Zenon DEF ResumesUpload
<1>24. CASE CancelsUpload(i)
    BY <1>24, Zenon DEF CancelsUpload
<1>25. ASSUME NEW b \in BOOLEAN, AnswersUpload(i, n, b)
       PROVE  \A k \in DOMAIN write_jobs' : write_jobs'[k].files
    BY <1>25, Zenon DEF AnswersUpload
<1>26. CASE AnswersNobody(i, n)
    BY <1>26, Zenon DEF AnswersNobody
<1>27. CASE Reconnects
    BY <1>27 DEF Reconnects
<1>28. CASE Stutters
    BY <1>28, Zenon DEF Stutters
<1>. QED BY <1>1, <1>2, <1>3, <1>4, <1>5, <1>6, <1>7, <1>8, <1>9, <1>10, <1>11, <1>12, <1>13,
   <1>14, <1>15, <1>16, <1>17, <1>18, <1>19, <1>20, <1>21, <1>22, <1>23, <1>24, <1>25, <1>26,
   <1>27, <1>28, Zenon DEF UploadStep

(* A write job the host has not heard of stays where it is ... *)
LEMMA DownloadStartStill ==
    ASSUME DownloadStart, write_jobs' = write_jobs, \A p \in InR' : \E q \in InR : R(p)' = R(q)
    PROVE  DownloadStart'
BY DEF DownloadStart, DownloadFresh, WaitsForUser, IsR

(* ... while one it has heard of goes on. *)
LEMMA DownloadStartChanged ==
    ASSUME DownloadStart, IdInv, ~upload, NEW i \in DOMAIN write_jobs, NEW n \in Nat,
           Updates(write_jobs, write_jobs', i),
           write_jobs'[i].is_last_job = write_jobs[i].is_last_job, ~DownloadFresh(i),
           to_reader' = to_reader \/ Pushes(to_reader, to_reader', "confirm", i, n)
    PROVE  DownloadStart'
<1>1. DOMAIN write_jobs' = {i}
    BY DEF Updates, IdInv
<1>2. \A p \in InR' : R(p)'.kind = "send" => p \in InR /\ R(p)' = R(p)
    BY DEF Pushes, InR, R
<1>3. ~DownloadFresh(i)'
    BY <1>2 DEF DownloadFresh, WaitsForUser, IsR, Updates
<1>. QED BY <1>1, <1>2, <1>3 DEF DownloadStart, DownloadFresh, IsR

(* A download the host has not heard of is where it will begin. *)
LEMMA DownloadStartStep ==
    ASSUME TypeInv, TypeInv', IdInv, KindInv, ~upload, DownloadInv, DownloadStart, NEW i \in Nat,
           NEW n \in Nat, NEW kind, DownloadStep(i, n, kind)
    PROVE  DownloadStart'
<1>0. \A k : DownloadFresh(k) => DownloadNew(k)
    BY DEF DownloadInv, DownloadFresh, WaitsForUser, IsR
<1>00. jobs \in Nat /\ jobs + 1 \notin Ids
    BY DEF TypeInv, Ids
<1>1. CASE SendsDigest(i)
  <2>1. UNCHANGED <<write_jobs, to_reader>>
    BY <1>1, Zenon DEF SendsDigest, Timer, readerFrame
  <2>2. \A p \in InR' : \E q \in InR : R(p)' = R(q)
    BY <2>1 DEF InR, R
  <2>. QED BY <2>1, <2>2, DownloadStartStill
<1>2. CASE SendsBlock(i)
  <2>1. UNCHANGED <<write_jobs, to_reader>>
    BY <1>2, Zenon DEF SendsBlock, Timer, readerFrame
  <2>2. \A p \in InR' : \E q \in InR : R(p)' = R(q)
    BY <2>1 DEF InR, R
  <2>. QED BY <2>1, <2>2, DownloadStartStill
<1>3. CASE SendsEnd(i)
  <2>1. UNCHANGED <<write_jobs, to_reader>>
    BY <1>3, Zenon DEF SendsEnd, Timer, readerFrame
  <2>2. \A p \in InR' : \E q \in InR : R(p)' = R(q)
    BY <2>1 DEF InR, R
  <2>. QED BY <2>1, <2>2, DownloadStartStill
<1>4. CASE SendsReadError(i)
  <2>1. UNCHANGED <<write_jobs, to_reader>>
    BY <1>4, Zenon DEF SendsReadError, Timer, readerFrame
  <2>2. \A p \in InR' : \E q \in InR : R(p)' = R(q)
    BY <2>1 DEF InR, R
  <2>. QED BY <2>1, <2>2, DownloadStartStill
<1>5. CASE SendsDigestError(i)
  <2>1. UNCHANGED <<write_jobs, to_reader>>
    BY <1>5, Zenon DEF SendsDigestError, Timer, readerFrame
  <2>2. \A p \in InR' : \E q \in InR : R(p)' = R(q)
    BY <2>1 DEF InR, R
  <2>. QED BY <2>1, <2>2, DownloadStartStill
<1>6. CASE SendsLast(i, kind)
  <2>1. UNCHANGED <<write_jobs, to_reader>>
    BY <1>6, Zenon DEF SendsLast, readerFrame
  <2>2. \A p \in InR' : \E q \in InR : R(p)' = R(q)
    BY <2>1 DEF InR, R
  <2>. QED BY <2>1, <2>2, DownloadStartStill
<1>7. CASE GetsSend(i, n)
  <2>1. write_jobs' = write_jobs /\ Pops(to_reader, to_reader')
    BY <1>7, Zenon DEF GetsSend, readerFrame, Gets
  <2>2. \A p \in InR' : \E q \in InR : R(p)' = R(q)
    BY <2>1 DEF Pops, InR, R
  <2>. QED BY <2>1, <2>2, DownloadStartStill
<1>8. CASE GetsSendInVain(i, n)
  <2>1. write_jobs' = write_jobs /\ Pops(to_reader, to_reader')
    BY <1>8, Zenon DEF GetsSendInVain, readerFrame, Gets
  <2>2. \A p \in InR' : \E q \in InR : R(p)' = R(q)
    BY <2>1 DEF Pops, InR, R
  <2>. QED BY <2>1, <2>2, DownloadStartStill
<1>9. CASE GetsCancel(i, n)
  <2>1. write_jobs' = write_jobs /\ Pops(to_reader, to_reader')
    BY <1>9, Zenon DEF GetsCancel, readerFrame, Gets
  <2>2. \A p \in InR' : \E q \in InR : R(p)' = R(q)
    BY <2>1 DEF Pops, InR, R
  <2>. QED BY <2>1, <2>2, DownloadStartStill
<1>10. CASE GetsConfirm(i, n)
  <2>1. write_jobs' = write_jobs /\ Pops(to_reader, to_reader')
    BY <1>10, Zenon DEF GetsConfirm, readerFrame, Gets
  <2>2. \A p \in InR' : \E q \in InR : R(p)' = R(q)
    BY <2>1 DEF Pops, InR, R
  <2>. QED BY <2>1, <2>2, DownloadStartStill
<1>11. CASE GetsOther(kind, i, n)
  <2>1. write_jobs' = write_jobs /\ Pops(to_reader, to_reader')
    BY <1>11, Zenon DEF GetsOther, readerFrame, Gets
  <2>2. \A p \in InR' : \E q \in InR : R(p)' = R(q)
    BY <2>1 DEF Pops, InR, R
  <2>. QED BY <2>1, <2>2, DownloadStartStill
<1>12. CASE TakesOther(kind, i, n)
  <2>1. UNCHANGED <<write_jobs, to_reader>>
    BY <1>12, Zenon DEF TakesOther
  <2>2. \A p \in InR' : \E q \in InR : R(p)' = R(q)
    BY <2>1 DEF InR, R
  <2>. QED BY <2>1, <2>2, DownloadStartStill
<1>13. CASE TakesDone(i, n)
  <2>1. Removes(write_jobs, write_jobs', i) /\ to_reader' = to_reader
    BY <1>13, Zenon DEF TakesDone, Told
  <2>. QED BY <2>1 DEF Removes, DownloadStart, DownloadFresh, WaitsForUser, IsR, InR, R
<1>14. CASE TakesError(i, n)
  <2>1. Removes(write_jobs, write_jobs', i) /\ to_reader' = to_reader
    BY <1>14, Zenon DEF TakesError, Told
  <2>. QED BY <2>1 DEF Removes, DownloadStart, DownloadFresh, WaitsForUser, IsR, InR, R
<1>15. CASE TakesDir(i, n)
  <2>1. /\ i \in DOMAIN write_jobs
        /\ Updates(write_jobs, write_jobs', i)
        /\ to_reader' = to_reader
        /\ write_jobs'[i].file_num = write_jobs[i].file_num /\ write_jobs'[i].file = write_jobs[i].file
        /\ write_jobs'[i].is_last_job = write_jobs[i].is_last_job
    BY <1>15, Zenon DEF TakesDir
  <2>. QED BY <2>1 DEF Updates, DownloadStart, DownloadFresh, WaitsForUser, IsR, InR, R
<1>16. CASE TakesDigestAsks(i, n)
  <2>1. UNCHANGED <<write_jobs, to_reader>>
    BY <1>16, Zenon DEF TakesDigestAsks
  <2>2. \A p \in InR' : \E q \in InR : R(p)' = R(q)
    BY <2>1 DEF InR, R
  <2>. QED BY <2>1, <2>2, DownloadStartStill
<1>17. ASSUME NEW b \in BOOLEAN, TakesDigestKnows(i, n, b) PROVE DownloadStart'
  <2>1. /\ i \in DOMAIN write_jobs /\ Updates(write_jobs, write_jobs', i) /\ Takes("digest", i, n)
        /\ write_jobs'[i].is_last_job = write_jobs[i].is_last_job
        /\ Pushes(to_reader, to_reader', "confirm", i, n)
    BY <1>17, Zenon DEF TakesDigestKnows, IsWriting, IsAnswered, Told
  <2>2. ~DownloadFresh(i)
    BY <1>0, <2>1 DEF DownloadNew, Takes, Pops, InW, W
  <2>. QED BY <2>1, <2>2, DownloadStartChanged
<1>18. CASE TakesDigestInVain(i, n)
  <2>1. UNCHANGED <<write_jobs, to_reader>>
    BY <1>18, Zenon DEF TakesDigestInVain, Told
  <2>2. \A p \in InR' : \E q \in InR : R(p)' = R(q)
    BY <2>1 DEF InR, R
  <2>. QED BY <2>1, <2>2, DownloadStartStill
<1>19. CASE TakesBlock(i, n)
  <2>1. /\ i \in DOMAIN write_jobs /\ Updates(write_jobs, write_jobs', i) /\ Takes("block", i, n)
        /\ write_jobs'[i].is_last_job = write_jobs[i].is_last_job
        /\ to_reader' = to_reader
    BY <1>19, Zenon DEF TakesBlock, IsWriting, IsAnswered, Told
  <2>2. ~DownloadFresh(i)
    BY <1>0, <2>1 DEF DownloadNew, Takes, Pops, InW, W
  <2>. QED BY <2>1, <2>2, DownloadStartChanged
<1>20. CASE TakesBlockInVain(i, n)
  <2>1. /\ i \in DOMAIN write_jobs /\ Updates(write_jobs, write_jobs', i) /\ Takes("block", i, n)
        /\ write_jobs'[i].is_last_job = write_jobs[i].is_last_job
        /\ to_reader' = to_reader
    BY <1>20, Zenon DEF TakesBlockInVain, IsWriting, IsAnswered, Told
  <2>2. ~DownloadFresh(i)
    BY <1>0, <2>1 DEF DownloadNew, Takes, Pops, InW, W
  <2>. QED BY <2>1, <2>2, DownloadStartChanged
<1>21. CASE StartsDownload(i, n)
  <2>1. /\ Updates(write_jobs, write_jobs', i) /\ Pushes(to_reader, to_reader', "send", i, n)
        /\ DOMAIN write_jobs = {} /\ i = jobs + 1
        /\ write_jobs'[i].file_num = n /\ write_jobs'[i].file = None
    BY <1>21, Zenon DEF StartsDownload, IsNew
  <2>2. DOMAIN write_jobs' = {i} /\ \A p \in InR : R(p).id # i
    BY <1>00, <2>1 DEF Updates, IdInv
  <2>3. \A p \in InR' : R(p)'.id = i => R(p)'.num = n
    BY <2>1, <2>2 DEF Pushes, InR, R
  <2>. QED BY <2>1, <2>2, <2>3 DEF DownloadStart
<1>22. CASE AddsDownload(i, n)
  <2>1. /\ Updates(write_jobs, write_jobs', i) /\ to_reader' = to_reader
        /\ DOMAIN write_jobs = {} /\ i = jobs + 1 /\ write_jobs'[i].file = None
    BY <1>22, Zenon DEF AddsDownload, IsNew
  <2>2. DOMAIN write_jobs' = {i} /\ \A p \in InR : R(p).id # i
    BY <1>00, <2>1 DEF Updates, IdInv
  <2>. QED BY <2>1, <2>2 DEF DownloadStart, InR, R
<1>23. CASE ResumesDownload(i, n)
  <2>1. /\ Updates(write_jobs, write_jobs', i) /\ Pushes(to_reader, to_reader', "send", i, n)
        /\ i \in DOMAIN write_jobs /\ write_jobs[i].is_last_job
        /\ write_jobs'[i].file_num = n /\ write_jobs'[i].file = write_jobs[i].file
    BY <1>23, Zenon DEF ResumesDownload, IsResumed
  <2>2. DOMAIN write_jobs' = {i} /\ \A p \in InR : R(p).id # i
    BY <2>1 DEF Updates, IdInv, DownloadInv
  <2>3. \A p \in InR' : R(p)'.id = i => R(p)'.num = n
    BY <2>1, <2>2 DEF Pushes, InR, R
  <2>4. write_jobs[i].file = None
    BY <2>1 DEF DownloadStart, DownloadFresh, WaitsForUser
  <2>. QED BY <2>1, <2>2, <2>3, <2>4 DEF DownloadStart
<1>24. CASE CancelsDownload(i)
  <2>1. Removes(write_jobs, write_jobs', i) /\ Pushes(to_reader, to_reader', "cancel", i, 0)
    BY <1>24, Zenon DEF CancelsDownload
  <2>2. \A p \in InR' : R(p)'.kind = "send" => p \in InR /\ R(p)' = R(p)
    BY <2>1 DEF Pushes, InR, R
  <2>. QED BY <2>1, <2>2 DEF Removes, DownloadStart, DownloadFresh, WaitsForUser, IsR
<1>25. ASSUME NEW b \in BOOLEAN, AnswersDownload(i, n, b) PROVE DownloadStart'
  <2>1. /\ i \in DOMAIN write_jobs /\ Updates(write_jobs, write_jobs', i) /\ <<i, n>> \in asked
        /\ write_jobs'[i].is_last_job = write_jobs[i].is_last_job
        /\ Pushes(to_reader, to_reader', "confirm", i, n)
    BY <1>25, Zenon DEF AnswersDownload, IsAnswered
  <2>2. ~DownloadFresh(i)
    BY <1>0, <2>1 DEF DownloadNew
  <2>. QED BY <2>1, <2>2, DownloadStartChanged
<1>26. CASE AnswersNobody(i, n)
  <2>1. UNCHANGED <<write_jobs, to_reader>>
    BY <1>26, Zenon DEF AnswersNobody
  <2>2. \A p \in InR' : \E q \in InR : R(p)' = R(q)
    BY <2>1 DEF InR, R
  <2>. QED BY <2>1, <2>2, DownloadStartStill
<1>27. CASE Reconnects
    BY <1>27 DEF Reconnects, DownloadStart, InR
<1>28. CASE Stutters
  <2>1. UNCHANGED <<write_jobs, to_reader>>
    BY <1>28, Zenon DEF Stutters
  <2>2. \A p \in InR' : \E q \in InR : R(p)' = R(q)
    BY <2>1 DEF InR, R
  <2>. QED BY <2>1, <2>2, DownloadStartStill
<1>. QED BY <1>1, <1>2, <1>3, <1>4, <1>5, <1>6, <1>7, <1>8, <1>9, <1>10, <1>11, <1>12, <1>13,
   <1>14, <1>15, <1>16, <1>17, <1>18, <1>19, <1>20, <1>21, <1>22, <1>23, <1>24, <1>25, <1>26,
   <1>27, <1>28, Zenon DEF DownloadStep

(* The list of files stays before the first block ... *)
LEMMA FilesPopped ==
    ASSUME TypeInv, TypeInv', DownloadFiles, Pops(to_writer, to_writer'),
           DOMAIN read_jobs' \subseteq DOMAIN read_jobs,
           \A k \in DOMAIN write_jobs' :
               /\ k \in DOMAIN write_jobs /\ write_jobs'[k].files = write_jobs[k].files
               /\ ~(to_writer[1].kind = "dir" /\ to_writer[1].id = k)
    PROVE  DownloadFiles'
<1>1. SUFFICES ASSUME NEW k \in DOMAIN write_jobs', ~write_jobs'[k].files
               PROVE  FilesFirst(to_writer', DOMAIN read_jobs', k)
    BY DEF DownloadFiles
<1>2. to_writer \in Seq(Messages) /\ to_writer' \in Seq(Messages)
    BY DEF TypeInv
<1>3. /\ \A p \in At(to_writer) : p \in Nat /\ p >= 1
      /\ \A p \in At(to_writer') : /\ p \in Nat /\ p >= 1 /\ p + 1 \in At(to_writer)
                                   /\ to_writer'[p] = to_writer[p + 1]
      /\ \A p \in At(to_writer) : p # 1 => /\ p - 1 \in At(to_writer')
                                           /\ to_writer'[p - 1] = to_writer[p]
    BY <1>2, PoppedLength
<1>4. FilesFirst(to_writer, DOMAIN read_jobs, k)
    BY <1>1 DEF DownloadFiles
<1>5. \A r \in At(to_writer) : to_writer[r].kind = "dir" /\ to_writer[r].id = k => r # 1
    OBVIOUS
<1>6. k \in DOMAIN read_jobs' => \E p \in At(to_writer') : to_writer'[p].kind = "dir" /\ to_writer'[p].id = k
    BY <1>3, <1>4, <1>5 DEF FilesFirst
<1>7. ASSUME NEW p \in At(to_writer'), to_writer'[p].kind = "block", to_writer'[p].id = k
      PROVE  \E r \in At(to_writer') : r < p /\ to_writer'[r].kind = "dir" /\ to_writer'[r].id = k
    <2>1. PICK r \in At(to_writer) : r < p + 1 /\ to_writer[r].kind = "dir" /\ to_writer[r].id = k
        BY <1>3, <1>4, <1>7 DEF FilesFirst
    <2>2. r - 1 \in At(to_writer') /\ to_writer'[r - 1] = to_writer[r] /\ r - 1 < p
        BY <1>3, <1>5, <2>1
    <2>. QED BY <2>1, <2>2
<1>. QED BY <1>6, <1>7 DEF FilesFirst

(* ... and when more is sent. *)
LEMMA FilesPushed ==
    ASSUME TypeInv, TypeInv', DownloadFiles, NEW kind, NEW i, NEW n,
           Pushes(to_writer, to_writer', kind, i, n),
           \A k \in DOMAIN read_jobs' : k \in DOMAIN read_jobs \/ (kind = "dir" /\ k = i),
           kind = "block" => i \in DOMAIN read_jobs, write_jobs' = write_jobs
    PROVE  DownloadFiles'
<1>1. SUFFICES ASSUME NEW k \in DOMAIN write_jobs, ~write_jobs[k].files
               PROVE  FilesFirst(to_writer', DOMAIN read_jobs', k)
    BY DEF DownloadFiles
<1>2. to_writer \in Seq(Messages) /\ to_writer' \in Seq(Messages)
    BY DEF TypeInv
<1>3. FilesFirst(to_writer, DOMAIN read_jobs, k)
    BY <1>1 DEF DownloadFiles
<1>4. k \in DOMAIN read_jobs' =>
          \E p \in At(to_writer') : to_writer'[p].kind = "dir" /\ to_writer'[p].id = k
    BY <1>3 DEF FilesFirst, Pushes
<1>5. ASSUME NEW p \in At(to_writer'), to_writer'[p].kind = "block", to_writer'[p].id = k
      PROVE  \E r \in At(to_writer') : r < p /\ to_writer'[r].kind = "dir" /\ to_writer'[r].id = k
    BY <1>3, <1>5 DEF FilesFirst, Pushes
<1>. QED BY <1>4, <1>5 DEF FilesFirst

(* The client is told the files of a download before it gets blocks of them. *)
LEMMA DownloadFilesStep ==
    ASSUME TypeInv, TypeInv', IdInv, ~upload, DownloadFiles, NEW i \in Nat, NEW n \in Nat, NEW
           kind, DownloadStep(i, n, kind)
    PROVE  DownloadFiles'
<1>00. jobs \in Nat /\ jobs + 1 \notin Ids
    BY DEF TypeInv, Ids
<1>1. CASE SendsDigest(i)
  <2>1. /\ Pushes(to_writer, to_writer', "digest", i, read_jobs[i].file_num)
        /\ i \in DOMAIN read_jobs
        /\ Updates(read_jobs, read_jobs', i) /\ write_jobs' = write_jobs
    BY <1>1, Zenon DEF SendsDigest, Timer, readerFrame
  <2>. QED BY <2>1, FilesPushed DEF Updates
<1>2. CASE SendsBlock(i)
  <2>1. /\ Pushes(to_writer, to_writer', "block", i, read_jobs[i].file_num)
        /\ i \in DOMAIN read_jobs
        /\ Updates(read_jobs, read_jobs', i) /\ write_jobs' = write_jobs
    BY <1>2, Zenon DEF SendsBlock, Timer, readerFrame
  <2>. QED BY <2>1, FilesPushed DEF Updates
<1>3. CASE SendsEnd(i)
  <2>1. /\ Pushes(to_writer, to_writer', "block", i, read_jobs[i].file_num)
        /\ i \in DOMAIN read_jobs
        /\ Updates(read_jobs, read_jobs', i) /\ write_jobs' = write_jobs
    BY <1>3, Zenon DEF SendsEnd, Timer, readerFrame
  <2>. QED BY <2>1, FilesPushed DEF Updates
<1>4. CASE SendsReadError(i)
  <2>1. /\ Pushes(to_writer, to_writer', "error", i, read_jobs[i].file_num + 1)
        /\ i \in DOMAIN read_jobs
        /\ Updates(read_jobs, read_jobs', i) /\ write_jobs' = write_jobs
    BY <1>4, Zenon DEF SendsReadError, Timer, readerFrame
  <2>. QED BY <2>1, FilesPushed DEF Updates
<1>5. CASE SendsDigestError(i)
  <2>1. /\ Pushes(to_writer, to_writer', "error", i, read_jobs[i].file_num)
        /\ i \in DOMAIN read_jobs
        /\ Updates(read_jobs, read_jobs', i) /\ write_jobs' = write_jobs
    BY <1>5, Zenon DEF SendsDigestError, Timer, readerFrame
  <2>. QED BY <2>1, FilesPushed DEF Updates
<1>6. CASE SendsLast(i, kind)
  <2>1. /\ Pushes(to_writer, to_writer', kind, i, read_jobs[i].file_num) /\ i \in DOMAIN read_jobs
        /\ Removes(read_jobs, read_jobs', i) /\ write_jobs' = write_jobs
    BY <1>6, Zenon DEF SendsLast, readerFrame
  <2>. QED BY <2>1, FilesPushed DEF Removes
<1>7. CASE GetsSend(i, n)
  <2>1. /\ Pushes(to_writer, to_writer', "dir", i, 0) /\ Updates(read_jobs, read_jobs', i)
        /\ write_jobs' = write_jobs
    BY <1>7, Zenon DEF GetsSend, readerFrame
  <2>. QED BY <2>1, FilesPushed DEF Updates
<1>8. CASE GetsSendInVain(i, n)
  <2>1. /\ Pushes(to_writer, to_writer', "error", i, 0)
        /\ read_jobs' = read_jobs
        /\ write_jobs' = write_jobs
    BY <1>8, Zenon DEF GetsSendInVain, readerFrame
  <2>. QED BY <2>1, FilesPushed
<1>9. CASE GetsCancel(i, n)
  <2>1. Removes(read_jobs, read_jobs', i) /\ UNCHANGED <<to_writer, write_jobs>>
    BY <1>9, Zenon DEF GetsCancel, readerFrame
  <2>. QED BY <2>1 DEF Removes, DownloadFiles, FilesFirst
<1>10. CASE GetsConfirm(i, n)
  <2>1. /\ i \in DOMAIN read_jobs
        /\ Updates(read_jobs, read_jobs', i)
        /\ UNCHANGED <<to_writer, write_jobs>>
    BY <1>10, Zenon DEF GetsConfirm, readerFrame
  <2>2. DOMAIN read_jobs' = DOMAIN read_jobs
    BY <2>1 DEF Updates
  <2>. QED BY <2>1, <2>2 DEF DownloadFiles, FilesFirst
<1>11. CASE GetsOther(kind, i, n)
    BY <1>11 DEF GetsOther, readerFrame, DownloadFiles, FilesFirst
<1>12. CASE TakesOther(kind, i, n)
  <2>1. Takes(kind, i, n) /\ i \notin DOMAIN write_jobs /\ UNCHANGED <<read_jobs, write_jobs>>
    BY <1>12, Zenon DEF TakesOther
  <2>. QED BY <2>1, FilesPopped DEF Takes
<1>13. CASE TakesDone(i, n)
  <2>1. Removes(write_jobs, write_jobs', i) /\ i \in DOMAIN write_jobs
    BY <1>13, Zenon DEF TakesDone
  <2>2. DOMAIN write_jobs' = {}
    BY <2>1 DEF Removes, IdInv
  <2>. QED BY <2>2 DEF DownloadFiles
<1>14. CASE TakesError(i, n)
  <2>1. Removes(write_jobs, write_jobs', i) /\ i \in DOMAIN write_jobs
    BY <1>14, Zenon DEF TakesError
  <2>2. DOMAIN write_jobs' = {}
    BY <2>1 DEF Removes, IdInv
  <2>. QED BY <2>2 DEF DownloadFiles
<1>15. CASE TakesDir(i, n)
  <2>1. Updates(write_jobs, write_jobs', i) /\ i \in DOMAIN write_jobs /\ write_jobs'[i].files
    BY <1>15, Zenon DEF TakesDir
  <2>2. \A k \in DOMAIN write_jobs' : k = i
    BY <2>1 DEF Updates, IdInv
  <2>. QED BY <2>1, <2>2 DEF DownloadFiles
<1>16. CASE TakesDigestAsks(i, n)
  <2>1. Takes("digest", i, n) /\ UNCHANGED <<read_jobs, write_jobs>>
    BY <1>16, Zenon DEF TakesDigestAsks
  <2>. QED BY <2>1, FilesPopped DEF Takes
<1>17. ASSUME NEW b \in BOOLEAN, TakesDigestKnows(i, n, b) PROVE DownloadFiles'
  <2>1. /\ Takes("digest", i, n) /\ i \in DOMAIN write_jobs /\ Updates(write_jobs, write_jobs', i)
        /\ write_jobs'[i].files = write_jobs[i].files /\ read_jobs' = read_jobs
    BY <1>17, Zenon DEF TakesDigestKnows, IsWriting, IsAnswered
  <2>. QED BY <2>1, FilesPopped DEF Takes, Updates
<1>18. CASE TakesDigestInVain(i, n)
  <2>1. Takes("digest", i, n) /\ UNCHANGED <<read_jobs, write_jobs>>
    BY <1>18, Zenon DEF TakesDigestInVain
  <2>. QED BY <2>1, FilesPopped DEF Takes
<1>19. CASE TakesBlock(i, n)
  <2>1. /\ Takes("block", i, n) /\ i \in DOMAIN write_jobs /\ Updates(write_jobs, write_jobs', i)
        /\ write_jobs'[i].files = write_jobs[i].files /\ read_jobs' = read_jobs
    BY <1>19, Zenon DEF TakesBlock, IsWriting, IsAnswered
  <2>. QED BY <2>1, FilesPopped DEF Takes, Updates
<1>20. CASE TakesBlockInVain(i, n)
  <2>1. /\ Takes("block", i, n) /\ i \in DOMAIN write_jobs /\ Updates(write_jobs, write_jobs', i)
        /\ write_jobs'[i].files = write_jobs[i].files /\ read_jobs' = read_jobs
    BY <1>20, Zenon DEF TakesBlockInVain, IsWriting, IsAnswered
  <2>. QED BY <2>1, FilesPopped DEF Takes, Updates
<1>21. CASE StartsDownload(i, n)
  <2>1. /\ Updates(write_jobs, write_jobs', i) /\ DOMAIN write_jobs = {} /\ i = jobs + 1
        /\ UNCHANGED <<read_jobs, to_writer>>
    BY <1>21, Zenon DEF StartsDownload
  <2>2. \A k \in DOMAIN write_jobs' : k \notin DOMAIN read_jobs /\ \A p \in InW : W(p).id # k
    BY <1>00, <2>1 DEF Updates, IdInv
  <2>. QED BY <2>1, <2>2 DEF DownloadFiles, FilesFirst, InW, W
<1>22. CASE AddsDownload(i, n)
  <2>1. /\ Updates(write_jobs, write_jobs', i) /\ DOMAIN write_jobs = {} /\ i = jobs + 1
        /\ UNCHANGED <<read_jobs, to_writer>>
    BY <1>22, Zenon DEF AddsDownload
  <2>2. \A k \in DOMAIN write_jobs' : k \notin DOMAIN read_jobs /\ \A p \in InW : W(p).id # k
    BY <1>00, <2>1 DEF Updates, IdInv
  <2>. QED BY <2>1, <2>2 DEF DownloadFiles, FilesFirst, InW, W
<1>23. CASE ResumesDownload(i, n)
  <2>1. /\ Updates(write_jobs, write_jobs', i) /\ i \in DOMAIN write_jobs
        /\ write_jobs'[i].files = write_jobs[i].files /\ UNCHANGED <<read_jobs, to_writer>>
    BY <1>23, Zenon DEF ResumesDownload, IsResumed
  <2>. QED BY <2>1 DEF Updates, DownloadFiles, FilesFirst
<1>24. CASE CancelsDownload(i)
  <2>1. Removes(write_jobs, write_jobs', i) /\ i \in DOMAIN write_jobs
    BY <1>24, Zenon DEF CancelsDownload
  <2>2. DOMAIN write_jobs' = {}
    BY <2>1 DEF Removes, IdInv
  <2>. QED BY <2>2 DEF DownloadFiles
<1>25. ASSUME NEW b \in BOOLEAN, AnswersDownload(i, n, b) PROVE DownloadFiles'
  <2>1. /\ Updates(write_jobs, write_jobs', i) /\ i \in DOMAIN write_jobs
        /\ write_jobs'[i].files = write_jobs[i].files /\ UNCHANGED <<read_jobs, to_writer>>
    BY <1>25, Zenon DEF AnswersDownload, IsAnswered
  <2>. QED BY <2>1 DEF Updates, DownloadFiles, FilesFirst
<1>26. CASE AnswersNobody(i, n)
    BY <1>26 DEF AnswersNobody, DownloadFiles, FilesFirst
<1>27. CASE Reconnects
    BY <1>27 DEF Reconnects, DownloadFiles
<1>28. CASE Stutters
    BY <1>28 DEF Stutters, DownloadFiles, FilesFirst
<1>. QED BY <1>1, <1>2, <1>3, <1>4, <1>5, <1>6, <1>7, <1>8, <1>9, <1>10, <1>11, <1>12, <1>13,
   <1>14, <1>15, <1>16, <1>17, <1>18, <1>19, <1>20, <1>21, <1>22, <1>23, <1>24, <1>25, <1>26,
   <1>27, <1>28, Zenon DEF DownloadStep

(* A job begins where the two sides agreed. *)
LEMMA StartStep ==
    ASSUME TypeInv, TypeInv', IdInv, KindInv, OrderInv, StartInv, NEW i \in Nat, NEW n \in Nat,
           NEW kind,
           Step(i, n, kind), upload' = upload
    PROVE  StartInv'
<1>1. CASE upload
    <2>1. /\ UploadStart /\ UploadFreshInv /\ UploadOrder
          /\ \A k \in DOMAIN write_jobs : write_jobs[k].files
        BY <1>1 DEF StartInv, OrderInv
    <2>2. UploadStep(i, n, kind)
        BY <1>1, UploadSteps
    <2>3. UploadStart'
        BY <2>1, <2>2, UploadStartStep
    <2>4. \A k \in DOMAIN write_jobs' : write_jobs'[k].files
        BY <1>1, <2>1, <2>2, UploadFilesStep
    <2>. QED BY <1>1, <2>3, <2>4 DEF StartInv
<1>2. CASE ~upload
    <2>1. DownloadStart /\ DownloadFiles /\ DownloadInv
        BY <1>2 DEF StartInv, OrderInv
    <2>2. DownloadStep(i, n, kind)
        BY <1>2, DownloadSteps
    <2>3. DownloadStart'
        BY <1>2, <2>1, <2>2, DownloadStartStep
    <2>4. DownloadFiles'
        BY <1>2, <2>1, <2>2, DownloadFilesStep
    <2>. QED BY <1>2, <2>3, <2>4 DEF StartInv
<1>. QED BY <1>1, <1>2

-----------------------------------------------------------------------------
(* What is under way is next, after each step.                             *)

(* Where writer and reader of a job are. *)
LEMMA WriterOfSame ==
    ASSUME NEW d, NEW js, NEW js2, NEW i, js2[i].file_num = js[i].file_num, js2[i].file =
           js[i].file
    PROVE  WriterOf(d, js2, i) = WriterOf(d, js, i)
BY DEF WriterOf, WriterAt

(* See WriterOfSame. *)
LEMMA ReaderOne ==
    ASSUME NEW js, NEW i
    PROVE  /\ i \in DOMAIN js => ReaderAt(js, i) = {PlaceOf(js[i])}
           /\ i \notin DOMAIN js => ReaderAt(js, i) = {}
BY DEF ReaderAt

(* See WriterOfSame. *)
LEMMA ReaderOther ==
    ASSUME NEW js, NEW js2, NEW i, Updates(js, js2, i) \/ Removes(js, js2, i), NEW k, k # i
    PROVE  ReaderAt(js2, k) = ReaderAt(js, k)
<1>1. CASE k \in DOMAIN js
    <2>1. k \in DOMAIN js2 /\ js2[k] = js[k]
        BY <1>1 DEF Updates, Removes
    <2>. QED BY <1>1, <2>1, ReaderOne
<1>2. CASE k \notin DOMAIN js
    <2>1. k \notin DOMAIN js2
        BY <1>2 DEF Updates, Removes
    <2>. QED BY <1>2, <2>1, ReaderOne
<1>. QED BY <1>1, <1>2

(* There is one write job at a time. *)
LEMMA OneWriter ==
    ASSUME IdInv, OrderInv, NEW i \in DOMAIN write_jobs, NEW k \in DOMAIN write_jobs
    PROVE  i = k
BY DEF IdInv, OrderInv, UploadSingle

(* Reader and writer are where they were, or at a place that meets it. *)
LEMMA StillStream ==
    ASSUME StreamInv, to_writer' = to_writer, verdict' = verdict,
           \A k \in DOMAIN write_jobs' :
               /\ k \in DOMAIN write_jobs
               /\ WriterOf(disk', write_jobs', k) = WriterOf(disk, write_jobs, k)
               /\ \A b2 \in ReaderAt(read_jobs', k) :
                     \E b \in ReaderAt(read_jobs, k) : Meets(verdict, b, b2)
    PROVE  StreamInv'
<1>1. SUFFICES ASSUME NEW k \in DOMAIN write_jobs'
               PROVE  Stream(k, to_writer, verdict, WriterOf(disk', write_jobs', k),
                             ReaderAt(read_jobs', k))
    BY DEF StreamInv
<1>2. Stream(k, to_writer, verdict, WriterOf(disk, write_jobs, k), ReaderAt(read_jobs, k))
    BY DEF StreamInv
<1>3. \A a \in WriterOf(disk, write_jobs, k) :
          \E a2 \in WriterOf(disk', write_jobs', k) : Meets(verdict, a2, a)
    BY MeetsItself
<1>. QED BY <1>2, <1>3, StreamMoved

(* A message is sent that is about neither. *)
LEMMA AsideStream ==
    ASSUME TypeInv, TypeInv', StreamInv, NEW kind, NEW i, NEW n,
           Pushes(to_writer, to_writer', kind, i, n), kind \in {"dir", "receive", "cancel"},
           verdict' = verdict,
           \A k \in DOMAIN write_jobs' :
               /\ k \in DOMAIN write_jobs
               /\ WriterOf(disk', write_jobs', k) = WriterOf(disk, write_jobs, k)
               /\ ReaderAt(read_jobs', k) \subseteq ReaderAt(read_jobs, k)
    PROVE  StreamInv'
<1>1. SUFFICES ASSUME NEW k \in DOMAIN write_jobs'
               PROVE  Stream(k, to_writer', verdict, WriterOf(disk', write_jobs', k),
                             ReaderAt(read_jobs', k))
    BY DEF StreamInv
<1>2. Stream(k, to_writer, verdict, WriterOf(disk, write_jobs, k), ReaderAt(read_jobs, k))
    BY DEF StreamInv
<1>3. to_writer \in Seq(Messages) /\ to_writer' \in Seq(Messages)
    BY DEF TypeInv
<1>4. ~IsEvent(to_writer'[Len(to_writer) + 1], k)
    BY DEF Pushes, IsEvent
<1>5. Stream(k, to_writer', verdict, WriterOf(disk, write_jobs, k), ReaderAt(read_jobs, k))
    BY <1>2, <1>3, <1>4, StreamAside
<1>6. \A b2 \in ReaderAt(read_jobs', k) : b2 \in ReaderAt(read_jobs, k) /\ Meets(verdict, b2, b2)
    BY MeetsItself
<1>7. \A a \in WriterOf(disk, write_jobs, k) :
          a \in WriterOf(disk', write_jobs', k) /\ Meets(verdict, a, a)
    BY MeetsItself
<1>. QED BY <1>5, <1>6, <1>7, StreamMoved

(* The reader sends what is next, or an error. *)
LEMMA SentStream ==
    ASSUME TypeInv, TypeInv', StreamInv, NEW kind, NEW i, NEW n,
           Pushes(to_writer, to_writer', kind, i, n), UNCHANGED <<write_jobs, disk, verdict>>,
           Updates(read_jobs, read_jobs', i) \/ Removes(read_jobs, read_jobs', i),
           \/ kind = "error"
           \/ /\ kind \in {"digest", "block", "done"}
              /\ i \in DOMAIN read_jobs
              /\ PlaceOf(read_jobs[i]) = Begin(to_writer'[Len(to_writer) + 1])
              /\ \A b \in ReaderAt(read_jobs', i) : b = End(to_writer'[Len(to_writer) + 1])
    PROVE  StreamInv'
<1>1. SUFFICES ASSUME NEW k \in DOMAIN write_jobs
               PROVE  Stream(k, to_writer', verdict, WriterOf(disk, write_jobs, k),
                             ReaderAt(read_jobs', k))
    BY DEF StreamInv
<1>2. Stream(k, to_writer, verdict, WriterOf(disk, write_jobs, k), ReaderAt(read_jobs, k))
    BY DEF StreamInv
<1>3. to_writer \in Seq(Messages) /\ to_writer' \in Seq(Messages)
    BY DEF TypeInv
<1>4. PICK m : m = to_writer'[Len(to_writer) + 1]
    OBVIOUS
<1>5. m.kind = kind /\ m.id = i
    BY <1>4 DEF Pushes
<1>6. CASE k # i
    <2>1. ~IsEvent(m, k) /\ ReaderAt(read_jobs', k) = ReaderAt(read_jobs, k)
        BY <1>5, <1>6, ReaderOther DEF IsEvent
    <2>. QED BY <1>2, <1>3, <1>4, <2>1, StreamAside
<1>7. CASE k = i /\ kind = "error"
    <2>1. IsError(m, k)
        BY <1>5, <1>7 DEF IsError
    <2>. QED BY <1>2, <1>3, <1>4, <2>1, StreamError
<1>8. CASE k = i /\ kind # "error"
    <2>1. IsEvent(m, k)
        BY <1>5, <1>8 DEF IsEvent
    <2>2. Begin(m) \in ReaderAt(read_jobs, k)
        BY <1>4, <1>8, ReaderOne
    <2>3. \A b \in ReaderAt(read_jobs', k) : Meets(verdict, End(m), b)
        BY <1>4, <1>8, MeetsItself
    <2>4. Meets(verdict, Begin(m), Begin(m))
        BY MeetsItself
    <2>. QED BY <1>2, <1>3, <1>4, <2>1, <2>2, <2>3, <2>4, StreamEvent
<1>. QED BY <1>6, <1>7, <1>8

(* The writer takes a message that does not end its job and has no data. *)
LEMMA TakenStream ==
    ASSUME TypeInv, TypeInv', StreamInv, NEW kind, NEW i, NEW n, Takes(kind, i, n),
           UNCHANGED <<read_jobs, verdict>>,
           \A k \in DOMAIN write_jobs' :
               /\ k \in DOMAIN write_jobs
               /\ WriterOf(disk', write_jobs', k) = WriterOf(disk, write_jobs, k)
               /\ k = i => kind \in {"dir", "digest"}
    PROVE  StreamInv'
<1>1. SUFFICES ASSUME NEW k \in DOMAIN write_jobs'
               PROVE  Stream(k, to_writer', verdict, WriterOf(disk', write_jobs', k),
                             ReaderAt(read_jobs, k))
    BY DEF StreamInv
<1>2. Stream(k, to_writer, verdict, WriterOf(disk, write_jobs, k), ReaderAt(read_jobs, k))
    BY DEF StreamInv
<1>3. to_writer \in Seq(Messages) /\ to_writer' \in Seq(Messages) /\ Pops(to_writer, to_writer')
    BY DEF TypeInv, Takes
<1>4. PICK As : As = WriterOf(disk, write_jobs, k)
    OBVIOUS
<1>5. WriterOf(disk', write_jobs', k) = As
    BY <1>4
<1>6. ~IsError(to_writer[1], k)
    BY DEF Takes, IsError
<1>7. CASE ~IsEvent(to_writer[1], k)
    BY <1>2, <1>3, <1>4, <1>5, <1>6, <1>7, StreamTaken
<1>8. CASE IsEvent(to_writer[1], k)
    <2>1. Begin(to_writer[1]) = End(to_writer[1])
        BY <1>8 DEF IsEvent, Takes, Begin, End
    <2>2. 1 \in At(to_writer)
        BY <1>3 DEF Pops
    <2>3. \E a \in As : Meets(verdict, a, Begin(to_writer[1]))
        BY <1>2, <1>3, <1>4, <1>8, <2>2, StreamHead
    <2>4. End(to_writer[1]) \in {End(to_writer[1])}
        OBVIOUS
    <2>5. Stream(k, to_writer', verdict, {End(to_writer[1])}, ReaderAt(read_jobs, k))
        BY <1>2, <1>3, <1>6, <1>8, <2>4, StreamTaken
    <2>6. \A b2 \in ReaderAt(read_jobs, k) : Meets(verdict, b2, b2)
        BY MeetsItself
    <2>. QED BY <1>5, <2>1, <2>3, <2>5, <2>6, StreamMoved
<1>. QED BY <1>7, <1>8

(* The reader goes on with the file, or after it, as it is answered. *)
LEMMA AnsweredPlace ==
    ASSUME NEW job, NEW job2, NEW n \in Files, NEW b \in BOOLEAN, NEW v, IsAnswered(job, job2, n,
           b),
           job.file_num = n, job.file = 0, b \/ v[n] = "skip"
    PROVE  Meets(v, <<n, 0>>, PlaceOf(job2))
<1>1. CASE b
    <2>1. job2.file_num = n /\ job2.file = 0
        BY <1>1, Zenon DEF IsAnswered
    <2>2. PlaceOf(job2) = <<n, 0>>
        BY <2>1 DEF PlaceOf
    <2>. QED BY <2>2, MeetsItself
<1>2. CASE ~b
    <2>1. job2.file_num = n + 1 /\ ~job2.file_confirmed
        BY <1>2, Zenon DEF IsAnswered
    <2>2. PlaceOf(job2) = <<n + 1, 0>>
        BY <2>1 DEF PlaceOf
    <2>. QED BY <1>2, <2>2, MeetsSkipped
<1>. QED BY <1>1, <1>2

(* Where a reader is that waits for an answer. *)
LEMMA WaitingPlace ==
    ASSUME DataInv, NEW i \in DOMAIN read_jobs, NEW n, Waits(i, n)
    PROVE  /\ PlaceOf(read_jobs[i]) = <<n, 0>>
           /\ read_jobs[i].file_num = n /\ read_jobs[i].file = 0
BY DEF Waits, DataInv, PlaceOf

(* An answer is taken from the queue or from the user, who was asked about *)
(* the file the writer has come to.                                        *)
LEMMA DecidesFrom ==
    ASSUME NEW i \in Nat, NEW n \in Nat, Decides(i, n)
    PROVE  /\ UNCHANGED <<upload, disk>> /\ DOMAIN write_jobs' = DOMAIN write_jobs
           /\ \/ Takes("digest", i, n) /\ read_jobs' = read_jobs
              \/ /\ to_writer' = to_writer
                 /\ Gets("digest", i, n) \/ <<i, n>> \in asked
                 /\ upload => i \in DOMAIN read_jobs
<1>1. PICK b \in BOOLEAN : \/ GetsDigestKnows(i, n, b) \/ AnswersUpload(i, n, b)
                           \/ TakesDigestKnows(i, n, b) \/ AnswersDownload(i, n, b)
                           \/ b /\ TakesDigestWants(i, n)
    BY DEF Decides
<1>2. CASE GetsDigestKnows(i, n, b)
    BY <1>2, Zenon DEF GetsDigestKnows
<1>3. CASE AnswersUpload(i, n, b)
    BY <1>3, Zenon DEF AnswersUpload
<1>4. CASE TakesDigestKnows(i, n, b)
    <2>1. /\ Takes("digest", i, n)
          /\ i \in DOMAIN write_jobs
          /\ Updates(write_jobs, write_jobs', i)
          /\ UNCHANGED <<upload, disk, read_jobs>>
        BY <1>4, Zenon DEF TakesDigestKnows
    <2>. QED BY <2>1 DEF Updates
<1>5. CASE AnswersDownload(i, n, b)
    <2>1. /\ ~upload /\ <<i, n>> \in asked /\ i \in DOMAIN write_jobs
          /\ Updates(write_jobs, write_jobs', i) /\ UNCHANGED <<upload, disk, to_writer>>
        BY <1>5, Zenon DEF AnswersDownload
    <2>. QED BY <2>1 DEF Updates
<1>6. CASE TakesDigestWants(i, n)
    BY <1>6, Zenon DEF TakesDigestWants
<1>. QED BY <1>1, <1>2, <1>3, <1>4, <1>5, <1>6

(* See DecidesFrom. *)
LEMMA DecidesAt ==
    ASSUME TypeInv, IdInv, KindInv, OrderInv, TokenWaits, OneToken, TokenInv, AnsweredInv,
           DataInv,
           QuietInv, StreamInv, NEW i \in Nat, NEW n \in Nat, Decides(i, n), i \in DOMAIN write_jobs
    PROVE  \E a \in WriterOf(disk, write_jobs, i) : Meets(verdict, a, <<n, 0>>)
<1>1. Stream(i, to_writer, verdict, WriterOf(disk, write_jobs, i), ReaderAt(read_jobs, i))
    BY DEF StreamInv
<1>2. to_writer \in Seq(Messages)
    BY DEF TypeInv
<1>3. CASE Takes("digest", i, n)
    <2>1. 1 \in At(to_writer) /\ IsEvent(to_writer[1], i) /\ Begin(to_writer[1]) = <<n, 0>>
        BY <1>3 DEF Takes, Pops, IsEvent, Begin
    <2>. QED BY <1>1, <1>2, <2>1, StreamHead
<1>4. CASE /\ Gets("digest", i, n) \/ <<i, n>> \in asked
           /\ upload => i \in DOMAIN read_jobs
    <2>1. Asks(i) /\ \A p \in InW : ~Busy(W(p), i)
        BY <1>4 DEF Gets, Pops, Asks, IsToken, QuietInv, InR, R
    <2>2. i \in DOMAIN read_jobs
        BY <1>4, <2>1 DEF TokenInv
    <2>3. ReaderAt(read_jobs, i) = {<<n, 0>>}
        <3>1. Waits(i, n)
            BY DecidesAnswers
        <3>. QED BY <2>2, <3>1, ReaderOne, WaitingPlace
    <2>4. \A p \in At(to_writer) : ~IsEvent(to_writer[p], i) /\ ~IsError(to_writer[p], i)
        BY <2>1 DEF InW, W, Busy, IsEvent, IsError
    <2>5. <<n, 0>> \in ReaderAt(read_jobs, i)
        BY <2>3
    <2>. QED BY <1>1, <1>2, <2>4, <2>5, StreamIdle
<1>. QED BY <1>3, <1>4, DecidesFrom

(* When a question is answered nothing of its job is under way. *)
LEMMA DecidesQuiet ==
    ASSUME QuietInv, NEW i \in Nat, NEW n \in Nat, Decides(i, n)
    PROVE  \A p \in At(to_writer') : ~IsEvent(to_writer'[p], i)
<1>1. CASE Takes("digest", i, n)
    <2>1. /\ 1 \in InW /\ W(1).kind = "digest" /\ W(1).id = i
          /\ \A p \in At(to_writer') : p + 1 \in InW /\ to_writer'[p] = W(p + 1) /\ ~(p + 1 <= 1)
        BY <1>1 DEF Takes, Pops, InW, W, At
    <2>2. \A r \in InW : Busy(W(r), i) => r <= 1
        BY <2>1 DEF QuietInv
    <2>. QED BY <2>1, <2>2 DEF Busy, IsEvent
<1>2. CASE to_writer' = to_writer /\ (Gets("digest", i, n) \/ <<i, n>> \in asked)
    <2>1. \A p \in InW : ~Busy(W(p), i)
        BY <1>2 DEF Gets, Pops, IsToken, QuietInv, InR, R
    <2>. QED BY <1>2, <2>1 DEF InW, W, Busy, IsEvent
<1>. QED BY <1>1, <1>2, DecidesFrom

(* Where the reader is after an answer. *)
LEMMA DecidesReader ==
    ASSUME TypeInv, IdInv, KindInv, OrderInv, TokenWaits, OneToken, AnsweredInv, DataInv,
           NEW i \in Nat, NEW n \in Nat, Decides(i, n), NEW b2 \in ReaderAt(read_jobs', i)
    PROVE  Meets(verdict', <<n, 0>>, b2)
<1>1. n \in Files /\ Waits(i, n)
    BY DecidesAnswers
<1>2. PICK b \in BOOLEAN : \/ GetsDigestKnows(i, n, b) \/ AnswersUpload(i, n, b)
                           \/ TakesDigestKnows(i, n, b) \/ AnswersDownload(i, n, b)
                           \/ b /\ TakesDigestWants(i, n)
    BY DEF Decides
<1>3. CASE GetsDigestKnows(i, n, b) \/ AnswersUpload(i, n, b)
    <2>1. /\ i \in DOMAIN read_jobs /\ Updates(read_jobs, read_jobs', i)
          /\ IsAnswered(read_jobs[i], read_jobs'[i], n, b) /\ IsDecided(n, b)
        BY <1>3, Zenon DEF GetsDigestKnows, AnswersUpload
    <2>2. b \/ verdict'[n] = "skip"
        BY <2>1, Zenon DEF IsDecided
    <2>3. read_jobs[i].file_num = n /\ read_jobs[i].file = 0
        BY <1>1, <2>1, WaitingPlace
    <2>4. i \in DOMAIN read_jobs'
        BY <2>1 DEF Updates
    <2>5. Meets(verdict', <<n, 0>>, PlaceOf(read_jobs'[i]))
        BY <1>1, <2>1, <2>2, <2>3, AnsweredPlace
    <2>. QED BY <2>4, <2>5, ReaderOne
<1>4. CASE read_jobs' = read_jobs
    <2>1. i \in DOMAIN read_jobs /\ b2 = PlaceOf(read_jobs[i])
        BY <1>4, ReaderOne
    <2>. QED BY <1>1, <2>1, WaitingPlace, MeetsItself
<1>5. CASE TakesDigestKnows(i, n, b) \/ AnswersDownload(i, n, b) \/ (b /\ TakesDigestWants(i, n))
    BY <1>4, <1>5, Zenon DEF TakesDigestKnows, AnswersDownload, TakesDigestWants
<1>. QED BY <1>2, <1>3, <1>5

(* Where the writer is. *)
LEMMA DecidesWriterAt ==
    ASSUME TypeInv, IdInv, KindInv, OrderInv, TokenWaits, OneToken, TokenInv, AnsweredInv,
           DataInv,
           QuietInv, StreamInv, NEW i \in Nat, NEW n \in Nat, Decides(i, n), i \in DOMAIN write_jobs
    PROVE  \E a \in WriterOf(disk', write_jobs', i) : Meets(verdict', a, <<n, 0>>)
<1>1. n \in Files /\ ~Answered(n) /\ disk' = disk
    BY DecidesAnswers, DecidesFrom
<1>2. PICK a \in WriterOf(disk, write_jobs, i) : Meets(verdict, a, <<n, 0>>)
    BY DecidesAt
<1>3. Meets(verdict', a, <<n, 0>>)
    <2>1. \A f \in Files : verdict[f] = "skip" => verdict'[f] = "skip"
        BY <1>1, DecidesDoes DEF Answered
    <2>. QED BY <1>2, <2>1, MeetsStill
<1>4. CASE write_jobs'[i].file_num = write_jobs[i].file_num /\ write_jobs'[i].file = write_jobs[i].file
    BY <1>1, <1>2, <1>3, <1>4, WriterOfSame
<1>5. CASE write_jobs'[i].file_num = n + 1 /\ write_jobs'[i].file = None /\ verdict'[n] = "skip"
    <2>1. <<n + 1, 0>> \in WriterOf(disk', write_jobs', i)
        BY <1>5 DEF WriterOf, WriterAt
    <2>2. Meets(verdict', <<n, 0>>, <<n + 1, 0>>)
        BY <1>1, <1>5, MeetsSkipped
    <2>. QED BY <2>1, <2>2, MeetsBack
<1>6. PICK b \in BOOLEAN : \/ GetsDigestKnows(i, n, b) \/ AnswersUpload(i, n, b)
                           \/ TakesDigestKnows(i, n, b) \/ AnswersDownload(i, n, b)
                           \/ b /\ TakesDigestWants(i, n)
    BY DEF Decides
<1>7. CASE GetsDigestKnows(i, n, b) \/ AnswersUpload(i, n, b) \/ (b /\ TakesDigestWants(i, n))
    BY <1>4, <1>7, Zenon DEF GetsDigestKnows, AnswersUpload, TakesDigestWants
<1>8. CASE TakesDigestKnows(i, n, b) \/ AnswersDownload(i, n, b)
    <2>1. IsAnswered(write_jobs[i], write_jobs'[i], n, b) /\ IsDecided(n, b)
        BY <1>8, Zenon DEF TakesDigestKnows, AnswersDownload
    <2>2. CASE write_jobs[i].file_num # n \/ b
        BY <1>4, <2>1, <2>2, Zenon DEF IsAnswered
    <2>3. CASE write_jobs[i].file_num = n /\ ~b
        BY <1>5, <2>1, <2>3, Zenon DEF IsAnswered, IsDecided
    <2>. QED BY <2>2, <2>3
<1>. QED BY <1>6, <1>7, <1>8

(* So an answer leaves no gap. *)
LEMMA DecidesStream ==
    ASSUME TypeInv, TypeInv', IdInv, KindInv, OrderInv, TokenWaits, OneToken, TokenInv,
           AnsweredInv,
           DataInv, QuietInv, StreamInv, NEW i \in Nat, NEW n \in Nat, Decides(i, n)
    PROVE  StreamInv'
<1>1. SUFFICES ASSUME NEW k \in DOMAIN write_jobs'
               PROVE  Stream(k, to_writer', verdict', WriterOf(disk', write_jobs', k),
                             ReaderAt(read_jobs', k))
    BY DEF StreamInv
<1>2. k \in DOMAIN write_jobs
    BY DecidesFrom
<1>3. k = i
    <2>1. Owner(k) /\ Owner(i)
        BY <1>2, DecidesAnswers DEF Owner
    <2>. QED BY <2>1, OwnerUnique
<1>4. \A p \in At(to_writer') : ~IsEvent(to_writer'[p], i)
    BY DecidesQuiet
<1>5. PICK a \in WriterOf(disk', write_jobs', i) : Meets(verdict', a, <<n, 0>>)
    BY <1>2, <1>3, DecidesWriterAt
<1>6. \A b2 \in ReaderAt(read_jobs', i) : Meets(verdict', a, b2)
    <2>1. SUFFICES ASSUME NEW b2 \in ReaderAt(read_jobs', i) PROVE Meets(verdict', a, b2)
        OBVIOUS
    <2>2. Meets(verdict', <<n, 0>>, b2)
        BY <2>1, DecidesReader
    <2>. QED BY <1>5, <2>2, MeetsOn
<1>7. to_writer' \in Seq(Messages)
    BY DEF TypeInv
<1>. QED BY <1>3, <1>4, <1>5, <1>6, <1>7, StreamEmpty

(* A place of a writer that meets file n, which is not to be skipped, at   *)
(* its block c.                                                            *)
LEMMA WriterMeets ==
    ASSUME NEW v, NEW job, NEW content \in Contents, job.file_num \in Nat, NEW n \in Nat, NEW c
           \in Nat,
           n \in Files => v[n] # "skip",
           job.file # None => job.file_num \in Files /\ v[job.file_num] # "skip",
           NEW a \in WriterAt(job, content), Meets(v, a, <<n, c>>)
    PROVE  /\ job.file # None /\ job.file_num = n => c = Len(content)
           /\ job.file = None \/ job.file_num # n => c = 0
           /\ job.file # None /\ job.file_num # n =>
                 job.file_num < n /\ Len(content) = Size[job.file_num]
           /\ n \in Files => job.file_num <= n
           /\ \A f \in Files : job.file_num < f /\ f < n => v[f] = "skip"
           /\ job.file = None =>
                 \A f \in Files : job.file_num <= f /\ f < n => v[f] = "skip"
<1>. DEFINE k == job.file_num
<1>0. /\ k \in Nat /\ Len(content) \in Nat /\ \A f \in Files : f \in Nat
      /\ k \in Files /\ n \notin Files => k < n
    BY FileAssumption DEF Contents, Files
<1>1. PICK x, y : a = <<x, y>> /\ x \in Nat /\ y \in Nat
    BY <1>0 DEF WriterAt
<1>2. \/ x = n /\ y = c
      \/ y = 0 /\ c = 0 /\ \A f \in Files : (x <= f /\ f < n) \/ (n <= f /\ f < x) => v[f] = "skip"
    BY <1>1 DEF Meets, Between
<1>3. n \in Files => x <= n
    BY <1>0, <1>1, <1>2
<1>4. \A f \in Files : x <= f /\ f < n => v[f] = "skip"
    BY <1>0, <1>1, <1>2
<1>5. CASE job.file = None
    <2>1. x = k /\ y = 0
        BY <1>1, <1>5 DEF WriterAt
    <2>2. c = 0
        BY <1>2, <2>1
    <2>. QED BY <1>0, <1>3, <1>4, <1>5, <2>1, <2>2
<1>6. CASE job.file # None /\ x = k /\ y = Len(content)
    <2>1. x = n /\ y = c
        <3>1. SUFFICES ASSUME x # n PROVE FALSE
            BY <1>2, <1>6
        <3>2. k \in Files /\ v[k] # "skip" /\ k # n
            BY <1>6, <3>1
        <3>. QED BY <1>0, <1>2, <1>6, <3>1, <3>2
    <2>. QED BY <1>0, <1>6, <2>1
<1>7. CASE job.file # None /\ x = k + 1 /\ y = 0 /\ Len(content) = Size[k]
    <2>1. k \in Files /\ v[k] # "skip"
        BY <1>7
    <2>2. ~(n \in Nat /\ n <= k)
        <3>1. SUFFICES ASSUME n <= k PROVE FALSE
            BY <1>0
        <3>2. n \in Files
            BY <1>0, <2>1, <3>1
        <3>. QED BY <1>0, <1>2, <1>7, <3>1, <3>2
    <2>3. k < n /\ k # n
        BY <1>0, <2>2
    <2>4. c = 0
        BY <1>2, <1>7
    <2>5. \A f \in Files : k < f /\ f < n => v[f] = "skip"
        BY <1>0, <1>4, <1>7
    <2>. QED BY <1>0, <1>7, <2>3, <2>4, <2>5
<1>8. \/ job.file = None
      \/ job.file # None /\ x = k /\ y = Len(content)
      \/ job.file # None /\ x = k + 1 /\ y = 0 /\ Len(content) = Size[k]
    BY <1>0, <1>1 DEF WriterAt
<1>. QED BY <1>5, <1>6, <1>7, <1>8

(* A file begun and of full length is whole, and is not taken for none. *)
LEMMA BegunWhole ==
    ASSUME NEW f \in Files, NEW s \in Contents, Begun(f, s), Len(s) = Size[f]
    PROVE  s = Whole(f)
BY FileAssumption DEF Begun, Whole, Contents, Files

(* See BegunWhole. *)
LEMMA BegunThere ==
    ASSUME NEW f \in Files, NEW s \in Contents, Begun(f, s)
    PROVE  s # Absent
<1>1. SUFFICES ASSUME s = Absent PROVE FALSE
    OBVIOUS
<1>2. Len(s) = 1 /\ s[1] = <<-2, 1>>
    BY <1>1 DEF Absent
<1>3. s[1] = <<f, 1>>
    BY <1>2 DEF Begun
<1>. QED BY <1>2, <1>3 DEF Files

(* What a write job has of the files before the place that comes next. *)
LEMMA WriterAhead ==
    ASSUME TypeInv, WriterInv, DiskInv, NEW i \in DOMAIN write_jobs, NEW n \in Nat, NEW c \in Nat,
           n \in Files => verdict[n] # "skip",
           NEW a \in WriterOf(disk, write_jobs, i), Meets(verdict, a, <<n, c>>)
    PROVE  /\ write_jobs[i].file # None /\ write_jobs[i].file_num = n =>
                 c = Len(disk[write_jobs[i].file])
           /\ write_jobs[i].file = None \/ write_jobs[i].file_num # n => c = 0
           /\ write_jobs[i].file # None /\ write_jobs[i].file_num # n =>
                 disk[write_jobs[i].file] = Whole(write_jobs[i].file_num)
           /\ n \in Files => write_jobs[i].file_num <= n
           /\ \A f \in Files : write_jobs[i].file_num < f /\ f < n => verdict[f] = "skip"
           /\ write_jobs[i].file = None =>
                 \A f \in Files : write_jobs[i].file_num <= f /\ f < n => verdict[f] = "skip"
<1>. DEFINE job == write_jobs[i]
            content == disk[<<job.file_num, "download">>]
<1>1. a \in WriterAt(job, content)
    BY DEF WriterOf
<1>2. job.file # None => /\ job.file_num \in Files /\ verdict[job.file_num] = "overwrite"
                         /\ job.file = <<job.file_num, "download">>
                         /\ Begun(job.file_num, content) /\ content \in Contents
    <2>1. SUFFICES ASSUME job.file # None
                   PROVE  /\ job.file_num \in Files /\ verdict[job.file_num] = "overwrite"
                          /\ job.file = <<job.file_num, "download">>
                          /\ Begun(job.file_num, content) /\ content \in Contents
        OBVIOUS
    <2>2. /\ job.file_num \in Files /\ job.file = <<job.file_num, "download">>
          /\ Begun(job.file_num, disk[job.file])
        BY <2>1, Zenon DEF DiskInv
    <2>3. verdict[job.file_num] = "overwrite"
        BY <2>1, <2>2 DEF WriterInv
    <2>4. content \in Contents
        BY <2>2 DEF TypeInv, Names
    <2>. QED BY <2>2, <2>3, <2>4
<1>3. job.file_num \in Nat
    BY WriterHas
<1>4. PICK content2 \in Contents : /\ job.file # None => content2 = content
                                   /\ a \in WriterAt(job, content2)
    <2>1. CASE job.file # None
        BY <1>1, <1>2, <2>1
    <2>2. CASE job.file = None
        <3>1. <<>> \in Contents /\ a \in WriterAt(job, <<>>)
            BY <1>1, <2>2 DEF WriterAt, Contents
        <3>. QED BY <2>2, <3>1
    <2>. QED BY <2>1, <2>2
<1>5. /\ job.file # None /\ job.file_num = n => c = Len(content2)
      /\ job.file = None \/ job.file_num # n => c = 0
      /\ job.file # None /\ job.file_num # n =>
            job.file_num < n /\ Len(content2) = Size[job.file_num]
      /\ n \in Files => job.file_num <= n
      /\ \A f \in Files : job.file_num < f /\ f < n => verdict[f] = "skip"
      /\ job.file = None => \A f \in Files : job.file_num <= f /\ f < n => verdict[f] = "skip"
    <2>1. job.file # None => job.file_num \in Files /\ verdict[job.file_num] # "skip"
        BY <1>2
    <2>2. content2 \in Contents /\ a \in WriterAt(job, content2)
        BY <1>4
    <2>. HIDE DEF job, content
    <2>. QED BY <1>3, <2>1, <2>2, WriterMeets, ZenonT(40)
<1>6. job.file # None /\ job.file_num # n => disk[job.file] = Whole(job.file_num)
    BY <1>2, <1>4, <1>5, BegunWhole
<1>7. job.file # None => content2 = disk[job.file]
    BY <1>2, <1>4
<1>. QED BY <1>5, <1>6, <1>7

(* The first block under way, and the file it is of. *)
LEMMA BlockAt ==
    ASSUME TypeInv, IdInv, KindInv, AnsweredInv, WriterInv, DataInv, StreamInv, DiskInv,
           NEW i \in DOMAIN write_jobs, i \in Nat, NEW n \in Nat, Takes("block", i, n)
    PROVE  \E c \in Nat :
              /\ \/ to_writer[1].data = <<>> /\ c = Size[n] /\ End(to_writer[1]) = <<n + 1, 0>>
                 \/ /\ to_writer[1].data = << <<n, c + 1>> >> /\ c < Size[n]
                    /\ End(to_writer[1]) = <<n, c + 1>>
              /\ write_jobs[i].file # None /\ write_jobs[i].file_num = n =>
                    c = Len(disk[write_jobs[i].file])
              /\ write_jobs[i].file = None \/ write_jobs[i].file_num # n => c = 0
              /\ write_jobs[i].file # None /\ write_jobs[i].file_num # n =>
                    disk[write_jobs[i].file] = Whole(write_jobs[i].file_num)
              /\ write_jobs[i].file_num <= n
              /\ \A f \in Files : write_jobs[i].file_num < f /\ f < n => verdict[f] = "skip"
              /\ write_jobs[i].file = None =>
                    \A f \in Files : write_jobs[i].file_num <= f /\ f < n => verdict[f] = "skip"
<1>. DEFINE job == write_jobs[i]
            m == to_writer[1]
<1>1. n \in Files /\ verdict[n] = "overwrite" /\ Size[n] \in Nat
    BY BlocksWanted, FileAssumption
<1>2. m.kind = "block" /\ m.id = i /\ m.num = n /\ 1 \in At(to_writer) /\ Fits(m)
    BY DEF Takes, Pops, DataInv, InW, W
<1>3. PICK c \in Nat :
          /\ Begin(m) = <<n, c>>
          /\ \/ m.data = <<>> /\ c = Size[n] /\ End(m) = <<n + 1, 0>>
             \/ m.data = << <<n, c + 1>> >> /\ c < Size[n] /\ End(m) = <<n, c + 1>>
    <2>1. CASE m.data = <<>>
        BY <1>1, <1>2, <2>1 DEF Begin, End
    <2>2. CASE m.data # <<>>
        <3>1. PICK k \in 1..Size[n] : m.data = << <<n, k>> >>
            BY <1>2, <2>2 DEF Fits
        <3>2. m.data[1][2] = k /\ k - 1 \in Nat /\ (k - 1) + 1 = k /\ k - 1 < Size[n]
            BY <1>1, <3>1
        <3>3. Begin(m) = <<n, k - 1>> /\ End(m) = <<n, k>>
            BY <1>2, <2>2, <3>2, Zenon DEF Begin, End
        <3>4. m.data = << <<n, (k - 1) + 1>> >> /\ End(m) = <<n, (k - 1) + 1>>
            BY <3>1, <3>2, <3>3
        <3>. QED BY <3>2, <3>3, <3>4
    <2>. QED BY <2>1, <2>2
<1>4. PICK a \in WriterOf(disk, write_jobs, i) : Meets(verdict, a, <<n, c>>)
    <2>1. IsEvent(m, i) /\ to_writer \in Seq(Messages)
        BY <1>2 DEF IsEvent, TypeInv
    <2>2. Stream(i, to_writer, verdict, WriterOf(disk, write_jobs, i), ReaderAt(read_jobs, i))
        BY DEF StreamInv
    <2>3. \E a \in WriterOf(disk, write_jobs, i) : Meets(verdict, a, Begin(m))
        BY <1>2, <2>1, <2>2, StreamHead
    <2>. QED BY <1>3, <2>3
<1>5. n \in Files => verdict[n] # "skip"
    BY <1>1
<1>. HIDE DEF job, m
<1>6. /\ job.file # None /\ job.file_num = n => c = Len(disk[job.file])
      /\ job.file = None \/ job.file_num # n => c = 0
      /\ job.file # None /\ job.file_num # n => disk[job.file] = Whole(job.file_num)
      /\ n \in Files => job.file_num <= n
      /\ \A f \in Files : job.file_num < f /\ f < n => verdict[f] = "skip"
      /\ job.file = None => \A f \in Files : job.file_num <= f /\ f < n => verdict[f] = "skip"
    BY <1>4, <1>5, WriterAhead, Zenon DEF job
<1>. USE DEF job, m
<1>. QED BY <1>1, <1>3, <1>6

(* The file the first block is of, after it was written. *)
LEMMA BlockWrites ==
    ASSUME TypeInv, IdInv, KindInv, AnsweredInv, WriterInv, DataInv, StreamInv, DiskInv,
           NEW i \in Nat, NEW n \in Nat, TakesBlock(i, n)
    PROVE  /\ Begun(n, disk'[<<n, "download">>])
           /\ End(to_writer[1]) \in WriterOf(disk', write_jobs', i)
<1>. DEFINE job == write_jobs[i]
            m == to_writer[1]
            new == disk'[<<n, "download">>]
<1>1. Takes("block", i, n) /\ i \in DOMAIN write_jobs
    BY Zenon DEF TakesBlock
<1>2. n \in Files /\ Size[n] \in Nat
    BY <1>1, BlocksWanted, FileAssumption
<1>3. PICK c \in Nat :
          /\ \/ m.data = <<>> /\ c = Size[n] /\ End(m) = <<n + 1, 0>>
             \/ m.data = << <<n, c + 1>> >> /\ c < Size[n] /\ End(m) = <<n, c + 1>>
          /\ job.file # None /\ job.file_num = n => c = Len(disk[job.file])
          /\ job.file = None \/ job.file_num # n => c = 0
    BY <1>1, BlockAt
<1>4. /\ write_jobs'[i].file_num = n
      /\ write_jobs'[i].file = <<n, "download">>
      /\ <<n, "download">> # None
    <2>1. IsFirst(job, n) => IsWriting(job, write_jobs'[i], n, <<n, "download">>)
        BY Zenon DEF TakesBlock
    <2>2. ~IsFirst(job, n) => IsWriting(job, write_jobs'[i], n, job.file) /\ job.file = <<n, "download">>
        BY <1>1, Zenon DEF TakesBlock, IsFirst, DiskInv
    <2>3. <<n, "download">> # None
        BY FileAssumption
    <2>. QED BY <2>1, <2>2, <2>3 DEF IsWriting
<1>5. PICK old \in Contents : new = old \o m.data /\ Len(old) = c /\ Begun(n, old)
    <2>1. CASE IsFirst(job, n)
        <3>1. new = m.data /\ c = 0
            BY <1>3, <2>1, Zenon DEF TakesBlock, IsFirst
        <3>2. <<>> \in Contents /\ Len(<<>>) = 0 /\ Begun(n, <<>>)
            BY <1>2, EmptySeq DEF Begun, Contents
        <3>3. m.data = <<>> \o m.data
            BY <1>3
        <3>. QED BY <3>1, <3>2, <3>3
    <2>2. CASE ~IsFirst(job, n)
        <3>1. job.file_num = n /\ job.file # None
            BY <2>2 DEF IsFirst
        <3>2. job.file = <<n, "download">> /\ Begun(n, disk[job.file])
            BY <1>1, <3>1 DEF DiskInv
        <3>3. new = disk[job.file] \o m.data
            BY <2>2, <3>2, Zenon DEF TakesBlock
        <3>4. disk[job.file] \in Contents
            BY <1>2, <3>2 DEF TypeInv, Names
        <3>. QED BY <1>3, <3>1, <3>2, <3>3, <3>4
    <2>. QED BY <2>1, <2>2
<1>6. CASE m.data = <<>> /\ c = Size[n] /\ End(m) = <<n + 1, 0>>
    <2>1. new = old
        BY <1>5, <1>6 DEF Contents
    <2>2. <<n + 1, 0>> \in WriterAt(write_jobs'[i], new)
        BY <1>2, <1>4, <1>5, <1>6, <2>1 DEF WriterAt
    <2>. QED BY <1>4, <1>5, <1>6, <2>1, <2>2 DEF WriterOf
<1>7. CASE m.data = << <<n, c + 1>> >> /\ c < Size[n] /\ End(m) = <<n, c + 1>>
    <2>1. new = Append(old, <<n, c + 1>>)
        BY <1>5, <1>7 DEF Contents
    <2>2. Len(new) = c + 1 /\ new[c + 1] = <<n, c + 1>> /\ \A k \in 1..c : new[k] = old[k]
        BY <1>2, <1>3, <1>5, <2>1 DEF Contents
    <2>3. Begun(n, new)
        BY <1>2, <1>3, <1>5, <1>7, <2>2 DEF Begun
    <2>4. <<n, c + 1>> \in WriterAt(write_jobs'[i], new)
        BY <1>4, <2>2 DEF WriterAt
    <2>. QED BY <1>4, <1>7, <2>3, <2>4 DEF WriterOf
<1>. QED BY <1>3, <1>6, <1>7

(* So writing it leaves no gap. *)
LEMMA BlockStream ==
    ASSUME TypeInv, TypeInv', IdInv, KindInv, OrderInv, AnsweredInv, WriterInv, DataInv,
           StreamInv,
           DiskInv, NEW i \in Nat, NEW n \in Nat, TakesBlock(i, n)
    PROVE  StreamInv'
<1>1. /\ Takes("block", i, n) /\ i \in DOMAIN write_jobs /\ Updates(write_jobs, write_jobs', i)
      /\ UNCHANGED <<read_jobs, verdict>>
    BY Zenon DEF TakesBlock
<1>2. \A k \in DOMAIN write_jobs' : k = i
    BY <1>1, OneWriter DEF Updates
<1>3. End(to_writer[1]) \in WriterOf(disk', write_jobs', i)
    BY BlockWrites
<1>4. Stream(i, to_writer, verdict, WriterOf(disk, write_jobs, i), ReaderAt(read_jobs, i))
    BY <1>1 DEF StreamInv
<1>5. IsEvent(to_writer[1], i) /\ ~IsError(to_writer[1], i) /\ Pops(to_writer, to_writer')
    BY <1>1 DEF Takes, IsEvent, IsError
<1>6. to_writer \in Seq(Messages) /\ to_writer' \in Seq(Messages)
    BY DEF TypeInv
<1>7. Stream(i, to_writer', verdict, WriterOf(disk', write_jobs', i), ReaderAt(read_jobs, i))
    BY <1>3, <1>4, <1>5, <1>6, StreamTaken
<1>. QED BY <1>1, <1>2, <1>7 DEF StreamInv

(* The new job is the only one of the writer, and at its first file. *)
LEMMA RenewedOne ==
    ASSUME KindInv, OrderInv', NEW i \in Nat, NEW n \in Nat, Renews(i, n)
    PROVE  /\ \A k \in DOMAIN write_jobs' : k = i
           /\ i \in DOMAIN write_jobs' /\ write_jobs'[i].file = None /\ write_jobs'[i].file_num = n
<1>1. i \in DOMAIN write_jobs' /\ write_jobs'[i].file = None /\ write_jobs'[i].file_num = n
    BY Zenon DEF Renews, TakesReceive, StartsDownload, AddsDownload, Updates, IsNew
<1>2. CASE TakesReceive(i, n)
    <2>1. Takes("receive", i, n) /\ upload' = upload
        BY <1>2, Zenon DEF TakesReceive
    <2>2. upload'
        BY <2>1 DEF Takes, Pops, KindInv, DownloadKinds, InW, W
    <2>. QED BY <1>1, <2>2 DEF OrderInv, UploadSingle
<1>3. CASE StartsDownload(i, n) \/ AddsDownload(i, n)
    <2>1. DOMAIN write_jobs = {} /\ Updates(write_jobs, write_jobs', i)
        BY <1>3, Zenon DEF StartsDownload, AddsDownload
    <2>. QED BY <1>1, <2>1 DEF Updates
<1>. QED BY <1>2, <1>3, Zenon DEF Renews

(* Nothing of an upload but its beginning is under way when the host hears *)
(* of it ...                                                               *)
LEMMA ReceivedStream ==
    ASSUME TypeInv, TypeInv', KindInv, OrderInv, QuietInv, StartInv,
           NEW i \in Nat, NEW n \in Nat, TakesReceive(i, n)
    PROVE  Stream(i, to_writer', verdict', {<<n, 0>>}, ReaderAt(read_jobs', i))
<1>1. Takes("receive", i, n) /\ read_jobs' = read_jobs
    BY Zenon DEF TakesReceive
<1>2. upload
    BY <1>1 DEF Takes, Pops, KindInv, DownloadKinds, InW, W
<1>3. /\ 1 \in InW /\ W(1).kind = "receive" /\ W(1).id = i /\ W(1).num = n /\ to_writer[1] = W(1)
      /\ \A p \in At(to_writer') : p + 1 \in InW /\ to_writer'[p] = W(p + 1) /\ p \in Nat
    BY <1>1 DEF Takes, Pops, InW, W
<1>4. UploadNew(i) /\ BeginsAt(to_writer, read_jobs, i, n)
    BY <1>2, <1>3 DEF OrderInv, UploadFreshInv, StartInv, UploadStart
<1>5. to_writer \in Seq(Messages) /\ to_writer' \in Seq(Messages) /\ Pops(to_writer, to_writer')
    BY <1>1 DEF TypeInv, Takes
<1>6. BeginsAt(to_writer', read_jobs, i, n)
    <2>1. ~IsError(to_writer[1], i)
        BY <1>3 DEF IsError
    <2>. QED BY <1>4, <1>5, <2>1, BeginsPopped
<1>7. \A p \in At(to_writer') : IsEvent(to_writer'[p], i) => to_writer'[p].kind \in {"digest", "done"}
    BY <1>3, <1>4 DEF UploadNew, IsW, IsEvent
<1>8. \A p, r \in At(to_writer') : IsEvent(to_writer'[p], i) /\ IsEvent(to_writer'[r], i) => p = r
    <2>1. SUFFICES ASSUME NEW p \in At(to_writer'), NEW r \in At(to_writer'),
                          IsEvent(to_writer'[p], i), IsEvent(to_writer'[r], i)
                   PROVE  p = r
        OBVIOUS
    <2>2. r + 1 <= p + 1 /\ p + 1 <= r + 1
        BY <1>3, <1>7, <2>1 DEF IsEvent, QuietInv, Busy
    <2>. QED BY <1>3, <2>2
<1>9. \A r \in At(to_writer') : IsEvent(to_writer'[r], i) /\ NoError(to_writer', r, i) =>
          Begin(to_writer'[r]) = <<n, 0>> /\ End(to_writer'[r]) = <<n, 0>>
    BY <1>6, <1>7 DEF BeginsAt, Begin, End
<1>10. NoError(to_writer', Len(to_writer') + 1, i) => \A b \in ReaderAt(read_jobs, i) : b = <<n, 0>>
    <2>1. SUFFICES ASSUME NoError(to_writer', Len(to_writer') + 1, i), NEW b \in ReaderAt(read_jobs, i)
                   PROVE  b = <<n, 0>>
        OBVIOUS
    <2>2. i \in DOMAIN read_jobs /\ b = PlaceOf(read_jobs[i])
        BY <2>1, ReaderOne
    <2>3. read_jobs[i].file_num = n /\ ~read_jobs[i].file_confirmed
        BY <1>4, <1>6, <2>1, <2>2 DEF BeginsAt, UploadNew
    <2>. QED BY <2>2, <2>3 DEF PlaceOf
<1>. QED BY <1>1, <1>5, <1>8, <1>9, <1>10, StreamBegun

(* ... and nothing at all of a job that is just started. *)
LEMMA RenewedStream ==
    ASSUME TypeInv, TypeInv', IdInv, KindInv, OrderInv, OrderInv', QuietInv, StartInv,
           NEW i \in Nat, NEW n \in Nat, Renews(i, n)
    PROVE  StreamInv'
<1>1. /\ \A k \in DOMAIN write_jobs' : k = i
      /\ write_jobs'[i].file = None /\ write_jobs'[i].file_num = n
    BY RenewedOne
<1>2. WriterOf(disk', write_jobs', i) = {<<n, 0>>}
    BY <1>1 DEF WriterOf, WriterAt
<1>3. CASE TakesReceive(i, n)
    BY <1>1, <1>2, <1>3, ReceivedStream DEF StreamInv
<1>4. CASE StartsDownload(i, n) \/ AddsDownload(i, n)
    <2>1. i = jobs + 1 /\ UNCHANGED <<read_jobs, to_writer>>
        BY <1>4, Zenon DEF StartsDownload, AddsDownload
    <2>2. i \notin DOMAIN read_jobs /\ \A p \in InW : W(p).id # i
        BY <2>1 DEF IdInv, Ids, TypeInv
    <2>3. ReaderAt(read_jobs', i) = {}
        BY <2>1, <2>2, ReaderOne
    <2>4. \A p \in At(to_writer') : ~IsEvent(to_writer'[p], i)
        BY <2>1, <2>2 DEF InW, W, IsEvent
    <2>5. to_writer' \in Seq(Messages)
        BY DEF TypeInv
    <2>6. Stream(i, to_writer', verdict', {<<n, 0>>}, ReaderAt(read_jobs', i))
        BY <2>3, <2>4, <2>5, StreamEmpty
    <2>. QED BY <1>1, <1>2, <2>6 DEF StreamInv
<1>. QED BY <1>3, <1>4, Zenon DEF Renews

(* The host hears of a download. *)
LEMMA SendStream ==
    ASSUME TypeInv, TypeInv', IdInv, KindInv, OrderInv, StartInv, StreamInv, NEW i \in Nat,
           NEW n \in Nat, GetsSend(i, n)
    PROVE  StreamInv'
<1>1. /\ Gets("send", i, n)
      /\ Updates(read_jobs, read_jobs', i)
      /\ IsNew(read_jobs'[i], n, TRUE, FALSE)
      /\ Pushes(to_writer, to_writer', "dir", i, 0) /\ UNCHANGED <<write_jobs, disk, verdict>>
    BY Zenon DEF GetsSend, readerFrame
<1>2. ~upload /\ DownloadNew(i)
    BY <1>1, SendNew
<1>3. SUFFICES ASSUME NEW k \in DOMAIN write_jobs
               PROVE  Stream(k, to_writer', verdict, WriterOf(disk, write_jobs, k),
                             ReaderAt(read_jobs', k))
    BY <1>1 DEF StreamInv
<1>4. to_writer \in Seq(Messages) /\ to_writer' \in Seq(Messages)
    BY DEF TypeInv
<1>5. CASE k # i
    <2>1. Stream(k, to_writer, verdict, WriterOf(disk, write_jobs, k), ReaderAt(read_jobs, k))
        BY DEF StreamInv
    <2>2. ~IsEvent(to_writer'[Len(to_writer) + 1], k)
        BY <1>1 DEF Pushes, IsEvent
    <2>3. ReaderAt(read_jobs', k) = ReaderAt(read_jobs, k)
        BY <1>1, <1>5, ReaderOther
    <2>. QED BY <1>1, <1>4, <2>1, <2>2, <2>3, StreamAside
<1>6. CASE k = i
    <2>1. \A p \in At(to_writer') : ~IsEvent(to_writer'[p], i)
        <3>1. SUFFICES ASSUME NEW p \in At(to_writer'), IsEvent(to_writer'[p], i) PROVE FALSE
            OBVIOUS
        <3>2. p # Len(to_writer) + 1
            BY <1>1, <3>1 DEF Pushes, IsEvent
        <3>3. p \in InW /\ W(p).id = i
            BY <1>1, <3>1, <3>2 DEF Pushes, IsEvent, InW, W
        <3>. QED BY <1>2, <3>3 DEF DownloadNew
    <2>2. write_jobs[i].file = None /\ write_jobs[i].file_num = n
        <3>1. 1 \in InR /\ R(1).kind = "send" /\ R(1).id = i /\ R(1).num = n
            BY <1>1 DEF Gets, Pops, InR, R
        <3>2. DownloadStart
            BY <1>2 DEF StartInv
        <3>3. DownloadFresh(i)
            BY <3>1 DEF DownloadFresh, IsR
        <3>. QED BY <1>3, <1>6, <3>1, <3>2, <3>3 DEF DownloadStart
    <2>3. WriterOf(disk, write_jobs, i) = {<<n, 0>>}
        BY <2>2 DEF WriterOf, WriterAt
    <2>4. PlaceOf(read_jobs'[i]) = <<n, 0>>
        BY <1>1 DEF PlaceOf, IsNew
    <2>5. ReaderAt(read_jobs', i) = {<<n, 0>>}
        <3>1. i \in DOMAIN read_jobs'
            BY <1>1 DEF Updates
        <3>. QED BY <2>4, <3>1, ReaderOne
    <2>6. Meets(verdict, <<n, 0>>, <<n, 0>>)
        BY MeetsItself
    <2>7. \A b \in ReaderAt(read_jobs', i) :
              \E a \in WriterOf(disk, write_jobs, i) : Meets(verdict, a, b)
        BY <2>3, <2>5, <2>6
    <2>. QED BY <1>4, <1>6, <2>1, <2>7, StreamEmpty
<1>. QED BY <1>5, <1>6

(* The reader hears of an answer. *)
LEMMA ConfirmStream ==
    ASSUME TypeInv, TypeInv', IdInv, KindInv, TokenWaits, AnsweredInv, DataInv, StreamInv, NEW i
           \in Nat,
           NEW n \in Nat, GetsConfirm(i, n)
    PROVE  StreamInv'
<1>1. /\ Gets("confirm", i, n) /\ i \in DOMAIN read_jobs /\ Updates(read_jobs, read_jobs', i)
      /\ IsAnswered(read_jobs[i], read_jobs'[i], n, to_reader[1].overwrite)
      /\ UNCHANGED <<to_writer, write_jobs, disk, verdict>>
    BY Zenon DEF GetsConfirm, readerFrame
<1>2. 1 \in InR /\ R(1).kind = "confirm" /\ R(1).id = i /\ R(1).num = n /\ R(1) = to_reader[1]
    BY <1>1 DEF Gets, Pops, InR, R
<1>3. n \in Files /\ Waits(i, n)
    BY <1>2 DEF KindInv, TokenWaits, IsToken
<1>4. to_reader[1].overwrite \in BOOLEAN
    BY <1>2, MessageFields DEF TypeInv, InR, R, At
<1>5. ASSUME NEW k \in DOMAIN write_jobs, NEW b2 \in ReaderAt(read_jobs', k)
      PROVE  \E b \in ReaderAt(read_jobs, k) : Meets(verdict, b, b2)
    <2>1. CASE k # i
        BY <1>1, <1>5, <2>1, ReaderOther, MeetsItself
    <2>2. CASE k = i
        <3>1. AnswersToReader(i)
            BY <2>2 DEF IdInv, Owner, AnsweredInv, AnsweredFrom
        <3>2. verdict[n] = IF to_reader[1].overwrite THEN "overwrite" ELSE "skip"
            BY <1>2, <3>1 DEF AnswersToReader, IsR
        <3>3. to_reader[1].overwrite \/ verdict[n] = "skip"
            BY <3>2
        <3>4. /\ PlaceOf(read_jobs[i]) = <<n, 0>>
              /\ read_jobs[i].file_num = n /\ read_jobs[i].file = 0
            BY <1>1, <1>3, WaitingPlace
        <3>5. PICK b \in BOOLEAN : b = to_reader[1].overwrite
            BY <1>4
        <3>6. IsAnswered(read_jobs[i], read_jobs'[i], n, b)
            BY <1>1, <3>5, Zenon
        <3>7. b \/ verdict[n] = "skip"
            BY <3>3, <3>5
        <3>8. Meets(verdict, <<n, 0>>, PlaceOf(read_jobs'[i]))
            BY <1>3, <3>4, <3>6, <3>7, AnsweredPlace
        <3>9. i \in DOMAIN read_jobs'
            BY <1>1 DEF Updates
        <3>10. b2 = PlaceOf(read_jobs'[i]) /\ <<n, 0>> \in ReaderAt(read_jobs, i)
            BY <1>1, <1>5, <2>2, <3>4, <3>9, ReaderOne
        <3>. QED BY <2>2, <3>8, <3>10
    <2>. QED BY <2>1, <2>2
<1>. QED BY <1>1, <1>5, StillStream

(* The places of a reader that are there after a step, and were before. *)
LEMMA SamePlaces ==
    ASSUME NEW js, NEW js2, NEW k, ReaderAt(js2, k) \subseteq ReaderAt(js, k)
    PROVE  \A b2 \in ReaderAt(js2, k) : \E b \in ReaderAt(js, k) : Meets(verdict, b, b2)
BY MeetsItself

(* A table one entry of which is removed. *)
LEMMA RemovedPlaces ==
    ASSUME NEW js, NEW js2, NEW i, Removes(js, js2, i), NEW k
    PROVE  ReaderAt(js2, k) \subseteq ReaderAt(js, k)
BY DEF Removes, ReaderAt

(* The reader has nothing to do with a step, nor has what is to be written. *)
LEMMA IdleStream ==
    ASSUME StreamInv, UNCHANGED <<to_writer, read_jobs, write_jobs, disk, verdict>>
    PROVE  StreamInv'
BY DEF StreamInv

(* No write job is left. *)
LEMMA NoneStream ==
    ASSUME IdInv, OrderInv, NEW i \in DOMAIN write_jobs, Removes(write_jobs, write_jobs', i)
    PROVE  DOMAIN write_jobs' = {}
BY OneWriter DEF Removes

(* What is under way of a job stays without a gap.  *)
LEMMA StreamStep ==
    ASSUME TypeInv, TypeInv', IdInv, KindInv, OrderInv, OrderInv', ReaderInv, TokenWaits,
           OneToken, TokenInv, AnsweredInv, WriterInv, DataInv, LastInv, QuietInv, StartInv,
           StreamInv, DiskInv, NEW i \in Nat, NEW n \in Nat, NEW kind, Step(i, n, kind),
           ~TakesBlockInVain(i, n)
    PROVE  StreamInv'
<1>1. CASE SendsDigest(i)
  <2>1. /\ i \in DOMAIN read_jobs /\ Updates(read_jobs, read_jobs', i)
        /\ Pushes(to_writer, to_writer', "digest", i, read_jobs[i].file_num)
        /\ UNCHANGED <<write_jobs, disk, verdict>>
    BY <1>1, Zenon DEF SendsDigest, Timer, readerFrame
  <2>2. PlaceOf(read_jobs[i]) = <<read_jobs[i].file_num, 0>>
    BY <1>1, <2>1 DEF SendsDigest, ReaderInv, PlaceOf
  <2>3. PlaceOf(read_jobs'[i]) = <<read_jobs[i].file_num, 0>>
    BY <1>1 DEF SendsDigest, PlaceOf
  <2>4. /\ Begin(to_writer'[Len(to_writer) + 1]) = <<read_jobs[i].file_num, 0>>
        /\ End(to_writer'[Len(to_writer) + 1]) = <<read_jobs[i].file_num, 0>>
    BY <2>1 DEF Pushes, Begin, End
  <2>5. \A b \in ReaderAt(read_jobs', i) : b = End(to_writer'[Len(to_writer) + 1])
    BY <2>3, <2>4, ReaderOne
  <2>. QED BY <2>1, <2>2, <2>4, <2>5, SentStream
<1>2. CASE SendsBlock(i)
  <2>1. /\ i \in DOMAIN read_jobs /\ Updates(read_jobs, read_jobs', i)
        /\ Pushes(to_writer, to_writer', "block", i, read_jobs[i].file_num)
        /\ UNCHANGED <<write_jobs, disk, verdict>>
    BY <1>2, Zenon DEF SendsBlock, Timer, readerFrame
  <2>2. /\ PlaceOf(read_jobs[i]) = <<read_jobs[i].file_num, read_jobs[i].file>>
        /\ PlaceOf(read_jobs'[i]) = <<read_jobs[i].file_num, read_jobs[i].file + 1>>
        /\ read_jobs[i].file \in Nat
    BY <1>2 DEF SendsBlock, PlaceOf
  <2>3. to_writer'[Len(to_writer) + 1].data = << <<read_jobs[i].file_num, read_jobs[i].file + 1>> >>
    BY <1>2, Zenon DEF SendsBlock
  <2>4. /\ Begin(to_writer'[Len(to_writer) + 1]) = <<read_jobs[i].file_num, read_jobs[i].file>>
        /\ End(to_writer'[Len(to_writer) + 1]) = <<read_jobs[i].file_num, read_jobs[i].file + 1>>
    BY <2>1, <2>2, <2>3 DEF Pushes, Begin, End
  <2>5. \A b \in ReaderAt(read_jobs', i) : b = End(to_writer'[Len(to_writer) + 1])
    BY <2>2, <2>4, ReaderOne
  <2>. QED BY <2>1, <2>2, <2>4, <2>5, SentStream
<1>3. CASE SendsEnd(i)
  <2>1. /\ i \in DOMAIN read_jobs /\ Updates(read_jobs, read_jobs', i)
        /\ Pushes(to_writer, to_writer', "block", i, read_jobs[i].file_num)
        /\ UNCHANGED <<write_jobs, disk, verdict>>
    BY <1>3, Zenon DEF SendsEnd, Timer, readerFrame
  <2>2. /\ PlaceOf(read_jobs[i]) = <<read_jobs[i].file_num, Size[read_jobs[i].file_num]>>
        /\ PlaceOf(read_jobs'[i]) = <<read_jobs[i].file_num + 1, 0>>
    BY <1>3 DEF SendsEnd, PlaceOf
  <2>3. to_writer'[Len(to_writer) + 1].data = <<>>
    BY <1>3, Zenon DEF SendsEnd
  <2>4. /\ Begin(to_writer'[Len(to_writer) + 1]) = <<read_jobs[i].file_num, Size[read_jobs[i].file_num]>>
        /\ End(to_writer'[Len(to_writer) + 1]) = <<read_jobs[i].file_num + 1, 0>>
    BY <2>1, <2>3 DEF Pushes, Begin, End
  <2>5. \A b \in ReaderAt(read_jobs', i) : b = End(to_writer'[Len(to_writer) + 1])
    BY <2>2, <2>4, ReaderOne
  <2>. QED BY <2>1, <2>2, <2>4, <2>5, SentStream
<1>4. CASE SendsReadError(i)
  <2>1. /\ i \in DOMAIN read_jobs /\ Updates(read_jobs, read_jobs', i)
        /\ Pushes(to_writer, to_writer', "error", i, read_jobs[i].file_num + 1)
        /\ UNCHANGED <<write_jobs, disk, verdict>>
    BY <1>4, Zenon DEF SendsReadError, Timer, readerFrame
  <2>. QED BY <2>1, SentStream
<1>5. CASE SendsDigestError(i)
  <2>1. /\ i \in DOMAIN read_jobs /\ Updates(read_jobs, read_jobs', i)
        /\ Pushes(to_writer, to_writer', "error", i, read_jobs[i].file_num)
        /\ UNCHANGED <<write_jobs, disk, verdict>>
    BY <1>5, Zenon DEF SendsDigestError, Timer, readerFrame
  <2>. QED BY <2>1, SentStream
<1>6. CASE SendsLast(i, kind)
  <2>1. /\ i \in DOMAIN read_jobs
        /\ Removes(read_jobs, read_jobs', i)
        /\ kind \in {"done", "error"}
        /\ ~read_jobs[i].file_confirmed
        /\ Pushes(to_writer, to_writer', kind, i, read_jobs[i].file_num)
        /\ UNCHANGED <<write_jobs, disk, verdict>>
    BY <1>6, Zenon DEF SendsLast, readerFrame
  <2>2. PlaceOf(read_jobs[i]) = <<read_jobs[i].file_num, 0>>
    BY <2>1 DEF PlaceOf
  <2>3. Begin(to_writer'[Len(to_writer) + 1]) = <<read_jobs[i].file_num, 0>>
    BY <2>1 DEF Pushes, Begin
  <2>4. \A b \in ReaderAt(read_jobs', i) : b = End(to_writer'[Len(to_writer) + 1])
    BY <2>1, ReaderOne DEF Removes
  <2>. QED BY <2>1, <2>2, <2>3, <2>4, SentStream
<1>7. CASE GetsSend(i, n)
  BY <1>7, SendStream
<1>8. CASE GetsSendInVain(i, n)
  <2>1. /\ Gets("send", i, n) /\ Pushes(to_writer, to_writer', "error", i, 0)
        /\ UNCHANGED <<write_jobs, disk, verdict, read_jobs>>
    BY <1>8, Zenon DEF GetsSendInVain, readerFrame
  <2>2. i \notin DOMAIN read_jobs
    BY <2>1, SendNew DEF DownloadNew
  <2>3. Removes(read_jobs, read_jobs', i)
    BY <2>1, <2>2 DEF Removes
  <2>. QED BY <2>1, <2>3, SentStream
<1>9. CASE GetsCancel(i, n)
  <2>1. Removes(read_jobs, read_jobs', i) /\ UNCHANGED <<to_writer, write_jobs, disk, verdict>>
    BY <1>9, Zenon DEF GetsCancel, readerFrame
  <2>2. \A k : ReaderAt(read_jobs', k) \subseteq ReaderAt(read_jobs, k)
    BY <2>1, RemovedPlaces
  <2>3. \A k : \A b2 \in ReaderAt(read_jobs', k) : \E b \in ReaderAt(read_jobs, k) : Meets(verdict, b, b2)
    BY <2>2, SamePlaces
  <2>. QED BY <2>1, <2>3, StillStream
<1>10. CASE GetsConfirm(i, n)
  BY <1>10, ConfirmStream
<1>11. CASE GetsOther(kind, i, n)
  BY <1>11, IdleStream DEF GetsOther, readerFrame
<1>12. CASE GetsDigestAsks(i, n)
  BY <1>12, IdleStream DEF GetsDigestAsks
<1>13. ASSUME NEW b \in BOOLEAN, GetsDigestKnows(i, n, b) PROVE StreamInv'
  <2>1. Decides(i, n)
    BY <1>13, Zenon DEF Decides
  <2>. QED BY <2>1, DecidesStream
<1>14. CASE TakesOther(kind, i, n)
  <2>1. /\ Takes(kind, i, n) /\ UNCHANGED <<read_jobs, write_jobs, disk, verdict>>
        /\ i \notin DOMAIN write_jobs
    BY <1>14, Zenon DEF TakesOther
  <2>. QED BY <2>1, TakenStream
<1>15. CASE TakesReceive(i, n)
  <2>1. Renews(i, n)
    BY <1>15, Zenon DEF Renews
  <2>. QED BY <2>1, RenewedStream
<1>16. CASE TakesCancel(i, n)
  <2>1. i \in DOMAIN write_jobs /\ Removes(write_jobs, write_jobs', i)
    BY <1>16, Zenon DEF TakesCancel
  <2>. QED BY <2>1, NoneStream DEF StreamInv
<1>17. CASE TakesDone(i, n)
  <2>1. i \in DOMAIN write_jobs /\ Removes(write_jobs, write_jobs', i)
    BY <1>17, Zenon DEF TakesDone
  <2>. QED BY <2>1, NoneStream DEF StreamInv
<1>18. CASE TakesError(i, n)
  <2>1. i \in DOMAIN write_jobs /\ Removes(write_jobs, write_jobs', i)
    BY <1>18, Zenon DEF TakesError
  <2>. QED BY <2>1, NoneStream DEF StreamInv
<1>19. CASE TakesDir(i, n)
  <2>1. /\ Takes("dir", i, n) /\ UNCHANGED <<read_jobs, disk, verdict>> /\ i \in DOMAIN write_jobs
        /\ Updates(write_jobs, write_jobs', i) /\ write_jobs'[i].file_num = write_jobs[i].file_num
        /\ write_jobs'[i].file = write_jobs[i].file
    BY <1>19, Zenon DEF TakesDir
  <2>2. \A k \in DOMAIN write_jobs' :
            /\ k \in DOMAIN write_jobs /\ write_jobs'[k].file_num = write_jobs[k].file_num
            /\ write_jobs'[k].file = write_jobs[k].file
    BY <2>1 DEF Updates
  <2>3. \A k \in DOMAIN write_jobs' : WriterOf(disk', write_jobs', k) = WriterOf(disk, write_jobs, k)
    BY <2>1, <2>2, WriterOfSame
  <2>. QED BY <2>1, <2>2, <2>3, TakenStream
<1>20. CASE TakesDigestAsks(i, n)
  <2>1. Takes("digest", i, n) /\ UNCHANGED <<read_jobs, write_jobs, disk, verdict>>
    BY <1>20, Zenon DEF TakesDigestAsks
  <2>. QED BY <2>1, TakenStream
<1>21. ASSUME NEW b \in BOOLEAN, TakesDigestKnows(i, n, b) PROVE StreamInv'
  <2>1. Decides(i, n)
    BY <1>21, Zenon DEF Decides
  <2>. QED BY <2>1, DecidesStream
<1>22. CASE TakesDigestReturns(i, n)
  <2>1. Takes("digest", i, n) /\ UNCHANGED <<read_jobs, write_jobs, disk, verdict>>
    BY <1>22, Zenon DEF TakesDigestReturns
  <2>. QED BY <2>1, TakenStream
<1>23. CASE TakesDigestWants(i, n)
  <2>1. Decides(i, n)
    BY <1>23, Zenon DEF Decides
  <2>. QED BY <2>1, DecidesStream
<1>24. CASE TakesDigestInVain(i, n)
  <2>1. Takes("digest", i, n) /\ UNCHANGED <<read_jobs, write_jobs, disk, verdict>>
    BY <1>24, Zenon DEF TakesDigestInVain
  <2>. QED BY <2>1, TakenStream
<1>25. CASE TakesBlock(i, n)
  BY <1>25, BlockStream
<1>26. CASE TakesBlockInVain(i, n)
  BY <1>26
<1>27. CASE StartsUpload(i, n)
  <2>1. /\ Pushes(to_writer, to_writer', "receive", i, n)
        /\ UNCHANGED <<write_jobs, disk, verdict>>
        /\ Updates(read_jobs, read_jobs', i) /\ i = jobs + 1
    BY <1>27, Zenon DEF StartsUpload
  <2>2. i \notin DOMAIN write_jobs
    BY <2>1 DEF IdInv, Ids, TypeInv
  <2>3. \A k \in DOMAIN write_jobs : ReaderAt(read_jobs', k) \subseteq ReaderAt(read_jobs, k)
    BY <2>1, <2>2, ReaderOther
  <2>. QED BY <2>1, <2>3, AsideStream
<1>28. CASE StartsDownload(i, n)
  <2>1. Renews(i, n)
    BY <1>28, Zenon DEF Renews
  <2>. QED BY <2>1, RenewedStream
<1>29. CASE AddsUpload(i, n)
  <2>1. /\ UNCHANGED <<to_writer, write_jobs, disk, verdict>>
        /\ Updates(read_jobs, read_jobs', i) /\ i = jobs + 1
    BY <1>29, Zenon DEF AddsUpload
  <2>2. i \notin DOMAIN write_jobs
    BY <2>1 DEF IdInv, Ids, TypeInv
  <2>3. \A k \in DOMAIN write_jobs : ReaderAt(read_jobs', k) \subseteq ReaderAt(read_jobs, k)
    BY <2>1, <2>2, ReaderOther
  <2>4. \A k \in DOMAIN write_jobs :
            \A b2 \in ReaderAt(read_jobs', k) : \E b \in ReaderAt(read_jobs, k) : Meets(verdict, b, b2)
    BY <2>3, SamePlaces
  <2>. QED BY <2>1, <2>4, StillStream
<1>30. CASE AddsDownload(i, n)
  <2>1. Renews(i, n)
    BY <1>30, Zenon DEF Renews
  <2>. QED BY <2>1, RenewedStream
<1>31. CASE ResumesUpload(i, n)
  <2>1. /\ Pushes(to_writer, to_writer', "receive", i, n)
        /\ UNCHANGED <<write_jobs, disk, verdict>>
        /\ Updates(read_jobs, read_jobs', i) /\ i \in DOMAIN read_jobs
        /\ IsResumed(read_jobs[i], read_jobs'[i])
    BY <1>31, Zenon DEF ResumesUpload
  <2>2. PlaceOf(read_jobs'[i]) = PlaceOf(read_jobs[i])
    BY <2>1 DEF IsResumed, PlaceOf
  <2>3. i \in DOMAIN read_jobs'
    BY <2>1 DEF Updates
  <2>4. \A k : ReaderAt(read_jobs', k) = ReaderAt(read_jobs, k)
    BY <2>1, <2>2, <2>3, ReaderOne, ReaderOther
  <2>. QED BY <2>1, <2>4, AsideStream
<1>32. CASE ResumesDownload(i, n)
  <2>1. /\ UNCHANGED <<to_writer, read_jobs, disk, verdict>> /\ i \in DOMAIN write_jobs
        /\ Updates(write_jobs, write_jobs', i) /\ IsResumed(write_jobs[i], write_jobs'[i])
    BY <1>32, Zenon DEF ResumesDownload
  <2>2. \A k \in DOMAIN write_jobs' :
            /\ k \in DOMAIN write_jobs /\ write_jobs'[k].file_num = write_jobs[k].file_num
            /\ write_jobs'[k].file = write_jobs[k].file
    BY <2>1 DEF Updates, IsResumed
  <2>3. \A k \in DOMAIN write_jobs' : WriterOf(disk', write_jobs', k) = WriterOf(disk, write_jobs, k)
    BY <2>1, <2>2, WriterOfSame
  <2>4. \A k : \A b2 \in ReaderAt(read_jobs', k) : \E b \in ReaderAt(read_jobs, k) : Meets(verdict, b, b2)
    BY <2>1, SamePlaces
  <2>. QED BY <2>1, <2>2, <2>3, <2>4, StillStream
<1>33. CASE CancelsUpload(i)
  <2>1. /\ Pushes(to_writer, to_writer', "cancel", i, 0)
        /\ UNCHANGED <<write_jobs, disk, verdict>>
        /\ Removes(read_jobs, read_jobs', i)
    BY <1>33, Zenon DEF CancelsUpload
  <2>2. \A k : ReaderAt(read_jobs', k) \subseteq ReaderAt(read_jobs, k)
    BY <2>1, RemovedPlaces
  <2>. QED BY <2>1, <2>2, AsideStream
<1>34. CASE CancelsDownload(i)
  <2>1. i \in DOMAIN write_jobs /\ Removes(write_jobs, write_jobs', i)
    BY <1>34, Zenon DEF CancelsDownload
  <2>. QED BY <2>1, NoneStream DEF StreamInv
<1>35. ASSUME NEW b \in BOOLEAN, AnswersUpload(i, n, b) PROVE StreamInv'
  <2>1. Decides(i, n)
    BY <1>35, Zenon DEF Decides
  <2>. QED BY <2>1, DecidesStream
<1>36. ASSUME NEW b \in BOOLEAN, AnswersDownload(i, n, b) PROVE StreamInv'
  <2>1. Decides(i, n)
    BY <1>36, Zenon DEF Decides
  <2>. QED BY <2>1, DecidesStream
<1>37. CASE AnswersNobody(i, n)
  BY <1>37, IdleStream DEF AnswersNobody
<1>38. CASE Reconnects
  BY <1>38 DEF Reconnects, StreamInv
<1>39. CASE Stutters
  BY <1>39, IdleStream DEF Stutters
<1>. QED BY <1>1, <1>2, <1>3, <1>4, <1>5, <1>6, <1>7, <1>8, <1>9, <1>10, <1>11, <1>12, <1>13,
   <1>14, <1>15, <1>16, <1>17, <1>18, <1>19, <1>20, <1>21, <1>22, <1>23, <1>24, <1>25, <1>26,
   <1>27, <1>28, <1>29, <1>30, <1>31, <1>32, <1>33, <1>34, <1>35, <1>36, <1>37, <1>38, <1>39,
   Zenon DEF Step

-----------------------------------------------------------------------------
(* What is on the writer's disk, after each step.                          *)

(* What a write job has open, and what is there of other files. *)
LEMMA OpenJob ==
    ASSUME TypeInv, WriterInv, DiskInv, NEW i \in DOMAIN write_jobs
    PROVE  /\ write_jobs[i] \in WriteJobs /\ write_jobs[i].file_num \in Nat
           /\ write_jobs[i].file # None =>
                 /\ write_jobs[i].file_num \in Files
                 /\ write_jobs[i].file = <<write_jobs[i].file_num, "download">>
                 /\ write_jobs[i].files /\ verdict[write_jobs[i].file_num] = "overwrite"
                 /\ Begun(write_jobs[i].file_num, disk[<<write_jobs[i].file_num, "download">>])
                 /\ disk[<<write_jobs[i].file_num, "download">>] # Absent
           /\ \A f \in Files \ tainted : disk[<<f, "download">>] # Absent =>
                 write_jobs[i].file # None /\ f = write_jobs[i].file_num
           /\ \A f \in Files : f < write_jobs[i].file_num => Dealt(f)
<1>. DEFINE job == write_jobs[i]
<1>1. job \in WriteJobs /\ job.file_num \in Nat
    BY WriterHas
<1>2. job.file # None => /\ job.file_num \in Files /\ job.file = <<job.file_num, "download">>
                         /\ job.files /\ Begun(job.file_num, disk[job.file])
    BY Zenon DEF DiskInv
<1>3. job.file # None => verdict[job.file_num] = "overwrite"
    BY <1>2 DEF WriterInv
<1>4. job.file # None => disk[job.file] # Absent
    BY <1>2, BegunThere DEF TypeInv, Names
<1>5. /\ \A f \in Files \ tainted : disk[<<f, "download">>] # Absent => job.file = <<f, "download">>
      /\ \A f \in Files : f < job.file_num => Dealt(f)
    BY Zenon DEF DiskInv
<1>6. ASSUME NEW f \in Files \ tainted, disk[<<f, "download">>] # Absent
      PROVE  job.file # None /\ f = job.file_num
    <2>1. job.file = <<f, "download">> /\ f \in Nat
        BY <1>5, <1>6, FileAssumption DEF Files
    <2>2. <<f, "download">> # None
        BY <2>1, FileAssumption
    <2>. QED BY <1>2, <2>1, <2>2
<1>. QED BY <1>1, <1>2, <1>3, <1>4, <1>5, <1>6

(* Most steps write nothing, and no write job goes on to another file. *)
WritesNothing ==
    /\ UNCHANGED <<disk, verdict, tainted, done>>
    /\ \A k \in DOMAIN write_jobs' :
          /\ k \in DOMAIN write_jobs /\ write_jobs'[k].file_num = write_jobs[k].file_num
          /\ write_jobs'[k].file = write_jobs[k].file
          /\ write_jobs[k].files => write_jobs'[k].files

(* A job is cancelled. *)
Cancels(i, n) == TakesCancel(i, n) \/ CancelsDownload(i)

(* See WritesNothing.  *)
LEMMA StillStep ==
    ASSUME NEW i \in Nat, NEW n \in Nat, NEW kind, Step(i, n, kind),
           ~Renews(i, n), ~Decides(i, n), ~Cancels(i, n), ~TakesBlock(i, n), ~TakesBlockInVain(i, n),
           ~TakesDone(i, n)
    PROVE  WritesNothing
<1>1. CASE SendsDigest(i)
    BY <1>1 DEF SendsDigest, Timer, Updates, Pushes, readerFrame, WritesNothing, Removes
<1>2. CASE SendsBlock(i)
    BY <1>2 DEF SendsBlock, Timer, Updates, Pushes, readerFrame, WritesNothing, Removes
<1>3. CASE SendsEnd(i)
    BY <1>3 DEF SendsEnd, Timer, Updates, Pushes, readerFrame, WritesNothing, Removes
<1>4. CASE SendsReadError(i)
    BY <1>4 DEF SendsReadError, Timer, Updates, Pushes, readerFrame, WritesNothing, Removes
<1>5. CASE SendsDigestError(i)
    BY <1>5 DEF SendsDigestError, Timer, Updates, Pushes, readerFrame, WritesNothing, Removes
<1>6. CASE SendsLast(i, kind)
    BY <1>6 DEF SendsLast, Removes, Pushes, readerFrame, WritesNothing, Updates
<1>7. CASE GetsSend(i, n)
    BY <1>7 DEF GetsSend, Gets, Pops, Updates, IsNew, Pushes, readerFrame, WritesNothing, Removes
<1>8. CASE GetsSendInVain(i, n)
    BY <1>8 DEF GetsSendInVain, Gets, Pops, Pushes, readerFrame, WritesNothing, Updates, Removes
<1>9. CASE GetsCancel(i, n)
    BY <1>9 DEF GetsCancel, Gets, Pops, Removes, readerFrame, WritesNothing, Updates
<1>10. CASE GetsConfirm(i, n)
    BY <1>10 DEF GetsConfirm, Gets, Pops, Updates, IsAnswered, readerFrame, WritesNothing, Removes
<1>11. CASE GetsOther(kind, i, n)
    BY <1>11 DEF GetsOther, Gets, Pops, readerFrame, WritesNothing, Updates, Removes
<1>12. CASE GetsDigestAsks(i, n)
    BY <1>12 DEF GetsDigestAsks, Gets, Pops, WritesNothing, readerFrame, Updates, Removes
<1>13. ASSUME NEW b \in BOOLEAN, GetsDigestKnows(i, n, b) PROVE WritesNothing
  BY <1>13, Zenon DEF Decides
<1>14. CASE TakesOther(kind, i, n)
    BY <1>14 DEF TakesOther, Takes, Pops, WritesNothing, readerFrame, Updates, Removes
<1>15. CASE TakesReceive(i, n)
  BY <1>15, Zenon DEF Renews
<1>16. CASE TakesCancel(i, n)
  BY <1>16, Zenon DEF Cancels
<1>17. CASE TakesDone(i, n)
  BY <1>17
<1>18. CASE TakesError(i, n)
    BY <1>18 DEF TakesError, Takes, Pops, Removes, Told, Pushes, WritesNothing, readerFrame,
       Updates
<1>19. CASE TakesDir(i, n)
    BY <1>19 DEF TakesDir, Takes, Pops, Updates, WritesNothing, readerFrame, Removes
<1>20. CASE TakesDigestAsks(i, n)
    BY <1>20 DEF TakesDigestAsks, Takes, Pops, WritesNothing, readerFrame, Updates, Removes
<1>21. ASSUME NEW b \in BOOLEAN, TakesDigestKnows(i, n, b) PROVE WritesNothing
  BY <1>21, Zenon DEF Decides
<1>22. CASE TakesDigestReturns(i, n)
    BY <1>22 DEF TakesDigestReturns, Takes, Pops, Pushes, WritesNothing, readerFrame, Updates,
       Removes
<1>23. CASE TakesDigestWants(i, n)
  BY <1>23, Zenon DEF Decides
<1>24. CASE TakesDigestInVain(i, n)
    BY <1>24 DEF TakesDigestInVain, Takes, Pops, Told, Pushes, WritesNothing, readerFrame,
       Updates, Removes
<1>25. CASE TakesBlock(i, n)
  BY <1>25
<1>26. CASE TakesBlockInVain(i, n)
  BY <1>26
<1>27. CASE StartsUpload(i, n)
    BY <1>27 DEF StartsUpload, Updates, IsNew, Pushes, WritesNothing, readerFrame, Removes
<1>28. CASE StartsDownload(i, n)
  BY <1>28, Zenon DEF Renews
<1>29. CASE AddsUpload(i, n)
    BY <1>29 DEF AddsUpload, Updates, IsNew, WritesNothing, readerFrame, Removes
<1>30. CASE AddsDownload(i, n)
  BY <1>30, Zenon DEF Renews
<1>31. CASE ResumesUpload(i, n)
    BY <1>31 DEF ResumesUpload, Updates, IsResumed, Pushes, WritesNothing, readerFrame, Removes
<1>32. CASE ResumesDownload(i, n)
    BY <1>32 DEF ResumesDownload, Updates, IsResumed, Pushes, WritesNothing, readerFrame, Removes
<1>33. CASE CancelsUpload(i)
    BY <1>33 DEF CancelsUpload, Removes, Pushes, WritesNothing, readerFrame, Updates
<1>34. CASE CancelsDownload(i)
  BY <1>34, Zenon DEF Cancels
<1>35. ASSUME NEW b \in BOOLEAN, AnswersUpload(i, n, b) PROVE WritesNothing
  BY <1>35, Zenon DEF Decides
<1>36. ASSUME NEW b \in BOOLEAN, AnswersDownload(i, n, b) PROVE WritesNothing
  BY <1>36, Zenon DEF Decides
<1>37. CASE AnswersNobody(i, n)
    BY <1>37 DEF AnswersNobody, WritesNothing, readerFrame, Updates, Removes
<1>38. CASE Reconnects
    BY <1>38 DEF Reconnects, WritesNothing, readerFrame, Updates, Removes
<1>39. CASE Stutters
    BY <1>39 DEF Stutters, WritesNothing, readerFrame, Updates, Removes
<1>. QED BY <1>1, <1>2, <1>3, <1>4, <1>5, <1>6, <1>7, <1>8, <1>9, <1>10, <1>11, <1>12, <1>13,
   <1>14, <1>15, <1>16, <1>17, <1>18, <1>19, <1>20, <1>21, <1>22, <1>23, <1>24, <1>25, <1>26,
   <1>27, <1>28, <1>29, <1>30, <1>31, <1>32, <1>33, <1>34, <1>35, <1>36, <1>37, <1>38, <1>39,
   Zenon DEF Step

(* Then what is on the disk is as it was. *)
LEMMA StillDisk ==
    ASSUME WritesNothing, DiskInv, FinalInv, DoneInv, \A k : Owner(k)' => Owner(k)
    PROVE  DiskInv' /\ FinalInv' /\ DoneInv'
<1>1. UNCHANGED <<disk, verdict, tainted, done>>
    BY Zenon DEF WritesNothing
<1>2. \A f : Dealt(f)' <=> Dealt(f)
    BY <1>1 DEF Dealt
<1>3. FinalInv'
    BY <1>1 DEF FinalInv
<1>4. DoneInv'
    BY <1>1, <1>2 DEF DoneInv
<1>5. DiskInv'
    BY <1>1, <1>2 DEF WritesNothing, DiskInv
<1>. QED BY <1>3, <1>4, <1>5

(* A new job finds on the disk what is not its own. *)
LEMMA RenewedDisk ==
    ASSUME TypeInv, KindInv, OrderInv', FinalInv, NEW i \in Nat, NEW n \in Nat, Renews(i, n)
    PROVE  DiskInv' /\ FinalInv' /\ DoneInv'
<1>1. NewHistory(n) /\ disk' \in {disk} \cup Directories
    BY Zenon DEF Renews, TakesReceive, StartsDownload, AddsDownload
<1>2. /\ \A f \in Files : verdict'[f] = IF f < n THEN "before" ELSE None
      /\ done' = FALSE
      /\ \A f \in Files : f \in tainted' <=> f \in tainted \/ disk[<<f, "download">>] # Absent
    BY <1>1, NewHistoryDoes
<1>3. \A f \in Files : /\ disk'[<<f, "download">>] \in {Absent, disk[<<f, "download">>]}
                       /\ disk'[<<f, "final">>] \in {Absent, Old, disk[<<f, "final">>]}
    BY <1>1 DEF Directories
<1>4. /\ \A k \in DOMAIN write_jobs' : k = i
      /\ write_jobs'[i].file = None /\ write_jobs'[i].file_num = n
    BY RenewedOne
<1>5. \A f \in Files \ tainted' : disk'[<<f, "download">>] = Absent
    BY <1>2, <1>3
<1>6. \A f \in Files : f < n => Dealt(f)'
    BY <1>2 DEF Dealt
<1>7. FinalInv'
    BY <1>2, <1>3 DEF FinalInv
<1>8. DiskInv'
    BY <1>4, <1>5, <1>6 DEF DiskInv
<1>. QED BY <1>2, <1>7, <1>8 DEF DoneInv

(* The writer has not come past a file that is being decided on. *)
LEMMA DecidesAhead ==
    ASSUME TypeInv, IdInv, KindInv, OrderInv, TokenWaits, OneToken, TokenInv, AnsweredInv,
           WriterInv,
           DataInv, QuietInv, StreamInv, DiskInv, NEW i \in Nat, NEW n \in Nat, Decides(i, n),
           i \in DOMAIN write_jobs
    PROVE  write_jobs[i].file_num <= n
<1>1. n \in Files /\ ~Answered(n)
    BY DecidesAnswers
<1>2. PICK a \in WriterOf(disk, write_jobs, i) : Meets(verdict, a, <<n, 0>>)
    BY DecidesAt
<1>3. verdict[n] # "skip"
    BY <1>1 DEF Answered
<1>. QED BY <1>1, <1>2, <1>3, WriterAhead

(* What an answer does to a write job. *)
LEMMA DecidesJob ==
    ASSUME NEW i \in Nat, NEW n \in Nat, Decides(i, n), NEW k \in DOMAIN write_jobs, k \in DOMAIN
           write_jobs'
    PROVE  \/ write_jobs'[k] = write_jobs[k]
           \/ /\ write_jobs'[k].file_num = write_jobs[k].file_num
              /\ write_jobs'[k].file = write_jobs[k].file /\ write_jobs'[k].files = write_jobs[k].files
           \/ /\ k = i /\ write_jobs[k].file_num = n /\ verdict'[n] = "skip"
              /\ write_jobs'[k].file_num = n + 1 /\ write_jobs'[k].file = None
<1>1. PICK b \in BOOLEAN :
          \/ write_jobs' = write_jobs
          \/ /\ Updates(write_jobs, write_jobs', i) /\ IsDecided(n, b)
             /\ IsAnswered(write_jobs[i], write_jobs'[i], n, b)
    BY Zenon DEF Decides, GetsDigestKnows, AnswersUpload, TakesDigestKnows, AnswersDownload,
       TakesDigestWants
<1>2. CASE write_jobs' = write_jobs
    BY <1>2
<1>3. CASE /\ Updates(write_jobs, write_jobs', i) /\ IsDecided(n, b)
           /\ IsAnswered(write_jobs[i], write_jobs'[i], n, b)
    <2>1. CASE k # i
        BY <1>3, <2>1 DEF Updates
    <2>2. CASE k = i /\ write_jobs[k].file_num # n
        BY <1>3, <2>2, Zenon DEF IsAnswered
    <2>3. CASE k = i /\ write_jobs[k].file_num = n /\ b
        BY <1>3, <2>3, Zenon DEF IsAnswered
    <2>4. CASE k = i /\ write_jobs[k].file_num = n /\ ~b
        BY <1>3, <2>4, Zenon DEF IsAnswered, IsDecided
    <2>. QED BY <2>1, <2>2, <2>3, <2>4
<1>. QED BY <1>1, <1>2, <1>3

(* Nothing is written when the user answers. *)
LEMMA DecidesDisk ==
    ASSUME TypeInv, IdInv, KindInv, OrderInv, TokenWaits, OneToken, TokenInv, AnsweredInv,
           WriterInv,
           DataInv, QuietInv, StreamInv, DiskInv, FinalInv, DoneInv, NEW i \in Nat, NEW n \in Nat,
           Decides(i, n)
    PROVE  DiskInv' /\ FinalInv' /\ DoneInv'
<1>1. Owner(i) /\ n \in Files /\ ~Answered(n)
    BY DecidesAnswers
<1>2. /\ \A f \in Files : f # n => verdict'[f] = verdict[f]
      /\ UNCHANGED <<disk, tainted>> /\ DOMAIN write_jobs' = DOMAIN write_jobs
    BY <1>1, DecidesDoes, DecidesFrom
<1>3. done' = done
    BY Zenon DEF Decides, GetsDigestKnows, AnswersUpload, TakesDigestKnows, AnswersDownload,
       TakesDigestWants, IsDecided
<1>4. FinalInv'
    BY <1>2 DEF FinalInv
<1>5. DoneInv'
    BY <1>1, <1>3 DEF DoneInv
<1>6. DiskInv'
    <2>1. SUFFICES ASSUME NEW k \in DOMAIN write_jobs
                   PROVE  /\ write_jobs'[k].file # None =>
                                /\ write_jobs'[k].file_num \in Files
                                /\ write_jobs'[k].file = <<write_jobs'[k].file_num, "download">>
                                /\ write_jobs'[k].files
                                /\ Begun(write_jobs'[k].file_num, disk[write_jobs'[k].file])
                          /\ \A f \in Files \ tainted : disk[<<f, "download">>] # Absent =>
                                write_jobs'[k].file = <<f, "download">>
                          /\ \A f \in Files : f < write_jobs'[k].file_num => Dealt(f)'
        BY <1>2 DEF DiskInv
    <2>2. k = i
        <3>1. Owner(k)
            BY DEF Owner
        <3>. QED BY <1>1, <3>1, OwnerUnique
    <2>3. write_jobs[k].file_num <= n
        BY <2>2, DecidesAhead
    <2>4. /\ write_jobs[k].file_num \in Nat /\ n \in Nat /\ \A f \in Files : f \in Nat
          /\ write_jobs[k].file # None =>
                write_jobs[k].file_num \in Files /\ verdict[write_jobs[k].file_num] = "overwrite"
          /\ \A f \in Files : f < write_jobs[k].file_num => Dealt(f)
        <3>1. /\ write_jobs[k].file_num \in Nat
              /\ write_jobs[k].file # None =>
                    write_jobs[k].file_num \in Files /\ verdict[write_jobs[k].file_num] = "overwrite"
              /\ \A f \in Files : f < write_jobs[k].file_num => Dealt(f)
            BY OpenJob, Zenon
        <3>2. \A f \in Files : f \in Nat
            BY FileAssumption DEF Files
        <3>. QED BY <3>1, <3>2, Zenon
    <2>5. \A f \in Files : f < write_jobs[k].file_num => Dealt(f)'
        <3>1. SUFFICES ASSUME NEW f \in Files, f < write_jobs[k].file_num PROVE Dealt(f)'
            OBVIOUS
        <3>2. Dealt(f) /\ f # n
            BY <2>3, <2>4, <3>1
        <3>. QED BY <1>2, <3>2 DEF Dealt
    <2>6. /\ write_jobs[k].file # None =>
                /\ write_jobs[k].file_num \in Files
                /\ write_jobs[k].file = <<write_jobs[k].file_num, "download">>
                /\ write_jobs[k].files
                /\ Begun(write_jobs[k].file_num, disk[write_jobs[k].file])
          /\ \A f \in Files \ tainted : disk[<<f, "download">>] # Absent =>
                write_jobs[k].file = <<f, "download">>
        BY Zenon DEF DiskInv
    <2>7. CASE write_jobs'[k] = write_jobs[k]
        BY <2>5, <2>6, <2>7, Zenon
    <2>8. CASE /\ write_jobs'[k].file_num = write_jobs[k].file_num
               /\ write_jobs'[k].file = write_jobs[k].file /\ write_jobs'[k].files = write_jobs[k].files
        BY <2>5, <2>6, <2>8, Zenon
    <2>9. CASE /\ write_jobs[k].file_num = n /\ verdict'[n] = "skip"
               /\ write_jobs'[k].file_num = n + 1 /\ write_jobs'[k].file = None
        <3>1. write_jobs[k].file = None
            BY <1>1, <2>4, <2>9 DEF Answered
        <3>2. Dealt(n)'
            BY <2>9 DEF Dealt
        <3>3. \A f \in Files : f < n + 1 => f < n \/ f = n
            BY <2>4
        <3>4. \A f \in Files : f < n + 1 => Dealt(f)'
            BY <2>5, <2>9, <3>2, <3>3, Zenon
        <3>5. \A f \in Files \ tainted : disk[<<f, "download">>] # Absent => write_jobs'[k].file = <<f, "download">>
            BY <2>6, <2>9, <3>1, Zenon
        <3>. QED BY <2>9, <3>4, <3>5, Zenon
    <2>. QED BY <2>2, <1>2, <2>7, <2>8, <2>9, DecidesJob
<1>. QED BY <1>4, <1>5, <1>6

(* A cancelled job leaves nothing, or a .download. *)
LEMMA CancelsDisk ==
    ASSUME TypeInv, IdInv, OrderInv, FinalInv, DoneInv, NEW i \in Nat, NEW n \in Nat, Cancels(i,
           n)
    PROVE  DiskInv' /\ FinalInv' /\ DoneInv'
<1>1. /\ i \in DOMAIN write_jobs /\ Removes(write_jobs, write_jobs', i)
      /\ disk' = remove_download_file(write_jobs[i]) /\ UNCHANGED <<tainted, done>>
    BY Zenon DEF Cancels, TakesCancel, CancelsDownload
<1>2. \A f \in Files : disk'[<<f, "final">>] = disk[<<f, "final">>]
    BY <1>1, WriterHas, RemoveDownloadDoes
<1>3. FinalInv'
    BY <1>1, <1>2 DEF FinalInv
<1>4. Owner(i)
    BY <1>1 DEF Owner
<1>5. DoneInv'
    BY <1>1, <1>4 DEF DoneInv
<1>6. DiskInv'
    BY <1>1, NoneStream DEF DiskInv
<1>. QED BY <1>3, <1>5, <1>6

(* The client of a download knows the files when it gets a block. *)
LEMMA BlockFiles ==
    ASSUME TypeInv, StartInv, NEW i \in Nat, NEW n \in Nat, Takes("block", i, n), i \in DOMAIN
           write_jobs
    PROVE  write_jobs[i].files
<1>1. 1 \in At(to_writer) /\ to_writer[1].kind = "block" /\ to_writer[1].id = i
    BY DEF Takes, Pops
<1>2. CASE upload
    BY <1>2 DEF StartInv
<1>3. CASE ~upload
    <2>1. SUFFICES ASSUME ~write_jobs[i].files PROVE FALSE
        OBVIOUS
    <2>2. FilesFirst(to_writer, DOMAIN read_jobs, i)
        BY <1>3, <2>1 DEF StartInv, DownloadFiles
    <2>3. \E r \in At(to_writer) : r < 1
        BY <1>1, <2>2, Zenon DEF FilesFirst
    <2>. QED BY <2>3 DEF At
<1>. QED BY <1>2, <1>3

(* The writer comes to file n, and is past all before it: its open file is *)
(* whole, the others are kept.  What the disk is then, and what d is of it *)
(* when file n perhaps is begun.                                           *)
Passes(i, n) ==
    /\ write_jobs[i].file = None \/ write_jobs[i].file_num # n
    /\ write_jobs[i].file # None /\ write_jobs[i].file_num # n =>
          disk[write_jobs[i].file] = Whole(write_jobs[i].file_num)
    /\ \A f \in Files : write_jobs[i].file_num < f /\ f < n => verdict[f] = "skip"
    /\ write_jobs[i].file = None =>
          \A f \in Files : write_jobs[i].file_num <= f /\ f < n => verdict[f] = "skip"

Renames(d, i, n) ==
    /\ \A f \in Files : d[<<f, "final">>] = modify_time(write_jobs[i])[<<f, "final">>]
    /\ \A f \in Files : f # n =>
          d[<<f, "download">>] = modify_time(write_jobs[i])[<<f, "download">>]

Clean(d, n) ==
    /\ \A f \in Files : f < n =>
          \/ verdict[f] \in {"before", "skip"}
          \/ /\ verdict[f] = "overwrite"
             /\ d[<<f, "final">>] = Whole(f) /\ d[<<f, "download">>] = Absent
    /\ \A f \in Files \ tainted : d[<<f, "final">>] \in {disk[<<f, "final">>], Whole(f)}
    /\ \A f \in Files \ tainted : f # n => d[<<f, "download">>] = Absent

(* All files before n are dealt with then. *)
LEMMA Renamed ==
    ASSUME TypeInv, WriterInv, DiskInv, NEW i \in DOMAIN write_jobs, NEW n \in Nat, Passes(i, n),
           NEW d, Renames(d, i, n)
    PROVE  Clean(d, n)
<1>0. /\ write_jobs[i].file = None \/ write_jobs[i].file_num # n
      /\ write_jobs[i].file # None /\ write_jobs[i].file_num # n =>
            disk[write_jobs[i].file] = Whole(write_jobs[i].file_num)
      /\ \A f \in Files : write_jobs[i].file_num < f /\ f < n => verdict[f] = "skip"
      /\ write_jobs[i].file = None =>
            \A f \in Files : write_jobs[i].file_num <= f /\ f < n => verdict[f] = "skip"
      /\ \A f \in Files : d[<<f, "final">>] = modify_time(write_jobs[i])[<<f, "final">>]
      /\ \A f \in Files : f # n =>
            d[<<f, "download">>] = modify_time(write_jobs[i])[<<f, "download">>]
    BY Zenon DEF Passes, Renames
<1>. DEFINE job == write_jobs[i]
            num == job.file_num
            moved_ == modify_time(job)
<1>1. /\ job \in WriteJobs /\ num \in Nat
      /\ job.file # None => /\ num \in Files /\ job.file = <<num, "download">> /\ job.files
                            /\ verdict[num] = "overwrite" /\ disk[<<num, "download">>] # Absent
      /\ \A f \in Files \ tainted : disk[<<f, "download">>] # Absent => job.file # None /\ f = num
      /\ \A f \in Files : f < num => Dealt(f)
    BY OpenJob, Zenon
<1>2. /\ \/ moved_ = disk
         \/ /\ job.files /\ num \in Files /\ disk[<<num, "download">>] # Absent
            /\ moved_[<<num, "final">>] = disk[<<num, "download">>]
            /\ moved_[<<num, "download">>] = Absent
            /\ \A f \in Files : f # num =>
                  /\ moved_[<<f, "final">>] = disk[<<f, "final">>]
                  /\ moved_[<<f, "download">>] = disk[<<f, "download">>]
      /\ (job.files /\ num \in Files) => moved_[<<num, "download">>] = Absent
    BY <1>1, ModifyTimeDoes, Zenon
<1>3. n \in Nat /\ \A f \in Files : f \in Nat
    BY FileAssumption DEF Files
<1>4. job.file # None => num # n /\ disk[<<num, "download">>] = Whole(num)
    BY <1>0, <1>1, Zenon
<1>5. \A f \in Files : f # num => /\ moved_[<<f, "final">>] = disk[<<f, "final">>]
                                  /\ moved_[<<f, "download">>] = disk[<<f, "download">>]
    BY <1>2, Zenon
<1>6. job.file # None => /\ moved_[<<num, "final">>] = Whole(num)
                         /\ moved_[<<num, "download">>] = Absent
    BY <1>1, <1>2, <1>4, Zenon
<1>. HIDE DEF job, num, moved_
<1>7. ASSUME NEW f \in Files, f < n
      PROVE  \/ verdict[f] \in {"before", "skip"}
             \/ /\ verdict[f] = "overwrite"
                /\ d[<<f, "final">>] = Whole(f) /\ d[<<f, "download">>] = Absent
    <2>0. /\ d[<<f, "final">>] = moved_[<<f, "final">>]
          /\ d[<<f, "download">>] = moved_[<<f, "download">>]
        BY <1>0, <1>3, <1>7 DEF moved_, job
    <2>1. CASE f < num
        BY <1>1, <1>5, <1>7, <2>0, <2>1 DEF Dealt
    <2>2. CASE f = num
        <3>1. CASE job.file = None
            BY <1>0, <1>3, <1>7, <2>2, <3>1 DEF job, num
        <3>2. CASE job.file # None
            BY <1>1, <1>6, <2>0, <2>2, <3>2
        <3>. QED BY <3>1, <3>2
    <2>3. CASE num < f
        BY <1>0, <1>7, <2>3 DEF job, num
    <2>. QED BY <1>1, <1>3, <2>1, <2>2, <2>3
<1>8. ASSUME NEW f \in Files \ tainted
      PROVE  d[<<f, "final">>] \in {disk[<<f, "final">>], Whole(f)}
    <2>1. d[<<f, "final">>] = moved_[<<f, "final">>]
        BY <1>0 DEF moved_, job
    <2>2. CASE f # num
        BY <1>5, <2>1, <2>2
    <2>3. CASE f = num /\ job.file # None
        BY <1>6, <2>1, <2>3
    <2>4. CASE f = num /\ job.file = None
        BY <1>1, <1>2, <2>1, <2>4
    <2>. QED BY <2>2, <2>3, <2>4
<1>9. ASSUME NEW f \in Files \ tainted, f # n
      PROVE  d[<<f, "download">>] = Absent
    <2>1. d[<<f, "download">>] = moved_[<<f, "download">>]
        BY <1>0, <1>9 DEF moved_, job
    <2>2. CASE f # num
        BY <1>1, <1>5, <2>1, <2>2
    <2>3. CASE f = num /\ job.file # None
        BY <1>6, <2>1, <2>3
    <2>4. CASE f = num /\ job.file = None
        BY <1>1, <1>2, <2>1, <2>4
    <2>. QED BY <2>2, <2>3, <2>4
<1>. QED BY <1>7, <1>8, <1>9 DEF Clean

(* The first block of a file: the one before it is whole and gets its name, *)
(* those between are kept.                                                 *)
LEMMA FirstBlockDisk ==
    ASSUME TypeInv, IdInv, KindInv, AnsweredInv, WriterInv, DataInv, StreamInv, DiskInv, StartInv,
           FinalInv, NEW i \in Nat, NEW n \in Nat, TakesBlock(i, n), IsFirst(write_jobs[i], n)
    PROVE  /\ \A f \in Files : f < n => Dealt(f)'
           /\ \A f \in Files \ tainted : f # n => disk'[<<f, "download">>] = Absent
           /\ FinalInv'
<1>1. /\ Takes("block", i, n) /\ i \in DOMAIN write_jobs /\ UNCHANGED <<verdict, tainted>>
      /\ \A x \in Names : x # <<n, "download">> => disk'[x] = modify_time(write_jobs[i])[x]
    BY Zenon DEF TakesBlock
<1>2. Passes(i, n)
    <2>1. PICK c \in Nat :
              /\ write_jobs[i].file # None /\ write_jobs[i].file_num # n =>
                    disk[write_jobs[i].file] = Whole(write_jobs[i].file_num)
              /\ \A f \in Files : write_jobs[i].file_num < f /\ f < n => verdict[f] = "skip"
              /\ write_jobs[i].file = None =>
                    \A f \in Files : write_jobs[i].file_num <= f /\ f < n => verdict[f] = "skip"
        BY <1>1, BlockAt, Zenon
    <2>2. write_jobs[i].file = None \/ write_jobs[i].file_num # n
        BY DEF IsFirst
    <2>. QED BY <2>1, <2>2, Zenon DEF Passes
<1>3. PICK d : d = disk'
    OBVIOUS
<1>4. Renames(d, i, n)
    <2>1. \A x \in Names : x # <<n, "download">> => d[x] = modify_time(write_jobs[i])[x]
        BY <1>1, <1>3, Zenon
    <2>. QED BY <2>1 DEF Names, Renames
<1>5. Clean(d, n)
    BY <1>1, <1>2, <1>4, Renamed
<1>6. \A f \in Files : f < n => Dealt(f)'
    BY <1>1, <1>3, <1>5 DEF Clean, Dealt
<1>7. FinalInv'
    BY <1>1, <1>3, <1>5 DEF Clean, FinalInv
<1>. QED BY <1>3, <1>5, <1>6, <1>7 DEF Clean

(* Another block of it changes nothing but the file itself. *)
LEMMA NextBlockDisk ==
    ASSUME TypeInv, WriterInv, DiskInv, FinalInv, NEW i \in Nat, NEW n \in Nat, TakesBlock(i, n),
           ~IsFirst(write_jobs[i], n)
    PROVE  /\ \A f \in Files : f < n => Dealt(f)'
           /\ \A f \in Files \ tainted : f # n => disk'[<<f, "download">>] = Absent
           /\ FinalInv'
<1>1. /\ i \in DOMAIN write_jobs /\ UNCHANGED <<verdict, tainted>>
      /\ \A x \in Names : x # write_jobs[i].file => disk'[x] = disk[x]
    BY Zenon DEF TakesBlock
<1>2. write_jobs[i].file_num = n /\ write_jobs[i].file # None
    BY DEF IsFirst
<1>3. /\ write_jobs[i].file = <<n, "download">>
      /\ \A f \in Files \ tainted : disk[<<f, "download">>] # Absent => f = n
      /\ \A f \in Files : f < n => Dealt(f)
    BY <1>1, <1>2, OpenJob, Zenon
<1>4. \A f \in Files : /\ disk'[<<f, "final">>] = disk[<<f, "final">>]
                       /\ f # n => disk'[<<f, "download">>] = disk[<<f, "download">>]
    <2>1. \A x \in Names : x # <<n, "download">> => disk'[x] = disk[x]
        BY <1>1, <1>3, Zenon
    <2>. QED BY <2>1 DEF Names
<1>5. FinalInv'
    BY <1>1, <1>4 DEF FinalInv
<1>6. ASSUME NEW f \in Files, f < n PROVE Dealt(f)'
    <2>1. f # n
        BY <1>6 DEF Files
    <2>2. Dealt(f)
        BY <1>3, <1>6
    <2>. QED BY <1>1, <1>4, <2>1, <2>2 DEF Dealt
<1>. QED BY <1>3, <1>4, <1>5, <1>6

(* See FirstBlockDisk and NextBlockDisk. *)
LEMMA BlockDisk ==
    ASSUME TypeInv, IdInv, KindInv, OrderInv, AnsweredInv, WriterInv, DataInv, StreamInv, DiskInv,
           StartInv, FinalInv, DoneInv, NEW i \in Nat, NEW n \in Nat, TakesBlock(i, n)
    PROVE  DiskInv' /\ FinalInv' /\ DoneInv'
<1>1. /\ Takes("block", i, n) /\ i \in DOMAIN write_jobs /\ Updates(write_jobs, write_jobs', i)
      /\ UNCHANGED <<done, tainted>>
    BY Zenon DEF TakesBlock
<1>2. /\ \A f \in Files : f < n => Dealt(f)'
      /\ \A f \in Files \ tainted : f # n => disk'[<<f, "download">>] = Absent
      /\ FinalInv'
    BY FirstBlockDisk, NextBlockDisk
<1>3. n \in Files
    BY <1>1, BlocksWanted
<1>4. Owner(i)
    BY <1>1 DEF Owner
<1>5. DoneInv'
    BY <1>1, <1>4 DEF DoneInv
<1>6. Begun(n, disk'[<<n, "download">>])
    BY BlockWrites
<1>7. /\ write_jobs'[i].file_num = n /\ write_jobs'[i].file = <<n, "download">>
      /\ write_jobs'[i].files
    <2>1. write_jobs[i].files
        BY <1>1, BlockFiles
    <2>2. \/ IsWriting(write_jobs[i], write_jobs'[i], n, <<n, "download">>)
          \/ /\ IsWriting(write_jobs[i], write_jobs'[i], n, write_jobs[i].file)
             /\ write_jobs[i].file_num = n /\ write_jobs[i].file # None
        BY Zenon DEF TakesBlock, IsFirst
    <2>3. write_jobs[i].file_num = n /\ write_jobs[i].file # None => write_jobs[i].file = <<n, "download">>
        BY <1>1, Zenon DEF DiskInv
    <2>. QED BY <2>1, <2>2, <2>3 DEF IsWriting
<1>8. \A k \in DOMAIN write_jobs' : k = i
    BY <1>1, OneWriter DEF Updates
<1>9. DiskInv'
    BY <1>1, <1>2, <1>3, <1>6, <1>7, <1>8 DEF DiskInv
<1>. QED BY <1>2, <1>5, <1>9

(* The job is over: its last file is whole, and gets its name. *)
LEMMA DoneDisk ==
    ASSUME TypeInv, IdInv, KindInv, OrderInv, WriterInv, LastInv, StreamInv, DiskInv, FinalInv,
           DoneInv,
           NEW i \in Nat, NEW n \in Nat, TakesDone(i, n), \A k : Owner(k)' => Owner(k)
    PROVE  DiskInv' /\ FinalInv' /\ DoneInv'
<1>1. /\ Takes("done", i, n) /\ i \in DOMAIN write_jobs /\ Removes(write_jobs, write_jobs', i)
      /\ disk' = modify_time(write_jobs[i]) /\ UNCHANGED <<upload, read_jobs, verdict, tainted>>
    BY Zenon DEF TakesDone
<1>2. /\ 1 \in InW /\ W(1).kind = "done" /\ W(1).id = i /\ W(1).num = n /\ W(1) = to_writer[1]
    BY <1>1 DEF Takes, Pops, InW, W
<1>3. n \notin Files /\ i \notin DOMAIN read_jobs
    BY <1>2 DEF LastInv
<1>4. PICK a \in WriterOf(disk, write_jobs, i) : Meets(verdict, a, <<n, 0>>)
    <2>1. IsEvent(to_writer[1], i) /\ to_writer \in Seq(Messages) /\ 1 \in At(to_writer)
        BY <1>2 DEF IsEvent, TypeInv, InW
    <2>2. Stream(i, to_writer, verdict, WriterOf(disk, write_jobs, i), ReaderAt(read_jobs, i))
        BY <1>1 DEF StreamInv
    <2>3. Begin(to_writer[1]) = <<n, 0>>
        BY <1>2 DEF Begin
    <2>. QED BY <2>1, <2>2, <2>3, StreamHead
<1>5. n \in Files => verdict[n] # "skip"
    BY <1>3
<1>6. Passes(i, n)
    <2>1. 0 \in Nat
        OBVIOUS
    <2>2. write_jobs[i].file = None \/ write_jobs[i].file_num # n
        BY <1>1, <1>3, Zenon DEF DiskInv
    <2>. QED BY <1>1, <1>4, <1>5, <2>1, <2>2, WriterAhead, Zenon DEF Passes
<1>7. PICK d : d = disk'
    OBVIOUS
<1>8. Renames(d, i, n)
    BY <1>1, <1>7 DEF Renames
<1>9. Clean(d, n)
    BY <1>1, <1>6, <1>8, Renamed
<1>10. \A f \in Files : f < n
    BY <1>3, FileAssumption DEF Files
<1>11. \A f \in Files : Dealt(f)'
    BY <1>1, <1>7, <1>9, <1>10 DEF Clean, Dealt
<1>12. FinalInv'
    BY <1>1, <1>7, <1>9 DEF Clean, FinalInv
<1>13. DOMAIN write_jobs' = {}
    BY <1>1, NoneStream
<1>14. \A k : ~Owner(k)'
    <2>1. SUFFICES ASSUME NEW k, Owner(k)' PROVE FALSE
        OBVIOUS
    <2>2. k \in DOMAIN read_jobs
        BY <1>1, <1>13, <2>1 DEF Owner
    <2>3. Owner(k) /\ Owner(i)
        BY <1>1, <2>1 DEF Owner
    <2>4. k = i
        BY <2>3, OwnerUnique
    <2>. QED BY <1>3, <2>2, <2>4
<1>. QED BY <1>11, <1>12, <1>13, <1>14 DEF DiskInv, DoneInv

(* What is on the disk after each step. *)
LEMMA DiskInvStep ==
    ASSUME TypeInv, IdInv, KindInv, OrderInv, OrderInv', TokenWaits, OneToken, TokenInv,
           AnsweredInv,
           WriterInv, DataInv, LastInv, QuietInv, StartInv, StreamInv, DiskInv, FinalInv, DoneInv,
           NEW i \in Nat, NEW n \in Nat, NEW kind, Step(i, n, kind), ~TakesBlockInVain(i, n)
    PROVE  DiskInv' /\ FinalInv' /\ DoneInv'
<1>1. CASE Renews(i, n)
    BY <1>1, RenewedDisk
<1>2. CASE Decides(i, n)
    BY <1>2, DecidesDisk
<1>3. CASE ~Renews(i, n) /\ ~Decides(i, n)
    <2>1. \A k : Owner(k)' => Owner(k)
        BY <1>3, OwnerKept
    <2>2. CASE Cancels(i, n)
        BY <2>2, CancelsDisk
    <2>3. CASE TakesBlock(i, n)
        BY <2>3, BlockDisk
    <2>4. CASE TakesDone(i, n)
        BY <2>1, <2>4, DoneDisk
    <2>5. CASE ~Cancels(i, n) /\ ~TakesBlock(i, n) /\ ~TakesDone(i, n)
        <3>1. WritesNothing
            BY <1>3, <2>5, StillStep
        <3>. QED BY <2>1, <3>1, StillDisk
    <2>. QED BY <2>2, <2>3, <2>4, <2>5
<1>. QED BY <1>1, <1>2, <1>3

-----------------------------------------------------------------------------
(* The invariant, as long as writing has not failed.                       *)

FlowInv == Inv /\ DataInv /\ LastInv /\ QuietInv /\ StartInv /\ (broken \/ WholeInv)

(* It holds before anything is transferred. *)
LEMMA InitFlow ==
    ASSUME Init
    PROVE  FlowInv
<1>1. DOMAIN read_jobs = {} /\ DOMAIN write_jobs = {}
    BY DEF Init
<1>2. InW = {} /\ InR = {} /\ asked = {} /\ At(to_writer) = {}
    BY EmptySeq DEF Init, InW, InR, At
<1>3. Inv
    BY InitInv
<1>4. DataInv /\ LastInv /\ QuietInv
    BY <1>1, <1>2 DEF DataInv, LastInv, QuietInv
<1>5. StartInv
    BY <1>1, <1>2 DEF StartInv, UploadStart, DownloadStart, DownloadFiles
<1>6. StreamInv /\ DiskInv
    BY <1>1 DEF StreamInv, DiskInv
<1>7. FinalInv
    BY DEF Init, Directories, FinalInv
<1>8. DoneInv
    BY DEF Init, DoneInv
<1>. QED BY <1>3, <1>4, <1>5, <1>6, <1>7, <1>8 DEF FlowInv, WholeInv

(* Every step keeps it. *)
LEMMA NextFlow ==
    ASSUME FlowInv, [Next]_vars
    PROVE  FlowInv'
<1>0. /\ Inv /\ DataInv /\ LastInv /\ QuietInv /\ StartInv /\ (broken \/ WholeInv)
      /\ TypeInv /\ IdInv /\ KindInv /\ OrderInv /\ ReaderInv /\ TokenWaits /\ OneToken /\ TokenInv
      /\ AnsweredInv /\ WriterInv
    BY DEF FlowInv, Inv
<1>1. Inv'
    BY <1>0, NextInv
<1>2. TypeInv' /\ OrderInv'
    BY <1>1 DEF Inv
<1>3. \E i, n \in Nat : \E kind : Step(i, n, kind)
    BY <1>0, NextDoes
<1>4. PICK i \in Nat, n \in Nat : \E kind : Step(i, n, kind)
    BY <1>3
<1>5. PICK kind : Step(i, n, kind)
    BY <1>4
<1>6. upload' = upload
    <2>1. CASE Renews(i, n)
        BY <2>1, Zenon DEF Renews, TakesReceive, StartsDownload, AddsDownload
    <2>2. CASE Decides(i, n)
        BY <1>0, <2>2, DecidesAnswers, DecidesDoes
    <2>. QED BY <1>5, <2>1, <2>2, HistoryKept
<1>7. DataInv'
    BY <1>0, <1>2, <1>5, DataStep
<1>8. LastInv'
    BY <1>0, <1>2, <1>5, LastStep
<1>9. QuietInv'
    BY <1>0, <1>2, <1>5, QuietStep
<1>10. StartInv'
    BY <1>0, <1>2, <1>5, <1>6, StartStep
<1>11. broken' \/ WholeInv'
    <2>1. CASE broken'
        BY <2>1
    <2>2. CASE ~broken'
        <3>1. ~broken /\ ~TakesBlockInVain(i, n)
            <4>1. TakesBlockInVain(i, n) => broken'
                BY DEF TakesBlockInVain
            <4>. QED BY <1>5, <2>2, <4>1, FlagsKept
        <3>2. StreamInv /\ DiskInv /\ FinalInv /\ DoneInv
            BY <1>0, <3>1 DEF WholeInv
        <3>3. StreamInv'
            BY <1>0, <1>2, <1>5, <3>1, <3>2, StreamStep
        <3>4. DiskInv' /\ FinalInv' /\ DoneInv'
            BY <1>0, <1>2, <1>5, <3>1, <3>2, DiskInvStep
        <3>. QED BY <3>3, <3>4 DEF WholeInv
    <2>. QED BY <2>1, <2>2
<1>. QED BY <1>1, <1>7, <1>8, <1>9, <1>10, <1>11 DEF FlowInv

(* No file gets its name before it is whole, whenever the transfer is      *)
(* cancelled, fails or is cut off, except where a .download was left       *)
(* behind; unless writing failed.                                          *)
THEOREM NoTruncatedFileHolds == Spec => []NoTruncatedFile
<1>1. FlowInv => NoTruncatedFile
    BY DEF FlowInv, WholeInv, FinalInv, NoTruncatedFile
<1>. QED BY <1>1, InitFlow, NextFlow, PTL DEF Spec

(* When a job is done, every file from where it began was kept, or is      *)
(* there with all of its blocks, in their order, and nothing is left of it *)
(* as .download: so nothing is lost, doubled or mixed up on the way.       *)
THEOREM DoneMeansWholeHolds == Spec => []DoneMeansWhole
<1>1. FlowInv => DoneMeansWhole
    BY DEF FlowInv, WholeInv, DoneInv, Dealt, DoneMeansWhole
<1>. QED BY <1>1, InitFlow, NextFlow, PTL DEF Spec
=============================================================================
