------------------------------- MODULE Uploads -------------------------------
(***************************************************************************)
(* The upload of a file.  prepare makes an empty file and its description  *)
(* in the temporary directory; each request of upload appends a chunk; the *)
(* one with the last chunk reads the description, measures the file (size  *)
(* and hash), moves file and description to the directory of the day,      *)
(* makes the thumbnail of an image, and answers with path, size and hash.  *)
(* No lock is taken: requests for one file, and the task that clears files *)
(* that nobody has written to for a while, meet in the file system only.   *)
(* Bots upload in the same way, with the same code again.                  *)
(*                                                                         *)
(* Contents belong to inodes: whoever has opened a file goes on writing to *)
(* it after it was moved or removed.                                       *)
(***************************************************************************)
EXTENDS Integers, Sequences

CONSTANTS
    Request,        \* requests that upload chunks
    Chunks,         \* the number of chunks the client has
    MaxInode,       \* bound of the model: files made under the name
    MaxRepeats      \* bound of the model: chunks sent again

ASSUME UploadsAssumption == {Chunks, MaxInode, MaxRepeats} \subseteq Nat \ {0}

VARIABLES
    content,        \* per inode: the chunks in it, or NoFile
    tmp,            \* the file in the temporary directory: an inode or 0
    tmpMeta,        \* its description is there
    saved,          \* the file in the directory of the day: an inode or 0
    savedMeta,      \* its description is there
    thumbnail,      \* so is the thumbnail
    image,          \* what the file is: "no", "yes", or "broken"
    stale,          \* the file was not written to for upload_timeout_seconds
    clearing,       \* clean_temp_files: "no", "checked" or "removed"
    at,             \* per request: where it is
    job,            \* per request: chunk, inode, size and hash it has
    got,            \* the client: the last chunk that was answered
    repeats,        \* the client: chunks sent again so far
    sent,           \* the client: the last chunk it has sent
    answer,         \* size and hash of the answer to the last chunk
    late,           \* a request wrote to the file after it was measured
    cutMove         \* a request ended between its two moves

clientSide == <<got, repeats, sent, answer>>
placeVars == <<tmp, tmpMeta, saved, savedMeta, thumbnail, image>>
taskVars == <<stale, clearing>>
uploadVars == <<content, placeVars, taskVars, at, job, clientSide, late, cutMove>>

Inode == 1 .. MaxInode
NoFile == <<0>>
NoJob == [chunk |-> 0, inode |-> 0, size |-> 0, hash |-> NoFile]
NoAnswer == [size |-> 0, hash |-> NoFile]

\* upload_file_prepare has made the file and its description.
UploadsInit ==
    /\ content = [i \in Inode |-> IF i = 1 THEN <<>> ELSE NoFile]
    /\ tmp = 1 /\ tmpMeta = TRUE
    /\ saved = 0 /\ savedMeta = FALSE /\ thumbnail = FALSE
    /\ image \in {"no", "yes", "broken"}
    /\ stale = FALSE /\ clearing = "no"
    /\ at = [r \in Request |-> "idle"]
    /\ job = [r \in Request |-> NoJob]
    /\ got = 0 /\ repeats = 0 /\ sent = 0 /\ answer = NoAnswer
    /\ late = FALSE /\ cutMove = FALSE

-----------------------------------------------------------------------------
IsLast(r) == job[r].chunk = Chunks

Go(r, step) == at' = [at EXCEPT ![r] = step]

\* The request ends: answered, refused, or dropped by a client that hangs up.
End(r) ==
    /\ at' = [at EXCEPT ![r] = "idle"]
    /\ job' = [job EXCEPT ![r] = NoJob]

\* The client sends the next chunk when it has the answer to the one before;
\* it may send a chunk again that it has no answer to.  A file that is not
\* there is refused.
Arrive(r) ==
    /\ at[r] = "idle" /\ got < Chunks /\ tmp # 0
    /\ Go(r, "exists")
    /\ job' = [job EXCEPT ![r].chunk = got + 1]
    /\ \/ sent = got /\ sent' = got + 1 /\ UNCHANGED repeats
       \/ sent = got + 1 /\ repeats < MaxRepeats /\ repeats' = repeats + 1 /\ UNCHANGED sent
    /\ UNCHANGED <<content, placeVars, taskVars, got, answer, late, cutMove>>

NewInode == CHOOSE i \in Inode : content[i] = NoFile /\ \A j \in 1 .. i - 1 : content[j] # NoFile

\* The file is opened with create: one that went meanwhile is made anew.
Open(r) ==
    /\ at[r] = "exists"
    /\ Go(r, "open")
    /\ \/ /\ tmp # 0
          /\ job' = [job EXCEPT ![r].inode = tmp]
          /\ UNCHANGED <<content, tmp>>
       \/ /\ tmp = 0 /\ \E i \in Inode : content[i] = NoFile
          /\ tmp' = NewInode
          /\ content' = [content EXCEPT ![NewInode] = <<>>]
          /\ job' = [job EXCEPT ![r].inode = NewInode]
    /\ UNCHANGED <<tmpMeta, saved, savedMeta, thumbnail, image, taskVars, clientSide, late, cutMove>>

Measured(i) ==
    \/ saved = i
    \/ \E q \in Request : at[q] \in {"sized", "hashed"} /\ job[q].inode = i

\* A chunk that is not the last needs an answer only.
Written(r) ==
    /\ stale' = IF tmp = job[r].inode THEN FALSE ELSE stale
    /\ late' = (late \/ Measured(job[r].inode))
    /\ Go(r, IF IsLast(r) THEN "written" ELSE "answer")
    /\ UNCHANGED <<placeVars, clearing, job, clientSide, cutMove>>

\* Mutant: the file is opened at its beginning.
WriteOver(r) ==
    /\ at[r] = "open"
    /\ content' = [content EXCEPT ![job[r].inode] = <<job[r].chunk>>]
    /\ Written(r)

\* Append and flush.
Write(r) ==
    /\ at[r] = "open"
    /\ content' = [content EXCEPT ![job[r].inode] = Append(@, job[r].chunk)]
    /\ Written(r)

\* The last chunk: the description is read, and the size of what is there.
ReadMetaAndSize(r) ==
    /\ at[r] = "written"
    /\ \/ /\ tmpMeta /\ tmp # 0
          /\ Go(r, "sized")
          /\ job' = [job EXCEPT ![r].size = Len(content[tmp])]
       \/ (~tmpMeta \/ tmp = 0) /\ End(r)
    /\ UNCHANGED <<content, placeVars, taskVars, clientSide, late, cutMove>>

\* Mutant: the chunk in hand is hashed, not the file.
HashChunk(r) ==
    /\ at[r] = "sized"
    /\ \/ tmp # 0 /\ Go(r, "hashed") /\ job' = [job EXCEPT ![r].hash = <<job[r].chunk>>]
       \/ tmp = 0 /\ End(r)
    /\ UNCHANGED <<content, placeVars, taskVars, clientSide, late, cutMove>>

\* sha256_file.
Hash(r) ==
    /\ at[r] = "sized"
    /\ \/ tmp # 0 /\ Go(r, "hashed") /\ job' = [job EXCEPT ![r].hash = content[tmp]]
       \/ tmp = 0 /\ End(r)
    /\ UNCHANGED <<content, placeVars, taskVars, clientSide, late, cutMove>>

\* The file is moved, over one that is there already.
MoveFile(r) ==
    /\ at[r] = "hashed"
    /\ \/ tmp # 0 /\ saved' = tmp /\ tmp' = 0 /\ Go(r, "moved") /\ UNCHANGED job
       \/ tmp = 0 /\ End(r) /\ UNCHANGED <<tmp, saved>>
    /\ UNCHANGED <<content, tmpMeta, savedMeta, thumbnail, image, taskVars, clientSide, late, cutMove>>

\* Mutant: the description is removed.
MoveMetaLost(r) ==
    /\ at[r] = "moved"
    /\ tmpMeta' = FALSE /\ Go(r, "thumbnail")
    /\ UNCHANGED <<content, tmp, saved, savedMeta, thumbnail, image, taskVars, job, clientSide, late,
                   cutMove>>

MoveMeta(r) ==
    /\ at[r] = "moved"
    /\ \/ tmpMeta /\ savedMeta' = TRUE /\ tmpMeta' = FALSE /\ Go(r, "thumbnail") /\ UNCHANGED job
       \/ ~tmpMeta /\ End(r) /\ UNCHANGED <<tmpMeta, savedMeta>>
    /\ UNCHANGED <<content, tmp, saved, thumbnail, image, taskVars, clientSide, late, cutMove>>

\* An image that cannot be decoded is refused, but the file stays.
Thumbnail(r) ==
    /\ at[r] = "thumbnail"
    /\ \/ image # "broken" /\ Go(r, "answer") /\ thumbnail' = (thumbnail \/ image = "yes")
          /\ UNCHANGED job
       \/ image = "broken" /\ End(r) /\ UNCHANGED thumbnail
    /\ UNCHANGED <<content, tmp, tmpMeta, saved, savedMeta, image, taskVars, clientSide, late, cutMove>>

Answer(r) ==
    /\ at[r] = "answer"
    /\ End(r)
    /\ got' = IF job[r].chunk > got THEN job[r].chunk ELSE got
    /\ answer' = IF IsLast(r) THEN [size |-> job[r].size, hash |-> job[r].hash] ELSE answer
    /\ UNCHANGED <<content, placeVars, taskVars, repeats, sent, late, cutMove>>

\* The client hangs up.
Abandon(r) ==
    /\ at[r] # "idle"
    /\ End(r)
    /\ cutMove' = (cutMove \/ at[r] = "moved")
    /\ UNCHANGED <<content, placeVars, taskVars, clientSide, late>>

-----------------------------------------------------------------------------
\* Time passes while nobody uploads.
Age ==
    /\ ~stale /\ tmp # 0 /\ \A r \in Request : at[r] = "idle"
    /\ stale' = TRUE
    /\ UNCHANGED <<content, placeVars, clearing, at, job, clientSide, late, cutMove>>

\* clean_temp_files: when the file was written to, the file, its description.
ClearCheck ==
    /\ clearing = "no" /\ stale /\ tmp # 0
    /\ clearing' = "checked"
    /\ UNCHANGED <<content, placeVars, stale, at, job, clientSide, late, cutMove>>

ClearFile ==
    /\ clearing = "checked"
    /\ clearing' = "removed"
    /\ tmp' = 0
    /\ UNCHANGED <<content, tmpMeta, saved, savedMeta, thumbnail, image, stale, at, job, clientSide,
                   late, cutMove>>

\* Mutant: the description is kept.
ClearMetaNot ==
    /\ clearing = "removed"
    /\ clearing' = "no"
    /\ UNCHANGED <<content, placeVars, stale, at, job, clientSide, late, cutMove>>

ClearMeta ==
    /\ clearing = "removed"
    /\ clearing' = "no"
    /\ tmpMeta' = FALSE
    /\ UNCHANGED <<content, tmp, saved, savedMeta, thumbnail, image, stale, at, job, clientSide, late,
                   cutMove>>

UploadsNext ==
    \/ \E r \in Request :
        \/ Arrive(r) \/ Open(r) \/ Write(r) \/ ReadMetaAndSize(r) \/ Hash(r)
        \/ MoveFile(r) \/ MoveMeta(r) \/ Thumbnail(r) \/ Answer(r) \/ Abandon(r)
    \/ Age \/ ClearCheck \/ ClearFile \/ ClearMeta

UploadsSpec == UploadsInit /\ [][UploadsNext]_uploadVars

-----------------------------------------------------------------------------
Quiet == clearing = "no" /\ \A r \in Request : at[r] = "idle"

\* The file was opened with create after it had gone.
MadeAnew == content[2] # NoFile

\* A request has a job as long as it runs, and files are in one place at a time
\* (upload_file).
UploadsTypeOK ==
    /\ {tmp, saved} \subseteq Inode \cup {0}
    /\ tmp # 0 => tmp # saved
    /\ \A r \in Request : (at[r] = "idle") <=> (job[r] = NoJob)
    /\ \A i \in {tmp, saved} \ {0} : content[i] # NoFile
    /\ got <= sent /\ sent \in 0 .. Chunks /\ repeats \in 0 .. MaxRepeats

\* Size and hash of the answer are those of the file that is stored, whatever
\* the other requests did: unless one of them still had the file open and wrote
\* to it after it was measured, or had to make it anew.
AnswerDescribesFile ==
    answer # NoAnswer /\ ~late /\ ~MadeAnew =>
        answer.hash = content[saved] /\ answer.size = Len(content[saved])

\* Chunk i is in the file, and not before the first of the chunks before it.
InOrder(file) ==
    \A i \in 1 .. Chunks : \E n \in DOMAIN file :
        file[n] = i /\ \A j \in 1 .. i - 1 : \E m \in 1 .. n - 1 : file[m] = j

\* All the chunks are in the stored file, each after those that were sent
\* before it, even if some of them were sent twice and met on the way; unless
\* the file was cleared and made anew.
StoredIsWhole == answer # NoAnswer /\ ~MadeAnew => InOrder(content[saved])

\* An answer to the last chunk means that file, description and, for an image,
\* thumbnail are all in place, whoever else was moving them.
AnsweredIsComplete ==
    answer # NoAnswer =>
        saved # 0 /\ savedMeta /\ image # "broken" /\ (image = "yes" => thumbnail)

\* When nobody is at work, a description without its file is not left in the
\* temporary directory, where the task looks for files only; unless a client
\* hung up between the two moves.
LeftoversAreFound == Quiet /\ ~cutMove => (tmpMeta => tmp # 0)

\* The answer describes the file even if another request for the last chunk
\* found the file gone when it opened it: it makes a new one, and moves that
\* over the whole one.
AnswerAlwaysDescribes ==
    answer # NoAnswer /\ ~late /\ clearing = "no" /\ ~stale => answer.hash = content[saved]

\* An upload that was answered is whole and is what the answer says
\* (upload_file, and the task that clears files).
UploadsWhole ==
    /\ UploadsTypeOK
    /\ AnswerDescribesFile
    /\ StoredIsWhole
    /\ AnsweredIsComplete
    /\ LeftoversAreFound
===============================================================================
