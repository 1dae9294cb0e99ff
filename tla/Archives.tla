------------------------------- MODULE Archives -------------------------------
(***************************************************************************)
(* Archives of messages: a user makes one to forward messages, or to keep  *)
(* them as a favourite.  An archive holds copies of the messages, of what  *)
(* their files are at the time, and of the thumbnails.  Files, thumbnails  *)
(* and archives lie in a directory per day, and a task removes days that   *)
(* are over; favourites are a file each in the user's directory and a row  *)
(* of favorite_archive, and stay.  Nothing is locked but the cache, while  *)
(* an archive is put together; a handler may be dropped at every await.    *)
(***************************************************************************)
EXTENDS Integers, FiniteSets

CONSTANTS
    Asker,                  \* requests of the user
    FileExpiryDays,         \* file_expiry_days
    MaxFavorites,           \* max_favorite_archives
    MaxDay,                 \* bound of the model: days
    MaxArchives             \* bound of the model: archives made

ASSUME ArchivesAssumption ==
    {FileExpiryDays, MaxFavorites, MaxDay, MaxArchives} \subseteq Nat

VARIABLES
    day,            \* today
    upload,         \* the file of a message of day 0 is there
    preview,        \* so is its thumbnail
    allowed,        \* the user is an administrator or may read the message
    account,        \* the user's account is there
    favRows,        \* rows of favorite_archive
    favFiles,       \* archive -> its bytes, of the user's directory
    archiveFiles,   \* archive -> [bytes, day], of the directories of days
    lastArchive,    \* the greatest id given out (a random uuid)
    asking,         \* per request: where it is
    hand,           \* per request: the archive it has in hand, and its bytes
    cleaning,       \* clean_files: the directory that is next
    today,          \* clean_files: the day it has taken
    promised,       \* archive -> bytes: favourites whose making was answered
    deleted         \* favourites whose deletion was answered

fileVars == <<upload, preview, archiveFiles>>
favVars == <<favRows, favFiles>>
saidVars == <<promised, deleted>>
cleanVars == <<cleaning, today>>
archiveVars == <<day, fileVars, allowed, account, favVars, lastArchive, asking, hand, cleanVars,
                 saidVars>>

Archive == 1 .. MaxArchives
Empty == [a \in {} |-> 0]
With(f, a, x) == [b \in DOMAIN f \cup {a} |-> IF b = a THEN x ELSE f[b]]
Without(f, gone) == [b \in DOMAIN f \ gone |-> f[b]]

NoHand == [id |-> 0, bytes |-> {}]

ArchivesInit ==
    /\ day = 0
    /\ upload = TRUE /\ preview = TRUE
    /\ allowed \in BOOLEAN /\ account = TRUE
    /\ favRows = {} /\ favFiles = Empty /\ archiveFiles = Empty
    /\ lastArchive = 0
    /\ asking = [r \in Asker |-> "idle"] /\ hand = [r \in Asker |-> NoHand]
    /\ cleaning = "no" /\ today = 0
    /\ promised = Empty /\ deleted = {}

-----------------------------------------------------------------------------
Step(r, step) == asking' = [asking EXCEPT ![r] = step]

Done(r) ==
    /\ asking' = [asking EXCEPT ![r] = "idle"]
    /\ hand' = [hand EXCEPT ![r] = NoHand]

\* ApiFavorite::create counts the rows whose uid is the parameter it does not
\* bind, null: there are none, however many favourites the user has.
CountedFavorites == 0

\* create_message_archive of the message, for a favourite or to be forwarded;
\* a user who may not read the message is refused, and so is one who is gone.
\* The file is read, and then the thumbnail.
AskFor(r, what) ==
    /\ asking[r] = "idle"
    /\ account /\ allowed
    /\ what = "favorite" => CountedFavorites < MaxFavorites
    /\ lastArchive < MaxArchives
    /\ lastArchive' = lastArchive + 1
    /\ Step(r, what)
    /\ hand' = [hand EXCEPT ![r] = [id |-> lastArchive', bytes |-> {}]]
    /\ UNCHANGED <<day, fileVars, allowed, account, favVars, cleanVars, saidVars>>

\* A file that cannot be read is archived as an empty one, without a word.
ReadFile(r) ==
    /\ asking[r] \in {"favorite", "forward"}
    /\ Step(r, IF asking[r] = "favorite" THEN "favorite file" ELSE "forward file")
    /\ hand' = [hand EXCEPT ![r].bytes = IF upload THEN {"file"} ELSE {}]
    /\ UNCHANGED <<day, fileVars, allowed, account, favVars, lastArchive, cleanVars, saidVars>>

ReadPreview(r) ==
    /\ asking[r] \in {"favorite file", "forward file"}
    /\ Step(r, IF asking[r] = "favorite file" THEN "save favorite" ELSE "save forward")
    /\ hand' = [hand EXCEPT ![r].bytes = @ \cup IF preview THEN {"thumbnail"} ELSE {}]
    /\ UNCHANGED <<day, fileVars, allowed, account, favVars, lastArchive, cleanVars, saidVars>>

\* create_archive of /resource: the file in the directory of the day.
SaveForward(r) ==
    /\ asking[r] = "save forward"
    /\ archiveFiles' = With(archiveFiles, hand[r].id, [bytes |-> hand[r].bytes, day |-> day])
    /\ Done(r)
    /\ UNCHANGED <<day, upload, preview, allowed, account, favVars, lastArchive, cleanVars, saidVars>>

\* Mutant: the row first.
SaveFavoriteRow(r) ==
    /\ asking[r] = "save favorite"
    /\ favRows' = favRows \cup {hand[r].id}
    /\ Step(r, "list")
    /\ UNCHANGED <<day, fileVars, allowed, account, favFiles, lastArchive, hand, cleanVars, saidVars>>

\* ApiFavorite::create: the file, and then the row.
SaveFavorite(r) ==
    /\ asking[r] = "save favorite"
    /\ favFiles' = With(favFiles, hand[r].id, hand[r].bytes)
    /\ Step(r, "list")
    /\ UNCHANGED <<day, fileVars, allowed, account, favRows, lastArchive, hand, cleanVars, saidVars>>

\* The row of a user who is gone is refused: the file stays.
ListFavorite(r) ==
    /\ asking[r] = "list"
    /\ Done(r)
    /\ IF account
       THEN /\ favRows' = favRows \cup {hand[r].id}
            /\ promised' = With(promised, hand[r].id, hand[r].bytes)
       ELSE UNCHANGED <<favRows, promised>>
    /\ UNCHANGED <<day, fileVars, allowed, account, favFiles, lastArchive, cleanVars, deleted>>

-----------------------------------------------------------------------------
\* ApiFavorite::delete: is the file there; the row; the file.  A client knows
\* the id when the making was answered, and may ask twice.
AskDelete(r, a) ==
    /\ asking[r] = "idle" /\ account /\ a \in DOMAIN favFiles
    /\ \A q \in Asker : hand[q].id = a => asking[q] \in {"unlist", "remove"}
    /\ Step(r, "unlist")
    /\ hand' = [hand EXCEPT ![r].id = a]
    /\ promised' = Without(promised, {a})
    /\ UNCHANGED <<day, fileVars, allowed, account, favVars, lastArchive, cleanVars, deleted>>

Unlist(r) ==
    /\ asking[r] = "unlist"
    /\ favRows' = favRows \ {hand[r].id}
    /\ Step(r, "remove")
    /\ UNCHANGED <<day, fileVars, allowed, account, favFiles, lastArchive, hand, cleanVars, saidVars>>

\* Mutant: the file is left to the task that cleans up.
RemoveFavoriteNot(r) ==
    /\ asking[r] = "remove"
    /\ Done(r)
    /\ deleted' = deleted \cup {hand[r].id}
    /\ UNCHANGED <<day, fileVars, allowed, account, favVars, lastArchive, cleanVars, promised>>

\* Of two deletions the second finds no file, and is answered an error.
RemoveFavorite(r) ==
    /\ asking[r] = "remove"
    /\ Done(r)
    /\ favFiles' = Without(favFiles, {hand[r].id})
    /\ deleted' = IF hand[r].id \in DOMAIN favFiles THEN deleted \cup {hand[r].id} ELSE deleted
    /\ UNCHANGED <<day, fileVars, allowed, account, favRows, lastArchive, cleanVars, promised>>

\* The client hangs up, or the server crashes.
HangUp(r) ==
    /\ asking[r] # "idle"
    /\ Done(r)
    /\ UNCHANGED <<day, fileVars, allowed, account, favVars, lastArchive, cleanVars, saidVars>>

\* The user is removed from the message's group.
Forbid ==
    /\ allowed /\ allowed' = FALSE
    /\ UNCHANGED <<day, fileVars, account, favVars, lastArchive, asking, hand, cleanVars, saidVars>>

\* State::delete_user: the rows go with the account, the files do not.
CloseAccount ==
    /\ account /\ account' = FALSE
    /\ favRows' = {} /\ promised' = Empty
    /\ UNCHANGED <<day, fileVars, allowed, favFiles, lastArchive, asking, hand, cleanVars, deleted>>

-----------------------------------------------------------------------------
NextDay ==
    /\ day < MaxDay /\ day' = day + 1
    /\ UNCHANGED <<fileVars, allowed, account, favVars, lastArchive, asking, hand, cleanVars, saidVars>>

\* Mutant: a day earlier.
OverTooSoon(d) == today - d >= FileExpiryDays

\* clean_file_dir.
Over(d) == today - d > FileExpiryDays

\* clean_files takes the day once: thumbnails, files, archives.
CleanStart ==
    /\ cleaning = "no" /\ today' = day /\ cleaning' = "thumbnails"
    /\ UNCHANGED <<day, fileVars, allowed, account, favVars, lastArchive, asking, hand, saidVars>>

CleanThumbnails ==
    /\ cleaning = "thumbnails" /\ cleaning' = "files"
    /\ preview' = (preview /\ ~Over(0))
    /\ UNCHANGED <<day, upload, archiveFiles, allowed, account, favVars, lastArchive, asking, hand,
                   today, saidVars>>

CleanUploads ==
    /\ cleaning = "files" /\ cleaning' = "archives"
    /\ upload' = (upload /\ ~Over(0))
    /\ UNCHANGED <<day, preview, archiveFiles, allowed, account, favVars, lastArchive, asking, hand,
                   today, saidVars>>

CleanArchives ==
    /\ cleaning = "archives" /\ cleaning' = "no"
    /\ archiveFiles' =
        Without(archiveFiles, {a \in DOMAIN archiveFiles : Over(archiveFiles[a].day)})
    /\ UNCHANGED <<day, upload, preview, allowed, account, favVars, lastArchive, asking, hand, today,
                   saidVars>>

ArchivesNext ==
    \/ \E r \in Asker :
        \/ AskFor(r, "favorite") \/ AskFor(r, "forward") \/ ReadFile(r) \/ ReadPreview(r)
        \/ SaveForward(r) \/ SaveFavorite(r) \/ ListFavorite(r)
        \/ \E a \in Archive : AskDelete(r, a)
        \/ Unlist(r) \/ RemoveFavorite(r) \/ HangUp(r)
    \/ Forbid \/ CloseAccount
    \/ NextDay \/ CleanStart \/ CleanThumbnails \/ CleanUploads \/ CleanArchives

ArchivesSpec == ArchivesInit /\ [][ArchivesNext]_archiveVars

-----------------------------------------------------------------------------
\* Ids and days are in range, a request has an archive in hand as long as it
\* runs, and only a user who is there has rows (foreign key uid).
ArchivesTypeOK ==
    /\ today \in 0 .. day /\ day \in 0 .. MaxDay
    /\ favRows \cup DOMAIN favFiles \cup DOMAIN archiveFiles \subseteq 1 .. lastArchive
    /\ \A r \in Asker : (asking[r] = "idle") <=> (hand[r] = NoHand)
    /\ \A a \in DOMAIN archiveFiles : archiveFiles[a].day \in 0 .. day
    /\ ~account => favRows = {}

\* Every favourite that is listed can be opened, and one that was answered
\* stays as it was made until the user asks for its deletion: wherever a
\* handler stops, whatever is deleted at the same time, and however long ago
\* its messages' files have expired.
FavoritesKept ==
    /\ favRows \subseteq DOMAIN favFiles
    /\ \A a \in DOMAIN promised : a \in favRows /\ favFiles[a] = promised[a]

\* A favourite whose deletion was answered is neither listed nor opened again.
DeletedFavoriteGone == deleted \cap (favRows \cup DOMAIN favFiles) = {}

\* Files and archives are there for file_expiry_days after their day, and the
\* thumbnail never outlives its file; so an archive that has an empty file in
\* it was made after that.
NothingGoesEarly ==
    /\ day <= FileExpiryDays => upload
    /\ preview => upload
    /\ \A a \in DOMAIN archiveFiles :
        archiveFiles[a].day <= FileExpiryDays => "file" \in archiveFiles[a].bytes
    /\ \A a \in DOMAIN promised : "thumbnail" \in promised[a] => "file" \in promised[a]

\* "Too many favorite archives" is the answer to a user who has
\* max_favorite_archives of them: the count leaves its parameter out.
FavoritesLimited == Cardinality(favRows) <= MaxFavorites

\* Favourites stay until they are deleted, and files as long as they should
\* (create_favorite_archive, delete_favorite_archive, clean_files).
ArchivesKept == ArchivesTypeOK /\ FavoritesKept /\ DeletedFavoriteGone /\ NothingGoesEarly
===============================================================================
