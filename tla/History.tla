-------------------------------- MODULE History --------------------------------
(***************************************************************************)
(* Reading a conversation backwards: by page, to a moment, or between two.  *)
(* fetch_history_by_time walks the store by pages, newest first, while      *)
(* messages come in.  A message takes its time first, then its id, and then *)
(* it is written: neither times nor writes need follow the order of ids.    *)
(***************************************************************************)
EXTENDS Integers, FiniteSets

CONSTANTS
    Writer,         \* requests that send a message
    PageSize,       \* 200 in the code
    MaxPages,       \* 50 in the code
    MaxLimit,       \* bound of the model: greatest limit asked for
    MaxNow,         \* bound of the model: the clock
    MaxPosts        \* bound of the model: messages

ASSUME HistoryAssumption ==
    /\ {MaxLimit, MaxNow, MaxPosts} \subseteq Nat
    /\ {PageSize, MaxPages} \subseteq Nat \ {0}

VARIABLES
    now,            \* the clock
    nextMid,        \* the id that is next
    log,            \* messages that are written: [mid, at]
    posting,        \* per writer: its message, or NoPost
    query,          \* what the reader asks for
    cursor,         \* messages before this id are read next
    pages,          \* pages read
    matched,        \* messages found
    reader,         \* "idle", "reading", "done"
    atStart         \* the log when the reader asked

historyVars == <<now, nextMid, log, posting, query, cursor, pages, matched, reader, atStart>>
readVars == <<query, cursor, pages, matched, reader, atStart>>

Never == -1                     \* a filter that is not given
NoCursor == MaxPosts + 1         \* no message has this id: i64::MAX
NoPost == [at |-> Never, mid |-> 0]
NoQuery == [before |-> NoCursor, after_ts |-> Never, before_ts |-> Never, limit |-> 1]

HistoryInit ==
    /\ now = 0 /\ nextMid = 1 /\ log = {}
    /\ posting = [w \in Writer |-> NoPost]
    /\ query = NoQuery /\ cursor = NoCursor /\ pages = 0 /\ matched = {}
    /\ reader = "idle" /\ atStart = {}

-----------------------------------------------------------------------------
TickHistory == now < MaxNow /\ now' = now + 1 /\ UNCHANGED <<nextMid, log, posting, readVars>>

\* created_at, of into_chat_message_payload.
TakeTime(w) ==
    /\ posting[w] = NoPost
    /\ posting' = [posting EXCEPT ![w].at = now]
    /\ UNCHANGED <<now, nextMid, log, readVars>>

TakeMid(w) ==
    /\ posting[w].at # Never /\ posting[w].mid = 0 /\ nextMid <= MaxPosts
    /\ posting' = [posting EXCEPT ![w].mid = nextMid]
    /\ nextMid' = nextMid + 1
    /\ UNCHANGED <<now, log, readVars>>

Post(w) ==
    /\ posting[w].mid # 0
    /\ log' = log \cup {[mid |-> posting[w].mid, at |-> posting[w].at]}
    /\ posting' = [posting EXCEPT ![w] = NoPost]
    /\ UNCHANGED <<now, nextMid, readVars>>

-----------------------------------------------------------------------------
Newest(msgs, n) == {m \in msgs : Cardinality({o \in msgs : o.mid > m.mid}) < n}

\* fetch_dm_messages_before, and those of groups and users.
Page(before, n) == Newest({m \in log : m.mid < before}, n)

\* A page is as long as what is asked for, if that is more.
PageLength == IF query.limit > PageSize THEN query.limit ELSE PageSize

NoFilter(ask) == ask.after_ts = Never /\ ask.before_ts = Never

\* get_history_messages, of a user or of a group; and search_messages_by_time,
\* which begins at the newest message and always has a before_ts.  What it does
\* then with the words searched for is left out.
AskHistory(ask) ==
    /\ reader = "idle"
    /\ query' = ask
    /\ cursor' = ask.before
    /\ atStart' = log
    /\ IF NoFilter(ask)
       THEN matched' = Page(ask.before, ask.limit) /\ reader' = "done"
       ELSE matched' = {} /\ reader' = "reading"
    /\ UNCHANGED <<now, nextMid, log, posting, pages>>

TooNew(m) == query.before_ts # Never /\ m.at > query.before_ts
TooOld(m) == ~TooNew(m) /\ query.after_ts # Never /\ m.at < query.after_ts

NewerThan(msgs, m) == {o \in msgs : o.mid > m.mid}

\* The walk over a batch, newest first: messages of the window until one is
\* older than the window, or the limit is reached.  The limit is looked at
\* after a message was taken: of limit 0 comes one.
Found(batch) ==
    LET window == {m \in batch : ~TooNew(m) /\ ~TooOld(m) /\ ~\E o \in NewerThan(batch, m) : TooOld(o)}
        room == query.limit - Cardinality(matched)
    IN  Newest(window, IF room < 1 THEN 1 ELSE room)

\* Mutant: the message before the next page is left out.
NextCursorPast(batch) == (CHOOSE m \in batch : \A o \in batch : m.mid <= o.mid).mid - 1

NextCursor(batch) == (CHOOSE m \in batch : \A o \in batch : m.mid <= o.mid).mid

\* One page of the loop.
ReadPage ==
    /\ reader = "reading"
    /\ LET batch == Page(cursor, PageLength)
           all == matched \cup Found(batch)
           stop == \/ batch = {}
                   \/ Cardinality(all) >= query.limit
                   \/ \E m \in batch : TooOld(m)
                   \/ pages + 1 = MaxPages
       IN  /\ matched' = all
           /\ reader' = IF stop THEN "done" ELSE "reading"
           /\ cursor' = IF batch = {} THEN cursor ELSE NextCursor(batch)
    /\ pages' = pages + 1
    /\ UNCHANGED <<now, nextMid, log, posting, query, atStart>>

Queries ==
    [before : {NoCursor} \cup 2 .. MaxPosts, after_ts : {Never} \cup 1 .. MaxNow,
     before_ts : {Never} \cup 0 .. MaxNow, limit : 0 .. MaxLimit]

HistoryNext ==
    \/ TickHistory
    \/ \E w \in Writer : TakeTime(w) \/ TakeMid(w) \/ Post(w)
    \/ \E ask \in Queries : AskHistory(ask)
    \/ ReadPage

HistorySpec == HistoryInit /\ [][HistoryNext]_historyVars

-----------------------------------------------------------------------------
\* Ids are given out once, and no time is of the future.
HistoryTypeOK ==
    /\ \A m, o \in log : m.mid = o.mid => m = o
    /\ \A m \in log : m.mid < nextMid /\ m.at \in 0 .. now
    /\ matched \subseteq log /\ pages \in 0 .. MaxPages

\* A message comes only if it is of the window and before the id that was
\* asked for, and no more come than were asked for (of 0, one).
OnlyWhatWasAsked ==
    /\ \A m \in matched : m.mid < query.before /\ ~TooNew(m) /\ ~TooOld(m)
    /\ Cardinality(matched) <= IF query.limit = 0 THEN 1 ELSE query.limit

\* What may end the walk before message m: the pages are used up, or a newer
\* message has an older time than the window.
CutOff(m) ==
    LET newer == {o \in log : o.mid > m.mid /\ o.mid < query.before}
    IN  \/ Cardinality(newer) >= MaxPages * PageLength
        \/ \E o \in newer : TooOld(o)

\* Every message of the window that was there when the reader asked comes, or
\* as many newer ones as were asked for: however pages and messages that come
\* in meanwhile fall together.
NothingMissed ==
    reader = "done" =>
        \A m \in atStart \ matched :
            m.mid < query.before /\ ~TooNew(m) /\ ~TooOld(m) =>
                \/ Cardinality(NewerThan(matched, m)) >= query.limit
                \/ ~NoFilter(query) /\ CutOff(m)

\* "return up to [limit] newest messages inside the inclusive window": so long
\* as two senders do not store in another order than they took the time.
AllOfTheWindow ==
    reader = "done" /\ Cardinality(matched) < query.limit =>
        {m \in atStart : m.mid < query.before /\ ~TooNew(m) /\ ~TooOld(m)} \subseteq matched

\* What is read of a conversation is what was asked for, with no hole in it
\* (fetch_history_by_time).
HistoryComplete == HistoryTypeOK /\ OnlyWhatWasAsked /\ NothingMissed
===============================================================================
