----------------------------- MODULE GuildBoard -----------------------------
(***************************************************************************)
(* The bulletin board of the guilds, GuildBBS_*, a statement at a time.    *)
(* An entry keeps the number of its comments beside them: a new comment    *)
(* adds one, a deleted one has them counted and the count less one written *)
(* back, before it goes.  There is no transaction and no foreign key.      *)
(*                                                                         *)
(* Texts, dates, and the guild an entry belongs to are left out.           *)
(***************************************************************************)
EXTENDS Integers, FiniteSets

CONSTANTS
    Servers,      \* connections of the game servers
    MaxEntries,   \* bound on the entries registered
    MaxTasks      \* bound on the other procedures called

ASSUME BoundsAssumption == MaxEntries \in Nat /\ MaxTasks \in Nat

Entries == 1 .. MaxEntries
Comments == 1 .. MaxTasks
None == 0

VARIABLES
    entries,       \* SNs of the entries that exist
    commentCount,  \* entry -> CommentCount
    comments,      \* SNs of the comments that exist
    parentOf,      \* comment -> ParentSN, None before its time
    nextEntry,     \* identities
    nextComment,
    stage,         \* connection -> the statement it is about to execute
    task,          \* connection -> parameters and locals of the procedure
    disturbed,     \* history: connections whose DeleteComment met another call on its entry
    wrong,         \* history: entries whose count was disturbed and not taken anew since
    late,          \* history: comments registered when their entry was going or gone
    tasks          \* number of procedures called

boardTables == <<entries, commentCount, comments, parentOf, nextEntry, nextComment>>
boardHistory == <<disturbed, wrong, late>>
boardVars == <<boardTables, stage, task, boardHistory, tasks>>

BoardStatements == {"idle", "insert", "increment", "find", "count", "write", "erase",
               "erase all", "erase entry"}

\* sn: the comment of a DeleteComment.  parent: @ParentSN.  count: @Count.
BoardCall == [op : {"none", "register", "delete", "drop"}, sn : Comments \cup {None},
         parent : Entries \cup {None}, count : Nat]
NoBoardCall == [op |-> "none", sn |-> None, parent |-> None, count |-> 0]

\* Types; a CommentCount is never negative, although two deletions of one comment, or a
\* deletion and the end of the entry, may meet.
BoardTypeOK ==
    /\ entries \subseteq Entries
    /\ commentCount \in [Entries -> Nat]
    /\ comments \subseteq Comments
    /\ parentOf \in [Comments -> Entries \cup {None}]
    /\ nextEntry \in Nat /\ nextComment \in Nat
    /\ stage \in [Servers -> BoardStatements]
    /\ task \in [Servers -> BoardCall]
    /\ disturbed \subseteq Servers
    /\ wrong \subseteq Entries
    /\ late \subseteq Comments
    /\ tasks \in Nat

BoardInit ==
    /\ entries = {}
    /\ commentCount = [e \in Entries |-> 0]
    /\ comments = {}
    /\ parentOf = [s \in Comments |-> None]
    /\ nextEntry = 1
    /\ nextComment = 1
    /\ stage = [c \in Servers |-> "idle"]
    /\ task = [c \in Servers |-> NoBoardCall]
    /\ disturbed = {}
    /\ wrong = {}
    /\ late = {}
    /\ tasks = 0

Reach(c, statement) == stage' = [stage EXCEPT ![c] = statement]

CommentsOf(e) == {s \in comments : parentOf[s] = e}

\* The entry that the call of c is about.
About(c) == IF task[c].op = "delete" THEN parentOf[task[c].sn] ELSE task[c].parent
Working(e) == {c \in Servers : stage[c] # "idle" /\ About(c) = e}

-----------------------------------------------------------------------------
(* The servers *)

\* Calls on an entry disturb each other as soon as one of them deletes a comment: the others'
\* changes may come between its count and what it writes.
Take(c, new, e, first) ==
    LET deletes == (IF new.op = "delete" THEN {c} ELSE {})
                   \cup {d \in Working(e) : task[d].op = "delete"}
        meets == e # None /\ Working(e) # {} /\ deletes # {}
    IN  /\ stage[c] = "idle"
        /\ tasks < MaxTasks
        /\ tasks' = tasks + 1
        /\ task' = [task EXCEPT ![c] = new]
        /\ Reach(c, first)
        /\ disturbed' = (disturbed \ {c}) \cup (IF meets THEN deletes ELSE {})
        /\ wrong' = IF meets THEN wrong \cup {e} ELSE wrong
        /\ UNCHANGED <<boardTables, late>>

BoardRequest(c) ==
    \/ \E e \in 1 .. nextEntry - 1 :
           Take(c, [NoBoardCall EXCEPT !.op = "register", !.parent = e], e, "insert")
    \/ \E s \in 1 .. nextComment - 1 :
           Take(c, [NoBoardCall EXCEPT !.op = "delete", !.sn = s], parentOf[s], "find")
    \/ \E e \in 1 .. nextEntry - 1 :
           Take(c, [NoBoardCall EXCEPT !.op = "drop", !.parent = e], e, "erase all")

\* GuildBBS_RegisterEntry, one INSERT.
RegisterEntry ==
    /\ nextEntry <= MaxEntries
    /\ nextEntry' = nextEntry + 1
    /\ entries' = entries \cup {nextEntry}
    /\ UNCHANGED <<commentCount, comments, parentOf, nextComment, stage, task, boardHistory, tasks>>

-----------------------------------------------------------------------------
(* GuildBBS_RegisterComment *)

InsertComment(c) ==
    LET e == task[c].parent
    IN  /\ stage[c] = "insert"
        /\ comments' = comments \cup {nextComment}
        /\ parentOf' = [parentOf EXCEPT ![nextComment] = e]
        /\ nextComment' = nextComment + 1
        /\ late' = IF e \notin entries \/ \E d \in Working(e) : task[d].op = "drop"
                   THEN late \cup {nextComment} ELSE late
        /\ Reach(c, "increment")
        /\ UNCHANGED <<entries, commentCount, nextEntry, task, disturbed, wrong, tasks>>

\* An UPDATE of the entry, which may be gone.
SetCount(e, n) == commentCount' = IF e \in entries THEN [commentCount EXCEPT ![e] = n]
                                                   ELSE commentCount

Return(c) ==
    /\ Reach(c, "idle")
    /\ task' = [task EXCEPT ![c] = NoBoardCall]

Increment(c) ==
    /\ stage[c] = "increment"
    /\ SetCount(task[c].parent, commentCount[task[c].parent] + 1)
    /\ Return(c)
    /\ UNCHANGED <<entries, comments, parentOf, nextEntry, nextComment, boardHistory, tasks>>

-----------------------------------------------------------------------------
(* GuildBBS_DeleteComment *)

\* A comment that is gone leaves @ParentSN NULL.
FindParent(c) ==
    LET s == task[c].sn
    IN  /\ stage[c] = "find"
        /\ task' = [task EXCEPT ![c].parent = IF s \in comments THEN parentOf[s] ELSE None]
        /\ Reach(c, "count")
        /\ UNCHANGED <<boardTables, boardHistory, tasks>>

\* Mutant of CountComments: the count is written in any case.
CountCommentsBlindly(c) ==
    LET n == IF task[c].parent = None THEN 0 ELSE Cardinality(CommentsOf(task[c].parent))
    IN  /\ stage[c] = "count"
        /\ task' = [task EXCEPT ![c].count = n]
        /\ Reach(c, "write")
        /\ UNCHANGED <<boardTables, boardHistory, tasks>>

CountComments(c) ==
    LET n == IF task[c].parent = None THEN 0 ELSE Cardinality(CommentsOf(task[c].parent))
    IN  /\ stage[c] = "count"
        /\ task' = [task EXCEPT ![c].count = n]
        /\ Reach(c, IF n > 0 THEN "write" ELSE "erase")
        /\ UNCHANGED <<boardTables, boardHistory, tasks>>

\* Mutant of WriteCount: the count that was read is written back.
WriteCountRead(c) ==
    /\ stage[c] = "write"
    /\ SetCount(task[c].parent, task[c].count)
    /\ Reach(c, "erase")
    /\ UNCHANGED <<entries, comments, parentOf, nextEntry, nextComment, task, boardHistory, tasks>>

WriteCount(c) ==
    /\ stage[c] = "write"
    /\ SetCount(task[c].parent, task[c].count - 1)
    /\ Reach(c, "erase")
    /\ UNCHANGED <<entries, comments, parentOf, nextEntry, nextComment, task, boardHistory, tasks>>

\* An undisturbed deletion has taken the count anew.
EraseComment(c) ==
    /\ stage[c] = "erase"
    /\ comments' = comments \ {task[c].sn}
    /\ wrong' = IF c \in disturbed \/ task[c].parent = None THEN wrong
                ELSE wrong \ {task[c].parent}
    /\ Return(c)
    /\ UNCHANGED <<entries, commentCount, parentOf, nextEntry, nextComment, disturbed, late, tasks>>

-----------------------------------------------------------------------------
(* GuildBBS_DeleteEntry *)

\* Mutant of EraseAll: the comments stay.
EraseNone(c) ==
    /\ stage[c] = "erase all"
    /\ Reach(c, "erase entry")
    /\ UNCHANGED <<boardTables, task, boardHistory, tasks>>

EraseAll(c) ==
    /\ stage[c] = "erase all"
    /\ comments' = comments \ CommentsOf(task[c].parent)
    /\ Reach(c, "erase entry")
    /\ UNCHANGED <<entries, commentCount, parentOf, nextEntry, nextComment, task, boardHistory,
                   tasks>>

EraseEntry(c) ==
    /\ stage[c] = "erase entry"
    /\ entries' = entries \ {task[c].parent}
    /\ Return(c)
    /\ UNCHANGED <<commentCount, comments, parentOf, nextEntry, nextComment, boardHistory, tasks>>

-----------------------------------------------------------------------------

\* A server dies or its connection breaks.
BoardBreak(c) ==
    /\ stage[c] # "idle"
    /\ wrong' = IF About(c) = None THEN wrong ELSE wrong \cup {About(c)}
    /\ disturbed' = disturbed \cup {d \in Working(About(c)) : task[d].op = "delete"}
    /\ Return(c)
    /\ UNCHANGED <<boardTables, late, tasks>>

BoardExecute(c) ==
    \/ InsertComment(c)
    \/ Increment(c)
    \/ FindParent(c)
    \/ CountComments(c)
    \/ WriteCount(c)
    \/ EraseComment(c)
    \/ EraseAll(c)
    \/ EraseEntry(c)

BoardNext ==
    \/ RegisterEntry
    \/ \E c \in Servers : BoardRequest(c) \/ BoardExecute(c) \/ BoardBreak(c)

BoardSpec == BoardInit /\ [][BoardNext]_boardVars

-----------------------------------------------------------------------------
(* Properties *)

\* CommentCount is the number of comments of an entry on which no call is under way, unless a
\* DeleteComment met another call or a call broke off; the next DeleteComment that meets
\* none puts it right.
CountTruthful ==
    \A e \in entries :
        Working(e) = {} /\ e \notin wrong => commentCount[e] = Cardinality(CommentsOf(e))

\* A comment outlives its entry only if it was registered while or after that was deleted.
CommentsHaveEntries ==
    \A s \in comments \ late : parentOf[s] \in entries

\* The board: no count is negative, counts are true, and no comment is left without its entry.
BoardConsistent == BoardTypeOK /\ CountTruthful /\ CommentsHaveEntries
=============================================================================
