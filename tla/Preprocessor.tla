---------------------------- MODULE Preprocessor ----------------------------
(***************************************************************************)
(* How internal/preprocessor/preprocessor.go gives a message its priority. *)
(* A request is what the rules look at: the priority it came with (0 when  *)
(* it has none), the metadata entries user_priority and priority as words, *)
(* whether it has content, and how often the keywords of each level occur  *)
(* in the content.  The other results of the analysis (word count,         *)
(* sentiment, question) change nothing but metadata and are left out.      *)
(***************************************************************************)
EXTENDS QueueItems

CONSTANT Unset   \* no such metadata entry, no such user

\* The words the rules know; any other word is "other".
Words == {"realtime", "high", "normal", "low"}
Word == [realtime |-> 1, high |-> 2, normal |-> 3, low |-> 4]
Normal == Word["normal"]

Request ==
    [prio : {0} \cup Priorities, override : Words \cup {"other", Unset},
     hint : Words \cup {"other", Unset}, empty : BOOLEAN,
     score : [Priorities -> Nat]]

\* analyzePriority, as the set of its possible results: a message without
\* content follows its hint; otherwise the level with most keywords wins, and
\* among equals the one the iteration over the map meets first.
analyzePriority(r, default) ==
    LET Scored == {p \in Priorities : r.score[p] > 0}
        Best == {p \in Scored : \A q \in Scored : r.score[q] <= r.score[p]}
    IN  IF r.empty THEN {IF r.hint \in Words THEN Word[r.hint] ELSE default}
        ELSE IF Best = {} THEN {default} ELSE Best

\* ProcessMessage: a priority other than normal is kept; then the override in
\* the metadata, then the user's own priority, then the content.
ProcessMessage(r, userPriority) ==
    IF r.prio \notin {0, Normal} THEN {r.prio}
    ELSE IF r.override # Unset
    THEN {IF r.override \in Words THEN Word[r.override] ELSE r.prio}
    ELSE IF userPriority # Unset THEN {userPriority}
    ELSE analyzePriority(r, Normal)

\* The priorities setUserPriority understands; every other word is normal.
UserPriorities == {Word["high"], Word["normal"], Word["low"]}
=============================================================================
