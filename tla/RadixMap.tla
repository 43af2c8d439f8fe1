------------------------------ MODULE RadixMap ------------------------------
(***************************************************************************)
(* What a radix tree promises its (single) writer: a map from indices to   *)
(* items, and for every tag the set of the present indices that carry it.  *)
(* A call is invoked with its arguments and returns once, with the whole   *)
(* of its effect or none of it.  Nothing here knows about nodes.           *)
(***************************************************************************)
EXTENDS Integers

CONSTANTS
    Indices,   \* the keys callers use
    Items,     \* the entries callers store
    MaxTags,   \* RADIX_TREE_MAX_TAGS
    NULL

VARIABLES
    map,       \* [Indices -> Items \cup {NULL}]
    tagged,    \* [Tags -> SUBSET Indices]
    op,        \* the call in progress, or NULL
    ret        \* what the last completed call returned

Tags == 0 .. (MaxTags - 1)

Inserts  == [kind : {"insert"},  index : Indices, item : Items]
Deletes  == [kind : {"delete"},  index : Indices, item : Items \cup {NULL}]
Replaces == [kind : {"replace"}, index : Indices, item : Items \cup {NULL}]
TagSets  == [kind : {"tag_set"},   index : Indices, tag : Tags]
TagClears == [kind : {"tag_clear"}, index : Indices, tag : Tags]
Calls == Inserts \cup Deletes \cup Replaces \cup TagSets \cup TagClears

\* The preconditions of the API: a tag is set on a present index only, and
\* emptying a slot by replacement is for untagged ones.
Callable(o) ==
    /\ o.kind = "tag_set" => map[o.index] # NULL
    /\ o.kind = "replace" /\ o.item = NULL =>
           \A t \in Tags : o.index \notin tagged[t]

Init == /\ map = [i \in Indices |-> NULL]
        /\ tagged = [t \in Tags |-> {}]
        /\ op = NULL
        /\ ret = NULL

Invoke(o) == /\ op = NULL
             /\ Callable(o)
             /\ op' = o
             /\ ret' = NULL
             /\ UNCHANGED <<map, tagged>>

Respond(kind, r) == /\ op # NULL
                    /\ op.kind = kind
                    /\ op' = NULL
                    /\ ret' = r

\* An index is taken, free, or free with no memory to store it.
Insert ==
    \/ /\ Respond("insert", "EEXIST")
       /\ map[op.index] # NULL
       /\ UNCHANGED <<map, tagged>>
    \/ /\ Respond("insert", "ok")
       /\ map[op.index] = NULL
       /\ map' = [map EXCEPT ![op.index] = op.item]
       /\ UNCHANGED tagged
    \/ /\ Respond("insert", "ENOMEM")
       /\ map[op.index] = NULL
       /\ UNCHANGED <<map, tagged>>

\* The entry leaves with all its tags, if it is the one the caller expects.
Delete ==
    \/ /\ Respond("delete", map[op.index])
       /\ op.item \in {NULL, map[op.index]}
       /\ map' = [map EXCEPT ![op.index] = NULL]
       /\ tagged' = [t \in Tags |-> tagged[t] \ {op.index}]
    \/ /\ Respond("delete", NULL)
       /\ op.item \notin {NULL, map[op.index]}
       /\ UNCHANGED <<map, tagged>>

\* Update if exists.
Replace ==
    /\ IF map[op.index] = NULL
       THEN Respond("replace", NULL) /\ UNCHANGED map
       ELSE Respond("replace", "ok") /\ map' = [map EXCEPT ![op.index] = op.item]
    /\ UNCHANGED tagged

TagSet == /\ Respond("tag_set", map[op.index])
          /\ tagged' = [tagged EXCEPT ![op.tag] = @ \cup {op.index}]
          /\ UNCHANGED map

TagClear == /\ Respond("tag_clear", map[op.index])
            /\ tagged' = [tagged EXCEPT ![op.tag] = @ \ {op.index}]
            /\ UNCHANGED map

Next == (\E o \in Calls : Invoke(o)) \/ Insert \/ Delete \/ Replace \/ TagSet \/ TagClear

Spec == Init /\ [][Next]_<<map, tagged, op, ret>>
=============================================================================
