---------------------------- MODULE AtomicStore ----------------------------
(***************************************************************************)
(* What a wiki promises of its shared files (CHANGELOG.md:423): every      *)
(* update of the index, the log or the review queue is applied to the      *)
(* current content of the file in one step.                                *)
(*                                                                         *)
(* A file is the set of what is recorded in it: the pages of the index,    *)
(* the blocks of the log, the items of the review queue.                   *)
(***************************************************************************)

CONSTANTS
    Page,    \* wiki pages, by path
    Block,   \* blocks of the log
    ItemId,  \* ids of review items
    Key      \* what enqueueReview compares: kind, page and claim text

VARIABLE store  \* the files: store[r] is the content of resource r

Resource == {"index", "log", "queue"}

Item == [id : ItemId, key : Key, status : {"open", "resolved", "deferred"}]

Update ==
    [op : {"upsert", "remove"}, page : Page]
        \cup [op : {"append"}, block : Block]
        \cup [op : {"enqueue"}, id : ItemId, key : Key]
        \cup [op : {"resolve"}, id : ItemId, status : {"resolved", "deferred"}]

ResourceOf(u) ==
    CASE u.op \in {"upsert", "remove"}   -> "index"
      [] u.op = "append"                 -> "log"
      [] u.op \in {"enqueue", "resolve"} -> "queue"

\* Mutant: no test for a duplicate.
EnqueueBlindly(items, id, key) == items \cup {[id |-> id, key |-> key, status |-> "open"]}

\* enqueueReview: an open item with the same kind, page and text is a duplicate.
Enqueue(items, id, key) ==
    IF \E i \in items : i.status = "open" /\ i.key = key
    THEN items
    ELSE items \cup {[id |-> id, key |-> key, status |-> "open"]}

\* resolveReview: whatever the status of the item was.
Resolve(items, id, status) ==
    {i \in items : i.id # id}
        \cup {[id |-> id, key |-> i.key, status |-> status] : i \in {j \in items : j.id = id}}

\* The content of the updated file, given the content it was computed from.
Apply(u, content) ==
    CASE u.op = "upsert"  -> content \cup {u.page}
      [] u.op = "remove"  -> content \ {u.page}
      [] u.op = "append"  -> content \cup {u.block}
      [] u.op = "enqueue" -> Enqueue(content, u.id, u.key)
      [] u.op = "resolve" -> Resolve(content, u.id, u.status)

Init == store = [r \in Resource |-> {}]

Perform(u) ==
    store' = [store EXCEPT ![ResourceOf(u)] = Apply(u, store[ResourceOf(u)])]

Next == \E u \in Update : Perform(u)

Spec == Init /\ [][Next]_store
=============================================================================
