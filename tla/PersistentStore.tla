-------------------------- MODULE PersistentStore --------------------------
(***************************************************************************)
(* IdempotencyStore with a path: dicts of values and expiries in the       *)
(* process, rows in SQLite that outlive it, and run(key, fn), which calls  *)
(* fn unless the key has a value.  put writes the dicts first and the row  *)
(* after; a value that get reads back from a row enters the dict of values *)
(* only.                                                                   *)
(***************************************************************************)
EXTENDS Naturals

CONSTANTS
    Key,    \* idempotency keys
    Value,  \* what fn may return
    TTL,    \* ttl_seconds, in ticks
    None

VARIABLES
    values,   \* _values
    expires,  \* _expires
    rows,     \* the table: [value, expires_at] or None
    calling,  \* the key whose fn is being called
    now,      \* time.time()
    \* history, read by no action
    last,     \* last[k]: the last result put under k, and when
    kept,     \* kept[k]: when a result of k last reached the table
    answer    \* the last value that run found

store == <<values, expires, rows, calling>>
history == <<last, kept, answer>>

Result == [value : Value, at : Nat]

Init ==
    /\ values = [k \in Key |-> None]
    /\ expires = [k \in Key |-> None]
    /\ rows = [k \in Key |-> None]
    /\ calling = None
    /\ last = [k \in Key |-> None]
    /\ kept = [k \in Key |-> None]
    /\ answer = None

\* What _purge drops: only keys that have an expiry.
Overdue(k) == expires[k] # None /\ expires[k] <= now

\* Mutants: rows are read whatever their expires_at, or not at all.
AnyRow(k) == rows[k]
NoRow(k) == None

LiveRow(k) == IF rows[k] # None /\ rows[k].expires_at > now THEN rows[k] ELSE None

\* get(k) with its purge; the value it finds, if any, is in values' after it.
get(k) ==
    /\ expires' = [j \in Key |-> IF expires[j] # None /\ expires[j] <= now THEN None ELSE expires[j]]
    /\ rows' = [j \in Key |-> LiveRow(j)]
    /\ values' = [j \in Key |->
                    IF values[j] # None /\ ~Overdue(j) THEN values[j]
                    ELSE IF j = k /\ LiveRow(k) # None THEN LiveRow(k).value ELSE None]

\* run finds a value.
Hit(k) ==
    /\ calling = None
    /\ get(k)
    /\ values'[k] # None
    /\ answer' = [key |-> k, value |-> values'[k]]
    /\ UNCHANGED <<calling, now, last, kept>>

\* run finds none and calls fn.
Call(k) ==
    /\ calling = None
    /\ get(k)
    /\ values'[k] = None
    /\ calling' = k
    /\ UNCHANGED <<now, history>>

\* fn has returned v: put.  The insert fails, and run raises, when another
\* connection holds the database too long; the dicts have the value already.
Put(v, inserted) ==
    /\ calling # None
    /\ values' = [values EXCEPT ![calling] = v]
    /\ expires' = [expires EXCEPT ![calling] = now + TTL]
    /\ rows' = IF inserted
               THEN [rows EXCEPT ![calling] = [value |-> v, expires_at |-> now + TTL]]
               ELSE rows
    /\ kept' = IF inserted THEN [kept EXCEPT ![calling] = now] ELSE kept
    /\ last' = [last EXCEPT ![calling] = [value |-> v, at |-> now]]
    /\ calling' = None
    /\ UNCHANGED <<now, answer>>

\* fn raises.
Raise ==
    /\ calling # None
    /\ calling' = None
    /\ UNCHANGED <<values, expires, rows, now, history>>

\* The process ends; the next one opens the same file.
Crash ==
    /\ values' = [k \in Key |-> None]
    /\ expires' = [k \in Key |-> None]
    /\ calling' = None
    /\ UNCHANGED <<rows, now, history>>

-----------------------------------------------------------------------------
(* Properties *)

TypeOK ==
    /\ values \in [Key -> Value \cup {None}]
    /\ expires \in [Key -> Nat \cup {None}]
    /\ rows \in [Key -> [value : Value, expires_at : Nat] \cup {None}]
    /\ calling \in Key \cup {None}
    /\ last \in [Key -> Result \cup {None}]
    /\ kept \in [Key -> Nat \cup {None}]
    /\ answer \in [key : Key, value : Value] \cup {None}

ReadBack == {k \in Key : values[k] # None /\ expires[k] = None}

\* Work whose result reached the table is not done again before the TTL is
\* over, in this process or a later one.
KeptResultIsNotRerun ==
    [][\A k \in Key :
         calling' = k /\ calling # k => kept[k] = None \/ kept[k] + TTL <= now]_<<store, now, history>>

\* A caller that is answered without work gets the last result of its key, from
\* whichever of dict and table it comes, and one past its TTL only from a process
\* that read it back from the table, where it never expires again.
AnswerIsLastResult ==
    [][answer' # answer =>
         LET k == answer'.key IN
         /\ last[k] # None /\ answer'.value = last[k].value
         /\ now < last[k].at + TTL \/ k \in ReadBack]_<<store, now, history>>
=============================================================================
