------------------------------- MODULE Khash -------------------------------
(***************************************************************************)
(* The hash table of khash.h as backend_netmap.c uses it for its sockets:  *)
(* open addressing with quadratic probing, deleted buckets that keep the   *)
(* probes going, and a resize that rehashes in place by kicking elements   *)
(* out of their buckets.  A resize is one step per bucket it looks at and  *)
(* per element it places; so is the loop of backend_cleanup() that closes  *)
(* the sockets of a table while it iterates over it.                       *)
(***************************************************************************)
EXTENDS Integers, FiniteSets, FiniteSetsExt, Functions

CONSTANTS
    Key,        \* sockets, each with a pointer to its tuple
    Tup,        \* the tuple of each
    Hash,       \* w_socktuple_hash()
    None        \* no socket; what an unused bucket holds

ASSUME ConstAssumption ==
    /\ Tup \in [Key -> DOMAIN Hash] /\ None \notin Key
    /\ \A t \in DOMAIN Hash : Hash[t] \in Nat

VARIABLES
    n_buckets, size, n_occupied, upper_bound,
    flags,      \* of each bucket: "empty", "deleted" or "live" (no flag is set)
    keys, vals,
    arg,        \* the argument of the ins_sock() under way
    new,        \* kh_resize(): new_n_buckets and new_flags
    j,          \* kh_resize(): the loop over the old buckets
    hand,       \* kh_resize(): key and val, to be placed
    iter,       \* kh_foreach_value() in backend_cleanup()
    ret         \* what the last kh_put() reported

table == <<n_buckets, size, n_occupied, upper_bound, flags, keys, vals>>
resize == <<new, j, hand>>
vars == <<table, arg, resize, iter, ret>>

Empty == [i \in {} |-> None]
NoNew == [n |-> 0, flags |-> Empty]
NoHand == [key |-> None, val |-> None]
Resizing == new # NoNew
Idle == arg = None /\ iter = -1

-----------------------------------------------------------------------------
(* Probing.                                                                *)

\* __HASH_UPPER: 77 percent.
HashUpper(n) == (n * 77) \div 100

\* The bucket that the probe for t looks at after k steps.
Slot(t, n, k) == (Hash[t] + (k * (k + 1)) \div 2) % n

\* The steps of a probe until it is back at its first bucket.
Steps(n) == 0 .. 2 * n - 2

\* Where the loops of kh_get() and kh_put() end.
Stops(t) ==
    {k \in Steps(n_buckets) :
       LET i == Slot(t, n_buckets, k)
       IN  flags[i] = "empty" \/ (flags[i] = "live" /\ Tup[keys[i]] = t)}

\* kh_get(); n_buckets is kh_end().
Get(t) ==
    IF n_buckets = 0 \/ Stops(t) = {} THEN n_buckets
    ELSE LET i == Slot(t, n_buckets, Min(Stops(t)))
         IN  IF flags[i] = "live" THEN i ELSE n_buckets

\* Mutant: the first deleted bucket is taken at once.
PutSlotFirst(t) ==
    LET stop == Min(Stops(t) \cup {2 * n_buckets - 1})
        dels == {k \in 0 .. stop - 1 : flags[Slot(t, n_buckets, k)] = "deleted"}
    IN  Slot(t, n_buckets, IF dels # {} THEN Min(dels) ELSE stop)

\* The bucket kh_put() takes: the last deleted one it came across, unless the
\* key is there.
PutSlot(t) ==
    LET stop == Min(Stops(t) \cup {2 * n_buckets - 1})
        dels == {k \in 0 .. stop - 1 : flags[Slot(t, n_buckets, k)] = "deleted"}
        key  == stop < 2 * n_buckets - 1 /\ flags[Slot(t, n_buckets, stop)] = "live"
    IN  Slot(t, n_buckets, IF dels # {} /\ ~key THEN Max(dels) ELSE stop)

-----------------------------------------------------------------------------
(* kh_resize().                                                            *)

\* The powers of two have no odd divisor but 1.
PowerOfTwo(m) == \A d \in 1 .. m : m % d = 0 => d = 1 \/ d % 2 = 0

\* kroundup32, and at least four.
RoundUp(n) == Min({m \in 4 .. 2 * n + 4 : m >= n /\ PowerOfTwo(m)})

NewBuckets == RoundUp(IF n_buckets > 2 * size THEN n_buckets - 1 ELSE n_buckets + 1)

\* keys or vals after krealloc().
Grown(f, n) == [i \in DOMAIN f \cup 0 .. n - 1 |-> IF i \in DOMAIN f THEN f[i] ELSE None]

ResizeBegin ==
    /\ new' = [n |-> NewBuckets, flags |-> [i \in 0 .. NewBuckets - 1 |-> "empty"]]
    /\ j' = 0 /\ hand' = NoHand
    /\ keys' = Grown(keys, NewBuckets) /\ vals' = Grown(vals, NewBuckets)
    /\ UNCHANGED <<n_buckets, size, n_occupied, upper_bound, flags>>

\* The next bucket of the old table; a live element is taken out.
ResizeTake ==
    /\ Resizing /\ hand = NoHand /\ j < n_buckets
    /\ j' = j + 1
    /\ IF flags[j] = "live"
         THEN /\ hand' = [key |-> keys[j], val |-> vals[j]]
              /\ flags' = [flags EXCEPT ![j] = "deleted"]
         ELSE UNCHANGED <<hand, flags>>
    /\ UNCHANGED <<n_buckets, size, n_occupied, upper_bound, keys, vals, arg, new,
                   iter, ret>>

\* The bucket still holds an element of the old table.
Kicks(i) == i < n_buckets /\ flags[i] = "live"

\* Mutant: it is not marked.
KickedKept(i) == flags

\* It is marked as deleted in the old table.
Kicked(i) == [flags EXCEPT ![i] = "deleted"]

\* One pass of the kick-out loop.
ResizePlace ==
    LET t == Tup[hand.key]
        k == Min({m \in Steps(new.n) : new.flags[Slot(t, new.n, m)] = "empty"})
        i == Slot(t, new.n, k)
    IN  /\ Resizing /\ hand # NoHand
        /\ new' = [n |-> new.n, flags |-> [new.flags EXCEPT ![i] = "live"]]
        /\ keys' = [keys EXCEPT ![i] = hand.key]
        /\ vals' = [vals EXCEPT ![i] = hand.val]
        /\ IF Kicks(i)
             THEN /\ hand' = [key |-> keys[i], val |-> vals[i]]
                  /\ flags' = Kicked(i)
             ELSE hand' = NoHand /\ UNCHANGED flags
        /\ UNCHANGED <<n_buckets, size, n_occupied, upper_bound, arg, j, iter, ret>>

\* Mutant: the deleted buckets that are gone still count.
OccupiedAfterKept == n_occupied

\* n_occupied after the rehash.
OccupiedAfter == size

ResizeEnd ==
    /\ Resizing /\ hand = NoHand /\ j = n_buckets
    /\ flags' = new.flags /\ n_buckets' = new.n
    /\ keys' = Restrict(keys, 0 .. new.n - 1) /\ vals' = Restrict(vals, 0 .. new.n - 1)
    /\ n_occupied' = OccupiedAfter /\ upper_bound' = HashUpper(new.n)
    /\ new' = NoNew /\ j' = 0
    /\ UNCHANGED <<size, arg, hand, iter, ret>>

-----------------------------------------------------------------------------
(* ins_sock(), rem_sock() and backend_cleanup().                           *)

\* ins_sock() calls kh_put(), which may call kh_resize().
InsSock(p) ==
    /\ Idle
    /\ arg' = p
    /\ IF n_occupied >= upper_bound /\ size < HashUpper(NewBuckets)
         THEN ResizeBegin
         ELSE UNCHANGED <<table, resize>>
    /\ UNCHANGED <<iter, ret>>

\* kh_resize() gets no memory.
InsSockFails ==
    /\ Idle /\ n_occupied >= upper_bound /\ size < HashUpper(NewBuckets)
    /\ ret' = -1
    /\ UNCHANGED <<table, arg, resize, iter>>

\* Mutant: the key is replaced by an equal one.
KeysPutAlways(x) == [keys EXCEPT ![x] = arg]

\* A key that is present is not touched.
KeysPut(x) == IF flags[x] = "live" THEN keys ELSE [keys EXCEPT ![x] = arg]

\* The rest of kh_put(), and the assignment to kh_val().
InsSockPut ==
    LET x == PutSlot(Tup[arg])
    IN  /\ arg # None /\ ~Resizing
        /\ vals' = [vals EXCEPT ![x] = arg]
        /\ flags' = [flags EXCEPT ![x] = "live"]
        /\ keys' = KeysPut(x)
        /\ size' = IF flags[x] = "live" THEN size ELSE size + 1
        /\ n_occupied' = IF flags[x] = "empty" THEN n_occupied + 1 ELSE n_occupied
        /\ ret' = CASE flags[x] = "empty" -> 1 [] flags[x] = "deleted" -> 2
                    [] OTHER -> 0
        /\ arg' = None
        /\ UNCHANGED <<n_buckets, upper_bound, resize, iter>>

\* kh_del()
Del(x) ==
    /\ IF x # n_buckets /\ flags[x] = "live"
         THEN flags' = [flags EXCEPT ![x] = "deleted"] /\ size' = size - 1
         ELSE UNCHANGED <<flags, size>>
    /\ UNCHANGED <<n_buckets, n_occupied, upper_bound, keys, vals>>

\* rem_sock(), which for a socket that is not in the table removes nothing.
RemSock(p) == Idle /\ Del(Get(Tup[p])) /\ UNCHANGED <<arg, resize, iter, ret>>

Cleanup ==
    /\ Idle
    /\ iter' = 0
    /\ UNCHANGED <<table, arg, resize, ret>>

\* Mutant: the socket is freed before it is looked up.
ClosedNone(i) == n_buckets

\* The bucket that w_close() of the socket in bucket i deletes.
Closed(i) == Get(Tup[vals[i]])

\* kh_foreach_value(): w_close() of the socket removes its entry.
CleanupClose ==
    /\ iter \in 0 .. n_buckets - 1
    /\ IF flags[iter] = "live" THEN Del(Closed(iter)) ELSE UNCHANGED table
    /\ iter' = iter + 1
    /\ UNCHANGED <<arg, resize, ret>>

\* kh_release(), and another engine with a table that is all zero.
CleanupDone ==
    /\ iter = n_buckets
    /\ n_buckets' = 0 /\ size' = 0 /\ n_occupied' = 0 /\ upper_bound' = 0
    /\ flags' = Empty /\ keys' = Empty /\ vals' = Empty
    /\ iter' = -1 /\ ret' = 0
    /\ UNCHANGED <<arg, resize>>

-----------------------------------------------------------------------------
Init ==
    /\ n_buckets = 0 /\ size = 0 /\ n_occupied = 0 /\ upper_bound = 0
    /\ flags = Empty /\ keys = Empty /\ vals = Empty
    /\ arg = None /\ new = NoNew /\ j = 0 /\ hand = NoHand /\ iter = -1 /\ ret = 0

Running ==
    ResizeTake \/ ResizePlace \/ ResizeEnd \/ InsSockPut \/ CleanupClose \/ CleanupDone

Next == Running \/ Cleanup \/ InsSockFails \/ \E p \in Key : InsSock(p) \/ RemSock(p)

Spec == Init /\ [][Next]_vars

-----------------------------------------------------------------------------
(* Properties.                                                             *)

\* The buckets that hold an element: those of the old table that are not rehashed
\* yet, and those of the new one.
Used == {i \in DOMAIN keys : \/ i < n_buckets /\ flags[i] = "live"
                             \/ i < new.n /\ new.flags[i] = "live"}

\* The elements of the table, the one that is being moved included.
Elements ==
    {[key |-> keys[i], val |-> vals[i]] : i \in Used}
      \cup (IF hand = NoHand THEN {} ELSE {hand})

TypeOK ==
    /\ n_buckets \in Nat /\ new.n \in Nat
    /\ flags \in [0 .. n_buckets - 1 -> {"empty", "deleted", "live"}]
    /\ new.flags \in [0 .. new.n - 1 -> {"empty", "live"}]
    /\ DOMAIN keys = DOMAIN vals /\ 0 .. n_buckets - 1 \subseteq DOMAIN keys
    /\ \A e \in Elements : e.key \in Key /\ e.val \in Key
    /\ arg \in Key \cup {None} /\ j \in 0 .. n_buckets /\ iter \in -1 .. n_buckets
    /\ ret \in -1 .. 2

\* size and n_occupied are the numbers of live and of used buckets, whatever order
\* of kh_put(), kh_del() and kh_resize() led there; while there is a table, one
\* bucket is empty, so that every probe ends.
CountsRight ==
    TypeOK /\ (~Resizing =>
      /\ size = Cardinality({i \in DOMAIN flags : flags[i] = "live"})
      /\ n_occupied = Cardinality({i \in DOMAIN flags : flags[i] # "empty"})
      /\ n_buckets > 0 => n_occupied < n_buckets)

\* kh_get() finds every element that is in a bucket, and in that bucket: no
\* kh_del() breaks the probe of another key, no kh_put() adds a second bucket for
\* a key that a deleted bucket hid, and a resize leaves every element where the
\* probe of the new size looks for it.
GetFinds ==
    ~Resizing => \A i \in Used : Get(Tup[keys[i]]) = i

\* The table as a map.
AsMap ==
    LET es == Elements
    IN  [t \in {Tup[e.key] : e \in es} |-> CHOOSE e \in es : Tup[e.key] = t]

Map == INSTANCE KhMap WITH table <- AsMap

\* The hash table implements the map, at every step of a rehash too, and what
\* kh_put() reports is right.
MapSpec == Map!Spec

\* backend_cleanup() closes every socket of the table although w_close() deletes
\* from the table it iterates over, and closes none twice.
CleanupClosesAll == iter >= 0 => \A i \in Used : i >= iter

\* Bounds the steps that the calls under way still take.
Work ==
    LET moves == IF ~Resizing THEN 0
                 ELSE 1 + (n_buckets - j) + (IF hand = NoHand THEN 0 ELSE 1)
                        + 2 * Cardinality({i \in DOMAIN flags : flags[i] = "live"})
    IN  moves + (IF arg = None THEN 0 ELSE 1) + (IF iter = -1 THEN 0 ELSE 1 + n_buckets - iter)

\* A kh_put() with a resize and the loop of backend_cleanup() come to their end:
\* each step leaves less to do, elements that kick each other out included.
WorkShrinks == [][~Idle => Work' < Work]_vars
=============================================================================
