----------------------------- MODULE TailQueue ------------------------------
(***************************************************************************)
(* The singly-linked tail queues of queue.h, as pointers: the queues that  *)
(* hold w_iovs everywhere in warpcore.  h is the part of memory that they  *)
(* live in:                                                                *)
(*   h.first[q]  stqh_first of queue head q                                *)
(*   h.last[q]   stqh_last: the element whose next field it points to, or  *)
(*               NULL if it points to stqh_first of q itself               *)
(*   h.len[q]    stqh_len                                                  *)
(*   h.next[v]   next of element v                                         *)
(***************************************************************************)
EXTENDS Integers, Sequences, Functions

CONSTANTS Queue, Elem, NULL

ASSUME NullAssumption == NULL \notin Elem

sq_empty(h, q) == h.first[q] = NULL
sq_first(h, q) == h.first[q]

\* *(q)->stqh_last = v.
StoreLast(h, q, v) ==
    [first |-> IF h.last[q] = NULL THEN [h.first EXCEPT ![q] = v] ELSE h.first,
     last  |-> h.last,
     len   |-> h.len,
     next  |-> IF h.last[q] = NULL THEN h.next
                                   ELSE [h.next EXCEPT ![h.last[q]] = v]]

sq_init(h, q) ==
    [first |-> [h.first EXCEPT ![q] = NULL],
     last  |-> [h.last EXCEPT ![q] = NULL],
     len   |-> [h.len EXCEPT ![q] = 0],
     next  |-> h.next]

sq_insert_head(h, q, v) ==
    [first |-> [h.first EXCEPT ![q] = v],
     last  |-> IF sq_empty(h, q) THEN [h.last EXCEPT ![q] = v] ELSE h.last,
     len   |-> [h.len EXCEPT ![q] = @ + 1],
     next  |-> [h.next EXCEPT ![v] = h.first[q]]]

\* Mutant: v keeps its old next.
sq_insert_tail_dirty(h, q, v) ==
    LET s == StoreLast(h, q, v)
    IN  [first |-> s.first,
         last  |-> [h.last EXCEPT ![q] = v],
         len   |-> [h.len EXCEPT ![q] = @ + 1],
         next  |-> s.next]

sq_insert_tail(h, q, v) ==
    LET s == StoreLast(h, q, v)
    IN  [first |-> s.first,
         last  |-> [h.last EXCEPT ![q] = v],
         len   |-> [h.len EXCEPT ![q] = @ + 1],
         next  |-> [s.next EXCEPT ![v] = NULL]]

\* The element that is removed keeps its next.
sq_remove_head(h, q) ==
    LET n == h.next[h.first[q]]
    IN  [first |-> [h.first EXCEPT ![q] = n],
         last  |-> IF n = NULL THEN [h.last EXCEPT ![q] = NULL] ELSE h.last,
         len   |-> [h.len EXCEPT ![q] = @ - 1],
         next  |-> h.next]

\* All of queue b goes to the end of queue a.
sq_concat(h, a, b) ==
    IF sq_empty(h, b) THEN h
    ELSE LET s == StoreLast(h, a, h.first[b])
         IN  sq_init([first |-> s.first,
                      last  |-> [h.last EXCEPT ![a] = h.last[b]],
                      len   |-> [h.len EXCEPT ![a] = @ + h.len[b]],
                      next  |-> s.next], b)

-----------------------------------------------------------------------------
\* Queue q of h holds the elements of sequence c, in that order.
IsQueue(h, q, c) ==
    /\ c \in Seq(Elem) /\ IsInjective(c)
    /\ h.len[q] = Len(c)
    /\ IF c = <<>> THEN h.first[q] = NULL /\ h.last[q] = NULL
       ELSE /\ h.first[q] = c[1] /\ h.last[q] = c[Len(c)]
            /\ h.next[c[Len(c)]] = NULL
            /\ \A i \in 1 .. Len(c) - 1 : h.next[c[i]] = c[i + 1]

\* sq_foreach: the elements met from v on, n of them at most.
Walk(h, v, n) ==
    LET at[k \in 1 .. n] ==
          IF k = 1 THEN v
          ELSE IF at[k - 1] = NULL THEN NULL ELSE h.next[at[k - 1]]
    IN  SelectSeq([k \in 1 .. n |-> at[k]], LAMBDA e : e # NULL)
=============================================================================
