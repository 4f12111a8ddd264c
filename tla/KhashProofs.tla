---------------------------- MODULE KhashProofs ----------------------------
(***************************************************************************)
(* That ins_sock(), rem_sock() and backend_cleanup() keep the invariant of *)
(* KhashResizeProofs, and what follows: the counters of the table count,   *)
(* kh_get() finds what is stored, backend_cleanup() closes every socket,   *)
(* the loops shrink, and the table implements the map KhMap.               *)
(***************************************************************************)
EXTENDS KhashResizeProofs

-----------------------------------------------------------------------------
(* The functions that call it keep the invariant.                          *)

\* The rest of kh_put().
LEMMA KhInsSockPut ==
    ASSUME KhInv, InsSockPut
    PROVE  LET x == PutSlot(Tup[arg])
           IN  /\ KhInv' /\ arg \in Key /\ ~Resizing /\ ~Resizing' /\ hand = NoHand /\ hand' = NoHand
               /\ Live(flags)' = Live(flags) \cup {x}
               /\ x \in Live(flags) => Tup[keys[x]] = Tup[arg] /\ ret' = 0
               /\ x \notin Live(flags) => /\ \A i \in Live(flags) : Tup[keys[i]] # Tup[arg]
                                          /\ ret' \in {1, 2}
               /\ keys'[x] = IF x \in Live(flags) THEN keys[x] ELSE arg
               /\ vals'[x] = arg
               /\ \A i \in Live(flags) \ {x} : keys'[i] = keys[i] /\ vals'[i] = vals[i]
  <1> DEFINE x == PutSlot(Tup[arg])
             t == Tup[arg]
  <1>1. arg # None /\ ~Resizing
    BY Zenon DEF InsSockPut
  <1>2. /\ vals' = [vals EXCEPT ![x] = arg] /\ flags' = [flags EXCEPT ![x] = "live"]
        /\ keys' = (IF flags[x] = "live" THEN keys ELSE [keys EXCEPT ![x] = arg])
        /\ size' = (IF flags[x] = "live" THEN size ELSE size + 1)
        /\ n_occupied' = (IF flags[x] = "empty" THEN n_occupied + 1 ELSE n_occupied)
        /\ arg' = None
        /\ UNCHANGED <<n_buckets, upper_bound, new, j, hand, iter>>
    BY Zenon DEF InsSockPut, KeysPut, resize
  <1>3. ret' = CASE flags[x] = "empty" -> 1 [] flags[x] = "deleted" -> 2 [] OTHER -> 0
    BY Zenon DEF InsSockPut
  <1>4. arg \in Key /\ t \in DOMAIN Hash /\ n_occupied < upper_bound /\ iter = -1 /\ hand = NoHand
    BY Zenon, <1>1, ConstAssumption DEF KhInv, Shape, Phase
  <1>5. /\ x \in 0 .. n_buckets - 1
        /\ flags[x] = "live" => Tup[keys[x]] = t
        /\ flags[x] # "live" => /\ \A i \in Live(flags) : Tup[keys[i]] # t
                                /\ Reach(t, n_buckets, flags, x)
    <2> HIDE DEF t
    <2>1. LET y == PutSlot(t)
          IN  /\ y \in 0 .. n_buckets - 1
              /\ flags[y] = "live" => Tup[keys[y]] = t
              /\ flags[y] # "live" => /\ \A i \in Live(flags) : Tup[keys[i]] # t
                                      /\ Reach(t, n_buckets, flags, y)
      BY Zenon, <1>1, <1>4, PutSlotFacts DEF KhInv
    <2> QED
      BY Zenon, <2>1 DEF t
  <1> HIDE DEF x, t
  <1>6. /\ n_buckets \in Nat /\ flags \in [0 .. n_buckets - 1 -> {"empty", "deleted", "live"}]
        /\ DOMAIN keys = 0 .. n_buckets - 1 /\ DOMAIN vals = 0 .. n_buckets - 1
        /\ new.n \in Nat /\ new.flags \in [0 .. new.n - 1 -> {"empty", "live"}]
    BY Zenon, <1>1 DEF KhInv, Shape
  <1>7. flags' \in [0 .. n_buckets - 1 -> {"empty", "deleted", "live"}]
    BY ZenonT(60), <1>2, <1>6
  <1>8. Live(flags)' = Live(flags) \cup {x} /\ Occupied(flags)' = Occupied(flags) \cup {x}
    BY Zenon, <1>2, <1>5, <1>6 DEF Live, Occupied
  <1>9. (x \in Live(flags) <=> flags[x] = "live") /\ (x \in Occupied(flags) <=> flags[x] # "empty")
    BY Zenon, <1>5, <1>6 DEF Live, Occupied
  <1>10. Live(new.flags) = {} /\ new' = new /\ ~Resizing'
    BY <1>1, <1>2 DEF Resizing, NoNew, Empty, Live
  <1>11. \A i \in 0 .. n_buckets - 1 :
           /\ keys'[i] = IF i = x /\ x \notin Live(flags) THEN arg ELSE keys[i]
           /\ vals'[i] = IF i = x THEN arg ELSE vals[i]
    BY Zenon, <1>2, <1>6, <1>9
  <1>12. Live(flags) \subseteq 0 .. n_buckets - 1
    BY Zenon, <1>6 DEF Live
  <1>13. x \in Live(flags) => ret' = 0
    BY Zenon, <1>3, <1>9
  <1>14. x \notin Live(flags) => ret' \in {1, 2}
    BY Zenon, <1>3, <1>5, <1>6, <1>9
  <1>15. Shape'
    <2>1. DOMAIN keys' = 0 .. n_buckets - 1 /\ DOMAIN vals' = 0 .. n_buckets - 1
      BY Zenon, <1>2, <1>6
    <2>2. ret' \in -1 .. 2
      BY <1>13, <1>14
    <2> QED
      BY Zenon, <1>2, <1>7, <1>10, <2>1, <2>2 DEF KhInv, Shape
  <1>16. Phase'
    BY ZenonT(60), <1>1, <1>2, <1>10 DEF KhInv, Phase
  <1>17. Counts'
    <2>1. /\ IsFiniteSet(Live(flags)) /\ Cardinality(Live(flags)) \in Nat
          /\ IsFiniteSet(Occupied(flags)) /\ Cardinality(Occupied(flags)) \in Nat
      BY Zenon, <1>6, FlagSets
    <2>2. Cardinality(Live(flags) \cup {x}) =
            IF x \in Live(flags) THEN Cardinality(Live(flags)) ELSE Cardinality(Live(flags)) + 1
      BY Zenon, <2>1, FS_AddElement
    <2>3. Cardinality(Occupied(flags) \cup {x}) =
            IF x \in Occupied(flags) THEN Cardinality(Occupied(flags))
            ELSE Cardinality(Occupied(flags)) + 1
      BY Zenon, <2>1, FS_AddElement
    <2>4. Cardinality(Live(flags))' =
            IF x \in Live(flags) THEN Cardinality(Live(flags)) ELSE Cardinality(Live(flags)) + 1
      BY Zenon, <1>8, <2>2
    <2>5. Cardinality(Occupied(flags))' =
            IF x \in Occupied(flags) THEN Cardinality(Occupied(flags))
            ELSE Cardinality(Occupied(flags)) + 1
      BY Zenon, <1>8, <2>3
    <2>6. Cardinality(Live(flags))' <= Cardinality(Occupied(flags))'
      <3>1. Cardinality(Live(flags')) <= Cardinality(Occupied(flags'))
        BY Zenon, <1>6, <1>7, FlagSets
      <3> QED
        BY Zenon, <3>1
    <2>7. Cardinality(Live(new.flags)) = 0 /\ Cardinality(Live(new.flags))' = 0
      BY Zenon, <1>10, FS_EmptySet
    <2>8. Counts /\ HashUpper(n_buckets) \in Nat
      BY Zenon, <1>6, UpperBelow DEF KhInv
    <2> QED
      BY <1>1, <1>2, <1>4, <1>9, <1>10, <2>1, <2>4, <2>5, <2>6, <2>7, <2>8 DEF Counts
  <1>18. Held'
    <2>1. Held /\ hand' = NoHand /\ Live(new.flags)' = {}
      BY Zenon, <1>2, <1>4, <1>10 DEF KhInv
    <2> HIDE DEF KhInv
    <2>2. \A l \in Live(flags)' : l \in 0 .. n_buckets - 1 /\ (l = x \/ (l # x /\ l \in Live(flags)))
      BY Zenon, <1>5, <1>8, <1>12
    <2>3. \A l \in Live(flags)' :
             keys'[l] \in Key /\ vals'[l] \in Key /\ Tup[vals'[l]] = Tup[keys'[l]]
      BY SMTT(60), <1>4, <1>5, <1>9, <1>11, <2>1, <2>2 DEF Held, t
    <2>4. \A l \in Live(flags)' : Tup[keys'[l]] = t => l = x
      BY <1>4, <1>5, <1>9, <1>11, <2>1, <2>2 DEF Held, t
    <2>5. Tup[keys'[x]] = t
      BY Zenon, <1>5, <1>9, <1>11 DEF t
    <2>6. \A l, k \in Live(flags)' : Tup[keys'[l]] = Tup[keys'[k]] => l = k
      BY <1>10, <1>11, <2>1, <2>2, <2>4, <2>5 DEF Held
    <2> QED
      BY Zenon, <2>1, <2>3, <2>6 DEF Held
  <1>19. Probed'
    <2>1. ASSUME NEW l \in Live(flags)' PROVE Reach(Tup[keys'[l]], n_buckets, flags', l)
      <3>1. Tup[keys'[l]] \in DOMAIN Hash
        BY Zenon, <1>18, ConstAssumption DEF Held
      <3>2. Reach(Tup[keys'[l]], n_buckets, flags, l)
        <4>1. CASE l = x /\ x \notin Live(flags)
          <5>1. keys'[l] = arg
            BY Zenon, <1>5, <1>11, <4>1
          <5> QED
            BY Zenon, <1>5, <1>9, <4>1, <5>1 DEF t
        <4>2. CASE ~(l = x /\ x \notin Live(flags))
          <5>1. l \in Live(flags) /\ l \in 0 .. n_buckets - 1
            BY Zenon, <1>8, <1>12, <4>2
          <5>2. keys'[l] = keys[l]
            BY Zenon, <1>11, <4>2, <5>1
          <5> QED
            BY Zenon, <1>1, <5>1, <5>2 DEF KhInv, Probed
        <4> QED
          BY Zenon, <4>1, <4>2
      <3>3. n_buckets > 0 /\ Occupied(flags) \subseteq Occupied(flags')
        BY <1>5, <1>6, <1>8
      <3> QED
        BY Zenon, <1>6, <1>7, <3>1, <3>2, <3>3, ReachKept
    <2> QED
      BY Zenon, <1>2, <1>10, <2>1 DEF Probed
  <1>20. Swept'
    BY <1>2, <1>4, <1>10 DEF Swept
  <1>21. keys'[x] = (IF x \in Live(flags) THEN keys[x] ELSE arg) /\ vals'[x] = arg
    BY ZenonT(60), <1>5, <1>11
  <1>22. \A i \in Live(flags) \ {x} : keys'[i] = keys[i] /\ vals'[i] = vals[i]
    BY Zenon, <1>11, <1>12
  <1>23. KhInv'
    BY Zenon, <1>15, <1>16, <1>17, <1>18, <1>19, <1>20 DEF KhInv
  <1> QED
    BY ZenonT(60), <1>1, <1>2, <1>4, <1>5, <1>8, <1>9, <1>10, <1>13, <1>14, <1>21, <1>22, <1>23 DEF x, t

\* ins_sock() up to the choice of a bucket.
LEMMA KhInsSock ==
    ASSUME KhInv, NEW p \in Key, InsSock(p)
    PROVE  KhInv'
  <1>1. Idle /\ arg' = p /\ UNCHANGED <<iter, ret>>
    BY Zenon DEF InsSock
  <1>2. CASE n_occupied >= upper_bound /\ size < HashUpper(NewBuckets)
    <2>1. ResizeBegin
      BY Zenon, <1>2 DEF InsSock
    <2> QED
      BY Zenon, <1>1, <2>1, KhResizeBegin
  <1>3. CASE ~(n_occupied >= upper_bound /\ size < HashUpper(NewBuckets))
    <2>1. UNCHANGED <<table, resize>>
      BY Zenon, <1>3 DEF InsSock
    <2>2. size < HashUpper(NewBuckets)
      BY Zenon, Enough DEF KhInv
    <2>3. n_occupied < upper_bound
      <3>1. n_occupied \in Int /\ upper_bound \in Int
        BY DEF KhInv, Counts, Shape, HashUpper
      <3> QED
        BY <1>3, <2>2, <3>1
    <2>4. arg = None /\ iter = -1 /\ ~Resizing
      BY Zenon, <1>1 DEF Idle, KhInv, Phase
    <2>5. /\ arg' \in Key \cup {None} /\ iter' \in -1 .. n_buckets /\ ret' \in -1 .. 2
          /\ ~(iter' >= 0) /\ iter' = -1
      BY <1>1, <2>4 DEF KhInv, Shape
    <2> QED
      BY Zenon, <2>1, <2>3, <2>4, <2>5, KhQuiet
  <1> QED
    BY Zenon, <1>2, <1>3

\* rem_sock(): the bucket of the tuple, if there is one, is deleted.
LEMMA KhRemSock ==
    ASSUME KhInv, NEW p \in Key, RemSock(p)
    PROVE  /\ KhInv' /\ UNCHANGED <<keys, vals, new, hand, ret>> /\ ~Resizing
           /\ Live(flags)' = {i \in Live(flags) : Tup[keys[i]] # Tup[p]}
  <1>1. Idle /\ Del(Get(Tup[p])) /\ UNCHANGED <<arg, resize, iter, ret>>
    BY Zenon DEF RemSock
  <1>2. arg = None /\ iter = -1 /\ ~Resizing /\ Tup[p] \in DOMAIN Hash
    BY Zenon, <1>1, ConstAssumption DEF Idle, KhInv, Phase
  <1>3. UNCHANGED <<keys, vals, new, hand, ret>>
    BY ZenonT(60), <1>1 DEF Del, resize
  <1>4. iter' \in -1 .. n_buckets /\ ~(iter' >= 0)
    BY <1>1, <1>2 DEF KhInv, Shape
  <1>5. /\ Get(Tup[p]) \in 0 .. n_buckets
        /\ Live(flags) \ {Get(Tup[p])} = {i \in Live(flags) : Tup[keys[i]] # Tup[p]}
    <2>1. CASE \E i \in Live(flags) : Tup[keys[i]] = Tup[p]
      <3>1. PICK i \in Live(flags) : Tup[keys[i]] = Tup[p]
        BY Zenon, <2>1
      <3>2. Get(Tup[p]) = i
        BY Zenon, <1>2, <3>1, GetLive DEF KhInv
      <3>3. i \in 0 .. n_buckets
        BY SMTT(60) DEF KhInv, Shape, Live
      <3>4. \A l \in Live(flags) : Tup[keys[l]] = Tup[p] => l = i
        BY Zenon, <3>1 DEF KhInv, Held
      <3> QED
        BY Zenon, <3>1, <3>2, <3>3, <3>4
    <2>2. CASE ~ \E i \in Live(flags) : Tup[keys[i]] = Tup[p]
      <3>1. Get(Tup[p]) = n_buckets
        BY Zenon, <1>2, <2>2, GetNone DEF KhInv
      <3>2. n_buckets \in 0 .. n_buckets /\ n_buckets \notin Live(flags)
        BY DEF KhInv, Shape, Live
      <3> QED
        BY Zenon, <2>2, <3>1, <3>2
    <2> QED
      BY Zenon, <2>1, <2>2
  <1>6. KhInv' /\ Live(flags') = Live(flags) \ {Get(Tup[p])}
    BY Zenon, <1>1, <1>2, <1>4, <1>5, KhDel
  <1> QED
    BY Zenon, <1>2, <1>3, <1>5, <1>6

\* backend_cleanup() begins.
LEMMA KhCleanup == ASSUME KhInv, Cleanup PROVE KhInv'
  <1>1. UNCHANGED <<table, resize, arg, ret>> /\ iter' = 0 /\ arg = None /\ ~Resizing
    BY Zenon DEF Cleanup, Idle, KhInv, Phase
  <1>2. /\ arg' \in Key \cup {None} /\ arg' = None /\ iter' \in -1 .. n_buckets /\ ret' \in -1 .. 2
        /\ \A i \in Live(flags) : i >= iter'
    BY <1>1 DEF KhInv, Shape, Live
  <1> QED
    BY Zenon, <1>1, <1>2, KhQuiet

\* Its loop deletes the bucket it is at.
LEMMA KhCleanupClose ==
    ASSUME KhInv, CleanupClose
    PROVE  /\ KhInv' /\ UNCHANGED <<keys, vals, new, hand, ret, arg>> /\ ~Resizing /\ arg = None
           /\ iter \in 0 .. n_buckets - 1 /\ iter' = iter + 1 /\ UNCHANGED n_buckets
           /\ Live(flags)' = Live(flags) \ {iter}
  <1>1. iter \in 0 .. n_buckets - 1 /\ iter' = iter + 1 /\ UNCHANGED <<arg, resize, ret>>
    BY Zenon DEF CleanupClose
  <1>2. n_buckets \in Nat /\ iter' \in -1 .. n_buckets /\ iter # -1 /\ iter >= 0
    BY <1>1 DEF KhInv, Shape
  <1>3. arg = None /\ ~Resizing
    BY Zenon, <1>2 DEF KhInv, Phase
  <1>4. \A i \in Live(flags) \ {iter} : i >= iter'
    <2>1. \A i \in Live(flags) : i >= iter /\ i \in Nat
      BY <1>2 DEF KhInv, Swept, Shape, Live
    <2> QED
      BY <1>1, <2>1
  <1>5. CASE flags[iter] = "live"
    <2>1. Del(Closed(iter))
      BY Zenon, <1>5 DEF CleanupClose
    <2>2. iter \in Live(flags)
      BY Zenon, <1>1, <1>5 DEF KhInv, Shape, Live
    <2>3. Tup[keys[iter]] = Tup[vals[iter]]
      BY Zenon, <2>2 DEF KhInv, Held
    <2>4. Closed(iter) = iter
      BY Zenon, <1>3, <2>2, <2>3, GetLive DEF KhInv, Closed
    <2>5. Del(iter) /\ iter \in 0 .. n_buckets
      <3>1. iter \in 0 .. n_buckets
        BY <1>1, <1>2
      <3> QED
        BY Zenon, <2>1, <2>4, <3>1
    <2>6. KhInv' /\ Live(flags') = Live(flags) \ {iter}
      BY Zenon, <1>1, <1>2, <1>3, <1>4, <2>5, KhDel
    <2>7. UNCHANGED <<n_buckets, keys, vals, new, hand>>
      BY Zenon, <1>1, <2>5 DEF Del, resize
    <2> QED
      BY Zenon, <1>1, <1>3, <2>6, <2>7
  <1>6. CASE flags[iter] # "live"
    <2>1. UNCHANGED table
      BY Zenon, <1>6 DEF CleanupClose
    <2>2. iter \notin Live(flags)
      BY Zenon, <1>6 DEF Live
    <2>3. \A i \in Live(flags) : i >= iter'
      BY Zenon, <1>4, <2>2
    <2>4. arg' \in Key \cup {None} /\ arg' = None /\ ret' \in -1 .. 2
      BY Zenon, <1>1, <1>3 DEF KhInv, Shape
    <2>5. UNCHANGED <<table, resize>>
      BY Zenon, <1>1, <2>1
    <2>6. KhInv'
      BY Zenon, <1>2, <1>3, <2>3, <2>4, <2>5, KhQuiet
    <2>7. UNCHANGED <<n_buckets, flags, keys, vals, new, hand>>
      BY Zenon, <2>5 DEF table, resize
    <2>8. Live(flags)' = Live(flags) \ {iter}
      BY Zenon, <2>2, <2>7
    <2> QED
      BY Zenon, <1>1, <1>3, <2>6, <2>7, <2>8
  <1> QED
    BY Zenon, <1>5, <1>6

\* After the loop no bucket is live, and the table is all zero again.
LEMMA KhCleanupDone ==
    ASSUME KhInv, CleanupDone
    PROVE  /\ KhInv' /\ Live(flags) = {} /\ Live(new.flags) = {} /\ hand = NoHand
           /\ Live(flags)' = {} /\ UNCHANGED <<new, hand, arg>> /\ arg = None /\ ~Resizing
           /\ iter = n_buckets /\ iter' = -1 /\ ret' = 0
  <1>1. /\ iter = n_buckets /\ UNCHANGED <<arg, new, j, hand>>
        /\ n_buckets' = 0 /\ size' = 0 /\ n_occupied' = 0 /\ upper_bound' = 0
        /\ flags' = Empty /\ keys' = Empty /\ vals' = Empty /\ iter' = -1 /\ ret' = 0
    BY Zenon DEF CleanupDone, resize
  <1>2. n_buckets \in Nat /\ iter # -1 /\ iter >= 0
    BY <1>1 DEF KhInv, Shape
  <1>3. arg = None /\ ~Resizing /\ hand = NoHand /\ new.n = 0
    BY Zenon, <1>2 DEF KhInv, Phase
  <1>4. Live(flags) = {}
    BY SMTT(60), <1>1, <1>2 DEF KhInv, Swept, Shape, Live
  <1>5. Live(new.flags) = {} /\ Live(flags)' = {} /\ Occupied(flags)' = {}
    BY SMTT(60), <1>1, <1>3 DEF Resizing, NoNew, Empty, Live, Occupied
  <1>6. ~Resizing' /\ j' = 0 /\ new' = NoNew
    <2>1. new = NoNew
      BY ZenonT(60), <1>3 DEF Resizing
    <2>2. j' = 0
      BY Zenon, <1>1, <1>3 DEF KhInv, Phase
    <2> QED
      BY Zenon, <1>1, <2>1, <2>2 DEF Resizing
  <1>7. Shape'
    BY SMTT(60), <1>1, <1>3, <1>6 DEF Shape, Empty, NoNew
  <1>8. Phase'
    BY Zenon, <1>1, <1>3, <1>6 DEF Phase, NoNew
  <1>9. Counts'
    <2>1. Cardinality({}) = 0 /\ Live(new.flags)' = {}
      BY Zenon, <1>1, <1>5, FS_EmptySet
    <2> QED
      BY <1>1, <1>3, <1>5, <2>1 DEF Counts, HashUpper
  <1>10. Held' /\ Probed' /\ Swept'
    <2>1. Live(new.flags)' = {} /\ hand' = NoHand
      BY Zenon, <1>1, <1>3, <1>5
    <2> QED
      BY Zenon, <1>1, <1>5, <1>6, <2>1 DEF Held, Probed, Swept
  <1> QED
    BY Zenon, <1>1, <1>3, <1>4, <1>5, <1>7, <1>8, <1>9, <1>10 DEF KhInv

\* Every step keeps the invariant.
LEMMA KhNext == ASSUME KhInv, [Next]_vars PROVE KhInv'
  <1>1. CASE InsSockFails
    <2>1. UNCHANGED <<table, arg, resize, iter>> /\ ret' = -1 /\ arg = None /\ iter = -1 /\ ~Resizing
      BY Zenon, <1>1 DEF InsSockFails, Idle, KhInv, Phase
    <2>2. /\ arg' \in Key \cup {None} /\ arg' = None /\ iter' \in -1 .. n_buckets /\ ret' \in -1 .. 2
          /\ ~(iter' >= 0)
      BY <2>1 DEF KhInv, Shape
    <2> QED
      BY Zenon, <2>1, <2>2, KhQuiet
  <1>2. CASE UNCHANGED vars
    <2>1. UNCHANGED <<table, resize, arg, iter, ret>>
      BY Zenon, <1>2 DEF vars
    <2> QED
      BY Zenon, <2>1 DEF KhInv, Shape, Phase, Counts, Held, Probed, Swept, Resizing, table, resize
  <1>3. CASE Running
    BY Zenon, <1>3, KhResizeTake, KhResizePlace, KhResizeEnd, KhInsSockPut, KhCleanupClose,
       KhCleanupDone DEF Running
  <1>4. CASE Cleanup
    BY Zenon, <1>4, KhCleanup
  <1>5. CASE \E p \in Key : InsSock(p) \/ RemSock(p)
    BY Zenon, <1>5, KhInsSock, KhRemSock
  <1> QED
    BY Zenon, <1>1, <1>2, <1>3, <1>4, <1>5 DEF Next

\* So every state of the table satisfies it.
LEMMA KhInvAlways == Spec => []KhInv
  <1>1. Init => KhInv
    BY Zenon, KhInit
  <1>2. KhInv /\ [Next]_vars => KhInv'
    BY Zenon, KhNext
  <1> QED
    BY <1>1, <1>2, PTL DEF Spec

-----------------------------------------------------------------------------
(* What the invariant says about the elements of the table.                *)

\* The element in bucket i.
Element(i) == [key |-> keys[i], val |-> vals[i]]

\* The buckets in use are the live ones, of both tables.
LEMMA UsedLive == ASSUME KhInv PROVE Used = Live(flags) \cup Live(new.flags)
  <1>1. /\ n_buckets \in Nat /\ DOMAIN flags = 0 .. n_buckets - 1
        /\ new.n \in Nat /\ DOMAIN new.flags = 0 .. new.n - 1
        /\ DOMAIN keys = 0 .. (IF Resizing THEN new.n ELSE n_buckets) - 1
    BY Zenon DEF KhInv, Shape
  <1>2. (Resizing => new.n >= n_buckets) /\ (~Resizing => new.n = 0)
    BY Zenon DEF KhInv, Phase
  <1> QED
    BY SMTT(60), <1>1, <1>2 DEF Used, Live

\* The elements are in them, but for the one in hand.
LEMMA ElementsLive ==
    KhInv => Elements = {Element(i) : i \in Live(flags) \cup Live(new.flags)}
                          \cup (IF hand = NoHand THEN {} ELSE {hand})
BY Zenon, UsedLive DEF Elements, Element

\* Each has a tuple of its own.
LEMMA ElementsApart ==
    KhInv => /\ \A e \in Elements : e.key \in Key /\ e.val \in Key /\ Tup[e.val] = Tup[e.key]
             /\ \A e, f \in Elements : Tup[e.key] = Tup[f.key] => e = f
  <1> SUFFICES ASSUME KhInv
               PROVE  /\ \A e \in Elements : e.key \in Key /\ e.val \in Key /\ Tup[e.val] = Tup[e.key]
                      /\ \A e, f \in Elements : Tup[e.key] = Tup[f.key] => e = f
    BY Zenon
  <1> DEFINE L == Live(flags) \cup Live(new.flags)
  <1>1. \A e \in Elements : (\E i \in L : e = Element(i)) \/ (hand # NoHand /\ e = hand)
    BY ZenonT(60), ElementsLive
  <1>2. \A i \in L : /\ Element(i).key = keys[i] /\ Element(i).val = vals[i]
                     /\ keys[i] \in Key /\ vals[i] \in Key /\ Tup[vals[i]] = Tup[keys[i]]
    BY Zenon DEF Element, KhInv, Held
  <1>3. \A i, k \in L : Tup[keys[i]] = Tup[keys[k]] => i = k
    BY ZenonT(60) DEF KhInv, Held
  <1>4. hand # NoHand => /\ hand.key \in Key /\ hand.val \in Key /\ Tup[hand.val] = Tup[hand.key]
                         /\ \A i \in L : Tup[keys[i]] # Tup[hand.key]
    BY Zenon DEF KhInv, Held
  <1> HIDE DEF L
  <1>5. \A e \in Elements : e.key \in Key /\ e.val \in Key /\ Tup[e.val] = Tup[e.key]
    BY <1>1, <1>2, <1>4
  <1>6. \A e, f \in Elements : Tup[e.key] = Tup[f.key] => e = f
    BY <1>1, <1>2, <1>3, <1>4
  <1> QED
    BY Zenon, <1>5, <1>6

\* The counters of kh_put(), kh_del() and kh_resize() count, and while there is a
\* table a bucket is empty.
LEMMA CountsFromInv == KhInv => CountsRight
  <1> SUFFICES ASSUME KhInv PROVE CountsRight
    BY Zenon
  <1>1. /\ n_buckets \in Nat /\ flags \in [0 .. n_buckets - 1 -> {"empty", "deleted", "live"}]
        /\ new.n \in Nat /\ new.flags \in [0 .. new.n - 1 -> {"empty", "live"}]
    BY Zenon DEF KhInv, Shape
  <1>2. TypeOK
    <2>1. DOMAIN keys = DOMAIN vals /\ 0 .. n_buckets - 1 \subseteq DOMAIN keys
      BY DEF KhInv, Shape, Phase
    <2>2. \A e \in Elements : e.key \in Key /\ e.val \in Key
      BY Zenon, ElementsApart
    <2>3. arg \in Key \cup {None} /\ j \in 0 .. n_buckets /\ iter \in -1 .. n_buckets /\ ret \in -1 .. 2
      BY ZenonT(60) DEF KhInv, Shape
    <2> QED
      BY ZenonT(60), <1>1, <2>1, <2>2, <2>3 DEF TypeOK
  <1>3. ASSUME ~Resizing
        PROVE  /\ size = Cardinality(Live(flags)) /\ n_occupied = Cardinality(Occupied(flags))
               /\ n_buckets > 0 => n_occupied < n_buckets
    <2>1. Live(new.flags) = {} /\ hand = NoHand
      BY <1>3 DEF KhInv, Phase, Resizing, NoNew, Empty, Live
    <2>2. Cardinality(Live(new.flags)) = 0 /\ Cardinality(Live(flags)) \in Nat
      BY Zenon, <1>1, <2>1, FS_EmptySet, FlagSets
    <2>3. HashUpper(n_buckets) \in Nat /\ (n_buckets > 0 => HashUpper(n_buckets) < n_buckets)
      BY Zenon, <1>1, UpperBelow
    <2> QED
      BY SMTT(60), <1>1, <1>3, <2>1, <2>2, <2>3 DEF KhInv, Counts
  <1> QED
    BY Zenon, <1>2, <1>3 DEF CountsRight, Live, Occupied

\* For any sockets and hash values, and a table of any size: size and n_occupied are
\* the numbers of live and of used buckets whenever no kh_resize() is under way, and
\* a table has an empty bucket, so that the probes of kh_get() and kh_put() end.
THEOREM CountersCount == Spec => []CountsRight
BY KhInvAlways, CountsFromInv, PTL

\* kh_get() finds every stored element in its bucket, whatever calls led there: no
\* deleted bucket, kicked-out element or change of the size hides one.
THEOREM GetsFind == Spec => []GetFinds
  <1>1. KhInv => GetFinds
    <2> SUFFICES ASSUME KhInv, ~Resizing, NEW i \in Used PROVE Get(Tup[keys[i]]) = i
      BY ZenonT(60) DEF GetFinds
    <2>1. i \in Live(flags)
      <3>1. Live(new.flags) = {}
        BY DEF KhInv, Phase, Resizing, NoNew, Empty, Live
      <3> QED
        BY ZenonT(60), <3>1, UsedLive
    <2> QED
      BY Zenon, <2>1, GetLive DEF KhInv
  <1> QED
    BY <1>1, KhInvAlways, PTL

\* The loop of backend_cleanup() has closed every socket in the buckets behind it
\* although each w_close() deletes from the table that the loop iterates over.
THEOREM AllClosed == Spec => []CleanupClosesAll
  <1>1. KhInv => CleanupClosesAll
    <2> SUFFICES ASSUME KhInv, iter >= 0, NEW i \in Used PROVE i >= iter
      BY Zenon DEF CleanupClosesAll
    <2>1. iter # -1
      BY SMTT(60)
    <2>2. ~Resizing
      BY Zenon, <2>1 DEF KhInv, Phase
    <2>3. Live(new.flags) = {}
      BY <2>2 DEF Resizing, NoNew, Empty, Live
    <2> QED
      BY Zenon, <2>3, UsedLive DEF KhInv, Swept
  <1> QED
    BY <1>1, KhInvAlways, PTL

\* Every step of a kh_put(), with the resize it may begin, and of the loop of
\* backend_cleanup() leaves less to do: the kick-out loop of kh_resize() ends, in a
\* table of any size, and so do the calls.
THEOREM LoopsShrink == Spec => WorkShrinks
  <1> DEFINE C == Cardinality(Live(flags))
             D == Cardinality(Live(flags'))
  <1>1. ASSUME KhInv, Next, ~Idle PROVE Work' < Work
    <2>1. Running
      BY Zenon, <1>1 DEF Next, Cleanup, InsSockFails, InsSock, RemSock
    <2>2. KhInv'
      BY ZenonT(60), <1>1, KhNext
    <2>3. /\ n_buckets \in Nat /\ flags \in [0 .. n_buckets - 1 -> {"empty", "deleted", "live"}]
          /\ j \in 0 .. n_buckets /\ iter \in -1 .. n_buckets
      BY Zenon, <1>1 DEF KhInv, Shape
    <2>4. C \in Nat /\ IsFiniteSet(Live(flags))
      BY ZenonT(60), <2>3, FlagSets
    <2>5. \A x : Cardinality(Live(flags) \ {x}) = IF x \in Live(flags) THEN C - 1 ELSE C
      BY Zenon, <2>4, FS_RemoveElement
    <2>6. Work = (IF ~Resizing THEN 0 ELSE 1 + (n_buckets - j) + (IF hand = NoHand THEN 0 ELSE 1) + 2 * C)
                   + (IF arg = None THEN 0 ELSE 1) + (IF iter = -1 THEN 0 ELSE 1 + n_buckets - iter)
      BY Zenon DEF Work, Live
    <2>7. Work' = (IF ~Resizing' THEN 0
                   ELSE 1 + (n_buckets' - j') + (IF hand' = NoHand THEN 0 ELSE 1) + 2 * D)
                   + (IF arg' = None THEN 0 ELSE 1)
                   + (IF iter' = -1 THEN 0 ELSE 1 + n_buckets' - iter')
      BY ZenonT(60) DEF Work, Live, NoHand
    <2> HIDE DEF C, D
    <2>8. CASE ResizeTake
      <3>1. /\ Resizing /\ hand = NoHand /\ j < n_buckets /\ j' = j + 1
            /\ UNCHANGED <<n_buckets, arg, new, iter>>
        BY Zenon, <2>8 DEF ResizeTake
      <3>2. \/ j \in Live(flags) /\ Live(flags)' = Live(flags) \ {j}
            \/ UNCHANGED <<flags, hand>>
        BY ZenonT(60), <1>1, <2>8, KhResizeTake
      <3>3. D = C - 1 \/ (D = C /\ hand' = NoHand)
        BY ZenonT(60), <2>5, <3>1, <3>2 DEF C, D
      <3>4. Resizing'
        BY ZenonT(60), <3>1 DEF Resizing
      <3> QED
        BY SMTT(60), <2>3, <2>4, <2>6, <2>7, <3>1, <3>3, <3>4
    <2>9. CASE ResizePlace
      <3>1. Resizing' /\ hand # NoHand /\ UNCHANGED <<n_buckets, j, arg, iter>>
        BY Zenon, <1>1, <2>9, KhResizePlace
      <3>2. /\ Live(flags)' = Live(flags) \ {PlaceSlot}
            /\ hand' = IF PlaceSlot \in Live(flags)
                       THEN [key |-> keys[PlaceSlot], val |-> vals[PlaceSlot]] ELSE NoHand
        BY ZenonT(60), <1>1, <2>9, KhResizePlace
      <3>3. Resizing
        BY Zenon, <2>9 DEF ResizePlace
      <3>4. D = C - 1 \/ (D = C /\ hand' = NoHand)
        BY Zenon, <2>5, <3>2 DEF D
      <3> QED
        BY <2>3, <2>4, <2>6, <2>7, <3>1, <3>3, <3>4
    <2>10. CASE ResizeEnd
      <3>1. Resizing /\ hand = NoHand /\ j = n_buckets /\ new' = NoNew /\ UNCHANGED <<arg, iter>>
        BY Zenon, <2>10 DEF ResizeEnd
      <3>2. ~Resizing' /\ iter = -1
        BY ZenonT(60), <1>1, <3>1 DEF Resizing, KhInv, Phase
      <3> QED
        BY <2>3, <2>4, <2>6, <2>7, <3>1, <3>2
    <2>11. CASE InsSockPut
      <3>1. arg # None /\ ~Resizing /\ arg' = None /\ UNCHANGED <<n_buckets, new, iter>>
        BY Zenon, <2>11 DEF InsSockPut, resize
      <3>2. ~Resizing'
        BY ZenonT(60), <3>1 DEF Resizing
      <3> QED
        BY <2>3, <2>4, <2>6, <2>7, <3>1, <3>2
    <2>12. CASE CleanupClose
      <3>1. /\ UNCHANGED <<new, arg, n_buckets>> /\ ~Resizing /\ arg = None
            /\ iter \in 0 .. n_buckets - 1 /\ iter' = iter + 1
        BY Zenon, <1>1, <2>12, KhCleanupClose
      <3>2. ~Resizing'
        BY Zenon, <3>1 DEF Resizing
      <3> QED
        BY <2>3, <2>4, <2>6, <2>7, <3>1, <3>2
    <2>13. CASE CleanupDone
      <3>1. UNCHANGED <<new, arg>> /\ arg = None /\ ~Resizing /\ iter = n_buckets /\ iter' = -1
        BY Zenon, <1>1, <2>13, KhCleanupDone
      <3>2. ~Resizing'
        BY Zenon, <3>1 DEF Resizing
      <3> QED
        BY SMTT(60), <2>3, <2>4, <2>6, <2>7, <3>1, <3>2
    <2> QED
      BY Zenon, <2>1, <2>8, <2>9, <2>10, <2>11, <2>12, <2>13 DEF Running
  <1>2. KhInv /\ [Next]_vars => [~Idle => Work' < Work]_vars
    BY Zenon, <1>1
  <1> QED
    BY <1>2, KhInvAlways, PTL DEF Spec, WorkShrinks

-----------------------------------------------------------------------------
(* The table implements the map.                                           *)

\* Steps of kh_resize() move elements and leave the set of them alone.
LEMMA ResizeKeeps ==
    ASSUME KhInv, KhInv',
           ResizeTake \/ ResizePlace \/ ResizeEnd \/ \E p \in Key : InsSock(p)
    PROVE  Elements' = Elements /\ ret' = ret
  <1>1. Elements = {Element(i) : i \in Live(flags) \cup Live(new.flags)}
                     \cup (IF hand = NoHand THEN {} ELSE {hand})
    BY Zenon, ElementsLive
  <1>0. (Elements = {Element(i) : i \in Live(flags) \cup Live(new.flags)}
                      \cup (IF hand = NoHand THEN {} ELSE {hand}))'
    BY ElementsLive, PTL
  <1>2. \A i \in Live(flags) \cup Live(new.flags) : Element(i) # NoHand
    <2>1. \A i \in Live(flags) \cup Live(new.flags) : keys[i] \in Key
      BY ZenonT(60) DEF KhInv, Held
    <2> QED
      BY Zenon, <2>1, ConstAssumption DEF Element, NoHand
  <1>3. CASE ResizeTake
    <2>1. UNCHANGED <<keys, vals, new, ret>> /\ hand = NoHand
      BY Zenon, <1>3 DEF ResizeTake
    <2>2. \/ j \in Live(flags) /\ Live(flags)' = Live(flags) \ {j} /\ hand' = Element(j)
          \/ UNCHANGED <<flags, hand>>
      BY Zenon, <1>3, KhResizeTake DEF Element
    <2>3. \A i : Element(i)' = Element(i)
      BY Zenon, <2>1 DEF Element
    <2>4. Live(new.flags)' = Live(new.flags)
      BY Zenon, <2>1
    <2> QED
      BY Zenon, <1>0, <1>1, <1>2, <2>1, <2>2, <2>3, <2>4
  <1>4. CASE ResizePlace
    <2> DEFINE x == PlaceSlot
    <2>1. /\ hand # NoHand /\ x \notin Live(new.flags) /\ ret' = ret
          /\ Live(flags)' = Live(flags) \ {x} /\ Live(new.flags)' = Live(new.flags) \cup {x}
          /\ keys' = [keys EXCEPT ![x] = hand.key] /\ vals' = [vals EXCEPT ![x] = hand.val]
          /\ hand' = IF x \in Live(flags) THEN Element(x) ELSE NoHand
          /\ x \in 0 .. new.n - 1
      BY Zenon, <1>4, KhResizePlace DEF Element
    <2>2. DOMAIN keys = 0 .. new.n - 1 /\ DOMAIN vals = 0 .. new.n - 1
      <3>1. Resizing
        BY ZenonT(60), <1>4 DEF ResizePlace
      <3> QED
        BY Zenon, <3>1 DEF KhInv, Shape
    <2>3. hand = [key |-> hand.key, val |-> hand.val]
      BY Zenon, <2>1 DEF KhInv, Held
    <2> HIDE DEF x
    <2>4. Live(flags) \cup Live(new.flags) \subseteq 0 .. new.n - 1
      <3>1. Resizing
        BY ZenonT(60), <1>4 DEF ResizePlace
      <3>2. /\ n_buckets \in Nat /\ new.n \in Nat /\ new.n >= n_buckets
            /\ DOMAIN flags = 0 .. n_buckets - 1 /\ DOMAIN new.flags = 0 .. new.n - 1
        BY Zenon, <3>1 DEF KhInv, Shape, Phase
      <3> QED
        BY <3>2 DEF Live
    <2>5. \A i \in 0 .. new.n - 1 : Element(i)' = IF i = x THEN hand ELSE Element(i)
      BY Zenon, <2>1, <2>2, <2>3 DEF Element
    <2>6. \A e : e \in Elements => e \in Elements'
      BY Zenon, <1>0, <1>1, <1>2, <2>1, <2>4, <2>5
    <2>7. \A e : e \in Elements' => e \in Elements
      BY Zenon, <1>0, <1>1, <1>2, <2>1, <2>4, <2>5
    <2> QED
      BY Zenon, <2>1, <2>6, <2>7
  <1>5. CASE ResizeEnd
    <2>1. /\ hand = NoHand /\ hand' = NoHand /\ UNCHANGED ret
          /\ Live(flags) = {} /\ Live(new.flags)' = {} /\ Live(flags)' = Live(new.flags)
          /\ \A i \in Live(new.flags) : keys'[i] = keys[i] /\ vals'[i] = vals[i]
      BY Zenon, <1>5, KhResizeEnd
    <2>2. \A i \in Live(new.flags) : Element(i)' = Element(i)
      BY Zenon, <2>1 DEF Element
    <2> QED
      BY Zenon, <1>0, <1>1, <2>1, <2>2
  <1>6. ASSUME NEW p \in Key, InsSock(p) PROVE Elements' = Elements /\ ret' = ret
    <2>1. Idle /\ arg' = p /\ UNCHANGED <<iter, ret>>
      BY ZenonT(60), <1>6 DEF InsSock
    <2>2. CASE ResizeBegin
      <3>1. /\ UNCHANGED <<flags, hand>> /\ Live(new.flags)' = {}
            /\ \A i \in Live(flags) : keys'[i] = keys[i] /\ vals'[i] = vals[i]
        BY ZenonT(60), <2>1, <2>2, KhResizeBegin
      <3>2. Live(new.flags) = {}
        BY <2>1 DEF Idle, KhInv, Phase, Resizing, NoNew, Empty, Live
      <3>3. \A i \in Live(flags) : Element(i)' = Element(i)
        BY Zenon, <3>1 DEF Element
      <3>4. Live(flags)' = Live(flags)
        BY Zenon, <3>1
      <3> QED
        BY Zenon, <1>0, <1>1, <2>1, <3>1, <3>2, <3>3, <3>4
    <2>3. CASE UNCHANGED <<table, resize>>
      BY Zenon, <2>1, <2>3 DEF Elements, Used, table, resize
    <2> QED
      BY Zenon, <1>6, <2>2, <2>3 DEF InsSock
  <1> QED
    BY Zenon, <1>3, <1>4, <1>5, <1>6

\* The table as a map, in this state and the next.
LEMMA AsMapOf == AsMap = MapOf(Elements) /\ AsMap' = MapOf(Elements')
BY Zenon DEF AsMap, MapOf

\* Outside a resize the elements are those in the live buckets.
LEMMA ElementsQuiet ==
    KhInv /\ ~Resizing /\ hand = NoHand => Elements = {Element(i) : i \in Live(flags)}
  <1>1. ~Resizing => Live(new.flags) = {}
    BY DEF Resizing, NoNew, Empty, Live
  <1> QED
    BY Zenon, <1>1, ElementsLive

\* kh_put() with the assignment to kh_val() is a Put of the map.
LEMMA PutRefines == ASSUME KhInv, InsSockPut PROVE Map!Next
  <1> DEFINE x == PutSlot(Tup[arg])
             t == Tup[arg]
             L == Live(flags)
             k == IF x \in L THEN keys[x] ELSE arg
             e == [key |-> k, val |-> arg]
             f(i) == [key |-> keys'[i], val |-> vals'[i]]
  <1>1. /\ KhInv' /\ arg \in Key /\ ~Resizing /\ ~Resizing' /\ hand = NoHand /\ hand' = NoHand
        /\ Live(flags)' = L \cup {x}
        /\ x \in L => Tup[keys[x]] = t /\ ret' = 0
        /\ x \notin L => (\A i \in L : Tup[keys[i]] # t) /\ ret' \in {1, 2}
        /\ keys'[x] = k /\ vals'[x] = arg
        /\ \A i \in L \ {x} : keys'[i] = keys[i] /\ vals'[i] = vals[i]
    BY ZenonT(60), KhInsSockPut
  <1>2. Elements = {Element(i) : i \in L}
    BY Zenon, <1>1, ElementsQuiet
  <1>3. (KhInv /\ ~Resizing /\ hand = NoHand => Elements = {Element(i) : i \in Live(flags)})'
    BY ElementsQuiet, PTL
  <1>4. Elements' = {f(i) : i \in L \cup {x}}
    BY Zenon, <1>1, <1>3 DEF Element
  <1>5. \A i, l \in L : Tup[keys[i]] = Tup[keys[l]] => i = l
    BY Zenon DEF KhInv, Held
  <1> HIDE DEF x, t, L
  <1>6. f(x) = e /\ \A i \in L \ {x} : f(i) = Element(i)
    BY Zenon, <1>1 DEF Element
  <1>7. \A i : Element(i).key = keys[i]
    BY Zenon DEF Element
  <1>8. \A i \in L : Tup[keys[i]] = t <=> i = x
    BY <1>1, <1>5
  <1>9. {d \in Elements : Tup[d.key] # t} = {Element(i) : i \in L \ {x}}
    BY <1>2, <1>7, <1>8
  <1>10. Elements' = {d \in Elements : Tup[d.key] # t} \cup {e}
    <2>1. Elements' = {Element(i) : i \in L \ {x}} \cup {e}
      BY Zenon, <1>4, <1>6
    <2> QED
      BY ZenonT(60), <1>9, <2>1
  <1>11. Apart(Elements)
    BY ZenonT(60), ElementsApart DEF Apart
  <1>12. Tup[e.key] = t
    BY Zenon, <1>1 DEF t
  <1> HIDE DEF e
  <1>13. AsMap' = [u \in (DOMAIN AsMap) \cup {t} |-> IF u # t THEN AsMap[u] ELSE e]
    <2>1. MapOf({d \in Elements : Tup[d.key] # t} \cup {e}) =
            [u \in (DOMAIN MapOf(Elements)) \cup {t} |-> IF u # t THEN MapOf(Elements)[u] ELSE e]
      BY ONLY SMT, <1>11, <1>12, MapOfPut
    <2> QED
      BY ONLY ZenonT(60), <1>10, <2>1, AsMapOf
  <1>14. /\ t \in DOMAIN AsMap <=> x \in L
         /\ x \in L => AsMap[t].key = keys[x]
    <2>1. DOMAIN AsMap = {Tup[d.key] : d \in Elements}
      BY ZenonT(60) DEF AsMap
    <2>2. t \in DOMAIN AsMap => x \in L
      BY <1>1, <1>2, <1>7, <2>1
    <2>3. ASSUME x \in L PROVE t \in DOMAIN AsMap /\ AsMap[t].key = keys[x]
      <3>1. Element(x) \in Elements /\ Tup[Element(x).key] = t
        BY Zenon, <1>1, <1>2, <1>7, <2>3
      <3>2. Tup[Element(x).key] \in DOMAIN AsMap /\ AsMap[Tup[Element(x).key]] = Element(x)
        BY ZenonT(60), <1>11, <3>1, AsMapOf, MapOfElement
      <3> QED
        BY Zenon, <1>7, <3>1, <3>2
    <2> QED
      BY ZenonT(60), <2>2, <2>3
  <1>15. e = [key |-> IF t \in DOMAIN AsMap THEN AsMap[t].key ELSE arg, val |-> arg]
    BY Zenon, <1>14 DEF e
  <1>16. ret' \in IF t \in DOMAIN AsMap THEN {0} ELSE {1, 2}
    BY Zenon, <1>1, <1>14
  <1>17. Map!Put(arg)
    BY Zenon, <1>13, <1>15, <1>16 DEF Map!Put, t
  <1> QED
    BY Zenon, <1>1, <1>17 DEF Map!Next

\* Taking the elements with the tuple of p away is a Del of the map.
LEMMA DelRefines ==
    ASSUME KhInv, NEW p \in Key, Elements' = {d \in Elements : Tup[d.key] # Tup[p]}, ret' = ret
    PROVE  Map!Next
  <1> DEFINE t == Tup[p]
  <1>1. Apart(Elements)
    BY Zenon, ElementsApart DEF Apart
  <1> HIDE DEF t
  <1>2. MapOf({d \in Elements : Tup[d.key] # t}) =
          [u \in (DOMAIN MapOf(Elements)) \ {t} |-> MapOf(Elements)[u]]
    BY ONLY Zenon, <1>1, MapOfDel
  <1>3. Elements' = {d \in Elements : Tup[d.key] # t}
    BY Zenon DEF t
  <1>4. AsMap' = [u \in (DOMAIN AsMap) \ {t} |-> AsMap[u]]
    BY ONLY Zenon, <1>2, <1>3, AsMapOf
  <1>5. Map!Del(p)
    BY Zenon, <1>4 DEF Map!Del, Map!Restrict, t
  <1> QED
    BY ZenonT(60), <1>5 DEF Map!Next

\* Every step of the table is a step of the map or leaves it as it is.
LEMMA MapStep == ASSUME KhInv, [Next]_vars PROVE [Map!Next]_(Map!mapVars)
  <1>1. KhInv'
    BY Zenon, KhNext
  <1>2. ASSUME Elements' = Elements, ret' = ret PROVE UNCHANGED Map!mapVars
    BY Zenon, <1>2, AsMapOf DEF Map!mapVars
  <1>3. CASE ResizeTake \/ ResizePlace \/ ResizeEnd \/ \E p \in Key : InsSock(p)
    BY ZenonT(60), <1>1, <1>2, <1>3, ResizeKeeps
  <1>4. ASSUME UNCHANGED <<table, resize>> PROVE Elements' = Elements
    BY Zenon, <1>4 DEF Elements, Used, table, resize
  <1>5. CASE Cleanup
    BY Zenon, <1>2, <1>4, <1>5 DEF Cleanup
  <1>6. CASE UNCHANGED vars
    BY Zenon, <1>2, <1>4, <1>6 DEF vars
  <1>7. CASE InsSockFails
    <2>1. Elements' = Elements /\ ret' = -1
      BY Zenon, <1>4, <1>7 DEF InsSockFails
    <2> QED
      BY Zenon, <2>1, AsMapOf DEF Map!Next, Map!PutFails
  <1>8. ASSUME Live(flags)' \subseteq Live(flags), ~Resizing, UNCHANGED <<keys, vals, new, hand>>
        PROVE  /\ Elements = {Element(i) : i \in Live(flags)}
               /\ Elements' = {Element(i) : i \in Live(flags)'}
    <2>1. hand = NoHand /\ ~Resizing'
      BY Zenon, <1>8 DEF KhInv, Phase, Resizing
    <2>2. (KhInv /\ ~Resizing /\ hand = NoHand => Elements = {Element(i) : i \in Live(flags)})'
      BY ElementsQuiet, PTL
    <2> QED
      BY Zenon, <1>1, <1>8, <2>1, <2>2, ElementsQuiet DEF Element
  <1>9. \A i : Element(i).key = keys[i]
    BY Zenon DEF Element
  <1>10. ASSUME NEW p \in Key, RemSock(p) PROVE Map!Next
    <2>1. /\ UNCHANGED <<keys, vals, new, hand, ret>> /\ ~Resizing
          /\ Live(flags)' = {i \in Live(flags) : Tup[keys[i]] # Tup[p]}
      BY Zenon, <1>10, KhRemSock
    <2>2. /\ Elements = {Element(i) : i \in Live(flags)}
          /\ Elements' = {Element(i) : i \in Live(flags)'}
      BY ZenonT(60), <1>8, <2>1
    <2>3. Elements' = {d \in Elements : Tup[d.key] # Tup[p]}
      BY <1>9, <2>1, <2>2
    <2> QED
      BY Zenon, <2>1, <2>3, DelRefines
  <1>11. CASE CleanupClose
    <2>1. UNCHANGED <<keys, vals, new, hand, ret>> /\ ~Resizing /\ Live(flags)' = Live(flags) \ {iter}
      BY Zenon, <1>11, KhCleanupClose
    <2>2. /\ Elements = {Element(i) : i \in Live(flags)}
          /\ Elements' = {Element(i) : i \in Live(flags)'}
      BY Zenon, <1>8, <2>1
    <2>3. CASE iter \in Live(flags)
      <3>1. /\ vals[iter] \in Key /\ Tup[vals[iter]] = Tup[keys[iter]]
            /\ \A i \in Live(flags) : Tup[keys[i]] = Tup[keys[iter]] => i = iter
        BY ZenonT(60), <2>3 DEF KhInv, Held
      <3>2. Elements' = {d \in Elements : Tup[d.key] # Tup[vals[iter]]}
        BY SMTT(60), <1>9, <2>1, <2>2, <3>1
      <3> QED
        BY Zenon, <2>1, <3>1, <3>2, DelRefines
    <2>4. CASE iter \notin Live(flags)
      <3>1. Live(flags)' = Live(flags)
        BY Zenon, <2>1, <2>4
      <3> QED
        BY Zenon, <1>2, <2>1, <2>2, <3>1
    <2> QED
      BY Zenon, <2>3, <2>4
  <1>12. CASE CleanupDone
    <2>1. /\ Live(flags) = {} /\ Live(new.flags) = {} /\ hand = NoHand /\ ret' = 0
          /\ Live(flags)' = {} /\ UNCHANGED <<new, hand>>
      BY Zenon, <1>12, KhCleanupDone
    <2>2. (KhInv => Elements = {Element(i) : i \in Live(flags) \cup Live(new.flags)}
                                 \cup (IF hand = NoHand THEN {} ELSE {hand}))'
      BY ElementsLive, PTL
    <2>3. Elements = {}
      BY Zenon, <2>1, ElementsLive
    <2>4. Elements' = {}
      BY Zenon, <1>1, <2>1, <2>2
    <2>5. DOMAIN AsMap = {} /\ AsMap' = AsMap
      <3>1. DOMAIN AsMap = {Tup[d.key] : d \in Elements}
        BY Zenon DEF AsMap
      <3> QED
        BY Zenon, <2>3, <2>4, <3>1, AsMapOf
    <2> QED
      BY Zenon, <2>1, <2>5 DEF Map!Next, Map!Release
  <1>13. CASE InsSockPut
    BY Zenon, <1>13, PutRefines
  <1> QED
    BY Zenon, <1>3, <1>5, <1>6, <1>7, <1>10, <1>11, <1>12, <1>13 DEF Next, Running

\* The empty table is the empty map.
LEMMA MapInit == ASSUME Init PROVE Map!Init
  <1>1. Elements = {}
    BY Zenon DEF Init, Elements, Used, Empty, NoNew
  <1>2. {Tup[d.key] : d \in Elements} = {}
    BY Zenon, <1>1
  <1>3. AsMap = [t \in {} |-> <<>>]
    BY Zenon, <1>2 DEF AsMap
  <1> QED
    BY ZenonT(60), <1>3 DEF Init, Map!Init

\* The hash table of khash.h implements the map of KhMap for any sockets, tuples and
\* hash values: kh_put() stores or overwrites exactly the entry of its key and
\* reports which it did, kh_del() takes exactly that entry away, a kh_put() that
\* finds no memory changes nothing, and no step of a rehash in place changes what
\* is stored, kicked-out elements included.
THEOREM TableIsMap == Spec => MapSpec
  <1>1. Init => Map!Init
    BY Zenon, MapInit
  <1>2. KhInv /\ [Next]_vars => [Map!Next]_(Map!mapVars)
    BY Zenon, MapStep
  <1> QED
    BY <1>1, <1>2, KhInvAlways, PTL DEF Spec, MapSpec, Map!Spec
=============================================================================
