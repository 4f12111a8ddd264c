---------------------------- MODULE RandUniform ----------------------------
(***************************************************************************)
(* w_rand_uniform32() and w_rand_uniform64(): a random number below a      *)
(* bound, out of random words of which some are drawn again.  They differ  *)
(* in the largest word, UINT32_MAX or UINT64_MAX, which is a parameter.    *)
(***************************************************************************)
EXTENDS Integers

\* Words below min are drawn again.
RandMin(max, upper_bound) == (max - upper_bound) % upper_bound

\* The words that end the loop, and what is returned for word r.
Accepted(max, upper_bound) == {r \in 0 .. max : r >= RandMin(max, upper_bound)}
Returned(upper_bound, r) == r % upper_bound

\* The values w_rand_uniform32() and w_rand_uniform64() can return.
w_rand_uniform(max, upper_bound) ==
    IF upper_bound < 2 THEN {0}
    ELSE {Returned(upper_bound, r) : r \in Accepted(max, upper_bound)}

\* The ports pick_local_port() can return; low is 1024 and top UINT16_MAX.
pick_local_port(max, low, top) == {low + x : x \in w_rand_uniform(max, top - low)}
=============================================================================
