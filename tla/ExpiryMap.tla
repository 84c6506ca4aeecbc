------------------------------ MODULE ExpiryMap ------------------------------
(***************************************************************************)
(* A JavaScript Map from keys to expiry times, as the caches of the API    *)
(* and of the stream use it: it iterates in the order of first insertion,  *)
(* and a sweep drops expired entries from the front until it meets one     *)
(* that is not (src/api/stream.js, src/api/auth.js).                       *)
(***************************************************************************)
EXTENDS Integers, Sequences

Entry(K, T) == [key : K, exp : T]

Has(m, k) == \E i \in DOMAIN m : m[i].key = k

(* Map.set: a key that is there keeps its place.                            *)
Put(m, k, exp) ==
  IF Has(m, k) THEN [i \in DOMAIN m |-> IF m[i].key = k THEN [m[i] EXCEPT !.exp = exp] ELSE m[i]]
  ELSE Append(m, [key |-> k, exp |-> exp])

Live(m, now) == {i \in DOMAIN m : m[i].exp > now}

Sweep(m, now) ==
  IF Live(m, now) = {} THEN <<>>
  ELSE SubSeq(m, CHOOSE i \in Live(m, now) : \A j \in Live(m, now) : i <= j, Len(m))

(* The keys whose time has not come.                                        *)
LiveKeys(m, now) == {m[i].key : i \in Live(m, now)}

(* What the early exit of the sweep relies on.                              *)
Ordered(m) == \A i, j \in DOMAIN m : i < j => m[i].exp <= m[j].exp

Distinct(m) == \A i, j \in DOMAIN m : m[i].key = m[j].key => i = j
=============================================================================
