--------------------------------- MODULE TxPool ---------------------------------
(***************************************************************************)
(* The node's transaction pool as far as the off-chain workers meet it: a   *)
(* set of transactions, each with the tag it provides.  A signed            *)
(* transaction provides <<account, nonce>>; an unsigned one provides what   *)
(* validate_unsigned says.  The pool is Substrate's, not this repository's. *)
(***************************************************************************)

\* The transactions that provide what tx provides: at most one of them may stay.
Rivals(pool, tx) == {other \in pool : other.tag = tx.tag}

\* Mutant: a pool that takes a second transaction with the same tag.
SubmitAny(pool, tx) == pool \cup {tx}

\* A transaction whose tag is already provided, at no lower priority, is
\* refused: the submission fails and the pool stays as it is.
Submit(pool, tx) == IF Rivals(pool, tx) = {} THEN pool \cup {tx} ELSE pool

\* One with a higher priority than its rivals takes their place.
Replace(pool, tx) == (pool \ Rivals(pool, tx)) \cup {tx}
===============================================================================
