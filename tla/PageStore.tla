---------------------------- MODULE PageStore ----------------------------
(***************************************************************************)
(* What the compressed page store of kernel/zram.rs promises its callers   *)
(* (kernel/reclaim.rs, the boot check of kernel/kernel.rs): a map from     *)
(* page index to the page last stored there.  reply is the Result of the   *)
(* last call.                                                              *)
(***************************************************************************)
CONSTANTS
    Index,      \* the indexes below max_pages
    Others,     \* indexes from max_pages on that callers may try
    Pages,      \* pages of at most PAGE_SIZE bytes
    TooLarge    \* pages of more

VARIABLES store, reply

NoPage == "NoPage"
Ok(p) == <<"Ok", p>>
Err(e) == <<e, NoPage>>

Init ==
    /\ store = [i \in Index |-> NoPage]
    /\ reply = Ok(NoPage)

store_page(i, p) ==
    /\ store' = IF i \in Index /\ p \in Pages THEN [store EXCEPT ![i] = p] ELSE store
    /\ reply' = IF i \notin Index THEN Err("PageIndexOutOfRange")
                ELSE IF p \notin Pages THEN Err("PageTooLarge") ELSE Ok(NoPage)

load_page(i) ==
    /\ reply' = IF i \in Index /\ store[i] # NoPage THEN Ok(store[i]) ELSE Err("MissingPage")
    /\ UNCHANGED store

invalidate_page(i) ==
    /\ store' = [j \in Index |-> IF j = i THEN NoPage ELSE store[j]]
    /\ reply' = Ok(NoPage)

Next ==
    \E i \in Index \cup Others :
      \/ load_page(i) \/ invalidate_page(i)
      \/ \E p \in Pages \cup TooLarge : store_page(i, p)

Spec == Init /\ [][Next]_<<store, reply>>
=============================================================================
