---------------------------- MODULE MCLiveBalance ----------------------------
(* Small instances of LiveBalance. *)
EXTENDS LiveBalance

AnnIsPaid == [w \in Wallets |-> IF w = "ann" THEN 2 ELSE 0]

\* Bound: a tab whose effect was run twice has one payment and no request that
\* meets an expired token.
MCNext ==
  /\ Next
  /\ rerun' => /\ posted'["ann"] <= 1
               /\ sent' + queue' = 0 /\ ~isRefreshing' /\ ~leaving'

MCSpec == Init /\ [][MCNext]_vars /\ Fairness

\* Where browsers are refused no effect needs to be run twice.
MCNetworkSpec ==
  /\ Init /\ [][Next /\ ~rerun']_vars
  /\ Fairness /\ \A s \in Sockets : SF_vars(Open(s))
=============================================================================
