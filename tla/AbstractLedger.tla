--------------------------- MODULE AbstractLedger ---------------------------
(***************************************************************************)
(* What the ledger engine promises its callers (the header of               *)
(* internal/ledger/service.go): money moves in indivisible postings.  A     *)
(* posting takes effect at one instant, on wallets that are not frozen at   *)
(* that instant, from a balance that covers it at that instant, and at most *)
(* once per (sender, idempotency key).  There are no locks, no database     *)
(* transactions and no requests here: Ledger.tla, which has all of them, is *)
(* shown to implement this module.                                          *)
(***************************************************************************)
EXTENDS Integers

CONSTANTS
  Wallets,     \* ids of the wallet rows
  Ids,         \* transaction ids
  Keys,        \* idempotency keys a client may send, NoKey included
  Amounts,     \* amounts (in cents) a caller may name
  Opening,     \* [Wallets -> balance before the first posting]
  MaxBigint,   \* largest value of a BIGINT column
  NoKey,       \* SQL NULL in idempotency_key
  NoWallet     \* SQL NULL in sender_wallet_id

VARIABLES
  balance,      \* wallets.balance
  frozen,       \* wallets.is_frozen
  transactions, \* rows of the transactions table
  issuances     \* rows of the cbdc_issuance table

absVars == <<balance, frozen, transactions, issuances>>

AbsInit ==
  /\ balance = Opening
  /\ frozen = [w \in Wallets |-> FALSE]
  /\ transactions = {}
  /\ issuances = {}

FreshId(id) == \A t \in transactions : t.id # id

\* (wrong) the table has no unique index.
KeyUnused_NoIndex(s, k) == TRUE

KeyUnused(s, k) ==
  k = NoKey \/ \A t \in transactions : t.sender = s => t.key # k

\* One indivisible payment of `a` from wallet s to wallet r.
PostTransfer(id, s, r, a, k) ==
  /\ s # r
  /\ a > 0
  /\ ~frozen[s] /\ ~frozen[r]
  /\ balance[s] >= a
  /\ balance[r] + a <= MaxBigint
  /\ FreshId(id) /\ KeyUnused(s, k)
  /\ balance' = [balance EXCEPT ![s] = @ - a, ![r] = @ + a]
  /\ transactions' = transactions \cup
       {[id |-> id, type |-> "TRANSFER", status |-> "SETTLED",
         sender |-> s, receiver |-> r, amount |-> a, key |-> k]}
  /\ UNCHANGED <<frozen, issuances>>

\* One indivisible issuance of `a` into wallet r, with its issuance record.
PostIssue(id, r, a) ==
  /\ a > 0
  /\ ~frozen[r]
  /\ balance[r] + a <= MaxBigint
  /\ FreshId(id)
  /\ balance' = [balance EXCEPT ![r] = @ + a]
  /\ transactions' = transactions \cup
       {[id |-> id, type |-> "ISSUANCE", status |-> "SETTLED",
         sender |-> NoWallet, receiver |-> r, amount |-> a, key |-> NoKey]}
  /\ issuances' = issuances \cup
       {[txn |-> id, wallet |-> r, amount |-> a]}
  /\ UNCHANGED frozen

AbsSetFrozen(w) ==
  /\ frozen' = [frozen EXCEPT ![w] = ~@]
  /\ UNCHANGED <<balance, transactions, issuances>>

AbsNext ==
  \/ \E id \in Ids, s, r \in Wallets, a \in Amounts, k \in Keys :
       PostTransfer(id, s, r, a, k)
  \/ \E id \in Ids, r \in Wallets, a \in Amounts : PostIssue(id, r, a)
  \/ \E w \in Wallets : AbsSetFrozen(w)

AbsSpec == AbsInit /\ [][AbsNext]_absVars
=============================================================================
