---------------------------- MODULE WalletReads ----------------------------
(***************************************************************************)
(* A wallet's history read page by page while the ledger goes on: the      *)
(* transaction lists of internal/wallet and internal/payment.               *)
(*                                                                          *)
(* A page is a COUNT and then a SELECT ... ORDER BY created_at DESC LIMIT    *)
(* OFFSET: two statements on connections of the pool, each with a snapshot  *)
(* of its own, and postings commit between them and between two pages.  The *)
(* reader is the history page of the browser: it asks for the next page as  *)
(* long as the answer to the last one says that there is one.               *)
(***************************************************************************)
EXTENDS Ledger

CONSTANTS
  Queries,    \* lists that may be asked for
  PageLimit,  \* rows on a page, after the clamp
  AnyType     \* no ?type= filter

ASSUME QueriesAssumption ==
  /\ PageLimit \in Nat \ {0}
  /\ \A q \in Queries :
       /\ q.endpoint \in {"wallet", "payment"}
       /\ q.wallet \in Int
       /\ q.may_read \in BOOLEAN
       /\ q.type \in {"TRANSFER", "ISSUANCE", AnyType}
       /\ q.endpoint = "payment" => q.wallet \in Wallets

VARIABLES
  reader,  \* the list that is being read: its next statement, page and rows
  due      \* history: the rows that were there before the first COUNT

readVars == <<reader, due>>

-----------------------------------------------------------------------------
\* The statement a page begins with: the payment list has no wallet to check, it
\* takes the wallet from the token.
FirstStatement(q) == IF q.endpoint = "wallet" THEN "find" ELSE "count"

ReadInit ==
  /\ \E q \in Queries :
       reader = [pc |-> FirstStatement(q), query |-> q, page |-> 1,
                 total |-> 0, rows |-> 0, seen |-> {}]
  /\ due = {}

\* The WHERE clause: both sides of a transfer, and the type if one was given.
HistoryRows(q) ==
  {t \in transactions :
     /\ q.wallet \in {t.sender, t.receiver}
     /\ t.status # "FAILED"
     /\ q.type \in {AnyType, t.type}}

\* created_at of a transaction: like that of its credit, the time of BEGIN.
CreatedAt(t) ==
  CHOOSE c \in 0..clock :
    \E i \in 1..Len(entries[t.receiver]) :
      /\ entries[t.receiver][i].txn = t.id
      /\ entries[t.receiver][i].created_at = c

\* Other rows have the created_at of t.
Tied(t, rows) == \E u \in rows \ {t} : CreatedAt(u) = CreatedAt(t)

\* ORDER BY created_at DESC, and nothing more: newest first, and tied rows in any
\* order, which need not be that of the SELECT before.
Orders(rows) ==
  {place \in [rows -> 1..Cardinality(rows)] :
     \A t, u \in rows : t # u =>
       /\ place[t] # place[u]
       /\ CreatedAt(t) > CreatedAt(u) => place[t] < place[u]}

Offset(page) == (page - 1) * PageLimit

\* What LIMIT and OFFSET may cut out of the rows.
PageRows(rows, page) ==
  {{t \in rows : place[t] \in Offset(page) + 1 .. Offset(page) + PageLimit} :
     place \in Orders(rows)}

\* (wrong) the last, half-filled page is forgotten.
Pages_Floor(total) == total \div PageLimit

\* Rounded up; the wallet list says 1 and the payment list 0 of an empty one,
\* which end the reader alike.
Pages(total) == (total + PageLimit - 1) \div PageLimit

-----------------------------------------------------------------------------
\* FindByID and authorize, before each page of the wallet list.
FindByID ==
  /\ reader.pc = "find"
  /\ ConnectionFree
  /\ reader' = [reader EXCEPT !.pc =
       IF reader.query.wallet \notin Wallets THEN "ErrWalletNotFound"
       ELSE IF ~reader.query.may_read THEN "ErrAccessDenied"
       ELSE "count"]
  /\ UNCHANGED <<vars, due>>

CountRows ==
  /\ reader.pc = "count"
  /\ ConnectionFree
  /\ reader' = [reader EXCEPT !.pc = "select",
                              !.total = Cardinality(HistoryRows(reader.query))]
  /\ due' = IF reader.page = 1 THEN HistoryRows(reader.query) ELSE due
  /\ UNCHANGED vars

\* The page arrives; the button for the next one is enabled while
\* page < pagination.pages.
SelectPage ==
  /\ reader.pc = "select"
  /\ ConnectionFree
  /\ LET rows == HistoryRows(reader.query)
         more == reader.page < Pages(reader.total)
     IN \E got \in PageRows(rows, reader.page) :
          reader' = [reader EXCEPT
            !.seen = @ \cup got,
            !.rows = Cardinality(rows),
            !.pc   = IF more THEN FirstStatement(reader.query) ELSE "done",
            !.page = IF more THEN @ + 1 ELSE @]
  /\ UNCHANGED <<vars, due>>

\* Any of the queries may fail: the browser shows an error instead of the list.
ReadFails ==
  /\ reader.pc \in {"find", "count", "select"}
  /\ reader' = [reader EXCEPT !.pc = "error", !.page = 1, !.total = 0,
                              !.rows = 0, !.seen = {}]
  /\ due' = {}
  /\ UNCHANGED vars

ReadAdvance == FindByID \/ CountRows \/ SelectPage

ReadNext == ReadAdvance \/ ReadFails

-----------------------------------------------------------------------------
\* Whoever reads the history to its last page has seen every transaction that
\* was committed before he began, whatever commits between two pages and
\* wherever created_at puts it, but for two cases.  A posting came between the COUNT
\* and the SELECT of the last page (GetTransactionHistory and List take no snapshot
\* for the two): then the count is too small and the oldest row may be cut off.
\* Or the row shares its created_at with another: each SELECT orders the two anew,
\* and on two pages the same one may come twice, the other never.
PagesComplete ==
  (reader.pc = "done" /\ reader.rows = reader.total) =>
    \A t \in due \ reader.seen : Tied(t, HistoryRows(reader.query))
=============================================================================
