------------------------------- MODULE Drafts -------------------------------
(***************************************************************************)
(* The order drafts and the trades that fill them (backend/app/services/   *)
(* draft_service.py, draft_generator.py, sell_trigger.py and               *)
(* routers/drafts.py) on top of Ledger.                                    *)
(*                                                                         *)
(* A transaction on drafts is a transaction of Ledger with a second part,  *)
(* in dtx, that says what it will write to the drafts.  The execution of a *)
(* draft writes both tables in one transaction.                            *)
(***************************************************************************)
EXTENDS Ledger

CONSTANTS
    TTL,           \* the days a BUY draft is valid
    MaxDrafts      \* bound: the rows of drafts

ASSUME DraftConstants == TTL \in Nat /\ MaxDrafts \in Nat /\ IsFiniteSet(Stock)

VARIABLES
    drafts,        \* the table drafts in the order of the ids
    dtx,           \* [Client -> DraftTx]
    invalid        \* the stocks whose thesis the tracker has found INVALIDATED

draftVars == <<drafts, dtx, invalid>>
vars == <<ledgerVars, draftVars>>

DraftId == 1..MaxDrafts
DraftStatus == {"pending", "executed", "cancelled", "superseded"}

\* part: reduce_pct_of_position is below 1; until: expires_at, LastDay for NULL.
Draft == [stock : Stock, side : {"BUY", "SELL"}, status : DraftStatus,
          part : BOOLEAN, until : Nat]

\* What a transaction will write: new statuses, new ratios, new rows, and the
\* thesis it has found broken.  fills is the draft it executes (0 for none),
\* and locked says that its UPDATE of that draft is flushed.
NoWrites == [to |-> <<>>, cut |-> <<>>, new |-> <<>>, broken |-> {},
             fills |-> 0, locked |-> FALSE]

\* The drafts of side for a stock of S that are pending.
PendingOf(S, side) ==
    {i \in DOMAIN drafts : /\ drafts[i].stock \in S /\ drafts[i].side = side
                           /\ drafts[i].status = "pending"}

To(ids, st) == [i \in ids |-> st]

NewDraft(s, side, part, until) ==
    [stock |-> s, side |-> side, status |-> "pending", part |-> part, until |-> until]

\* New rows, one for each stock of S, in some order.
RowsEach(S, side, part, until) ==
    LET order == SetToSeq(S)
    IN  [k \in DOMAIN order |-> NewDraft(order[k], side, part, until)]

DraftInit == LedgerInit /\ drafts = <<>> /\ dtx = [c \in Client |-> NoWrites] /\ invalid = {}

\* A transaction begins and has read what it needs: w is what it will write.
BeginDraft(c, w) ==
    /\ Len(drafts) + Len(w.new) <= MaxDrafts
    /\ Open(c, Begin("other"))
    /\ dtx' = [dtx EXCEPT ![c] = w]
    /\ UNCHANGED <<drafts, invalid>>
-----------------------------------------------------------------------------
(* What users do.                                                           *)

\* Mutants of BeginExecute and BeginCancel: whatever the status of the draft.
BeginExecuteAny(c, i) ==
    /\ i \in DOMAIN drafts
    /\ BeginDraft(c, [NoWrites EXCEPT !.to = To({i}, "executed"), !.fills = i])

BeginCancelAny(c, i) ==
    /\ i \in DOMAIN drafts
    /\ BeginDraft(c, [NoWrites EXCEPT !.to = To({i}, "cancelled")])

\* draft_service.execute and cancel up to their checks.
BeginExecute(c, i) ==
    /\ i \in DOMAIN drafts /\ drafts[i].status = "pending"
    /\ BeginDraft(c, [NoWrites EXCEPT !.to = To({i}, "executed"), !.fills = i])

BeginCancel(c, i) ==
    /\ i \in DOMAIN drafts /\ drafts[i].status = "pending"
    /\ BeginDraft(c, [NoWrites EXCEPT !.to = To({i}, "cancelled")])

\* No other transaction has a flushed UPDATE of one of the drafts.
NoLockOn(c, ids) == \A d \in Client \ {c} : ~(dtx[d].locked /\ dtx[d].fills \in ids)

\* The flush of execute.  The draft is not read again when the lock is granted.
FlushExecute(c) ==
    /\ dtx[c].fills # 0 /\ ~dtx[c].locked
    /\ NoLockOn(c, {dtx[c].fills})
    /\ dtx' = [dtx EXCEPT ![c].locked = TRUE]
    /\ UNCHANGED <<ledgerVars, drafts, invalid>>

\* execute_draft with a price and a quantity, which are the user's: record_trade
\* in the same session.  If it fails, so does the request (DraftRollback).
Fill(c, o, d) ==
    /\ dtx[c].locked /\ tx[c].op = "other"
    /\ o.stock = drafts[dtx[c].fills].stock /\ o.side = drafts[dtx[c].fills].side
    /\ Room /\ Admissible(o, d)
    /\ Step(c, [TradeTx(o, d, dtx[c].fills) EXCEPT !.fresh = tx[c].fresh])
    /\ UNCHANGED draftVars
-----------------------------------------------------------------------------
(* What the tasks do.                                                       *)

\* Mutant of BeginGenerate: the pending drafts of the stocks are left pending.
BeginGenerateBeside(c, S) ==
    LET old == {i \in PendingOf(Stock, "BUY") : drafts[i].until < today}
    IN  /\ S # {} \/ old # {}
        /\ BeginDraft(c, [NoWrites EXCEPT
              !.to = To(old, "cancelled"),
              !.new = RowsEach(S, "BUY", FALSE, today + TTL)])

\* generate_buy_drafts, for the stocks S whose report, price, cash and weight
\* allow a BUY: expired drafts are cancelled, the pending ones of S superseded.
\* It looks at no thesis.
BeginGenerate(c, S) ==
    LET old == {i \in PendingOf(Stock, "BUY") : drafts[i].until < today}
        rest == PendingOf(S, "BUY") \ old
    IN  /\ S # {} \/ old # {}
        /\ BeginDraft(c, [NoWrites EXCEPT
              !.to = [i \in old \cup rest |-> IF i \in old THEN "cancelled" ELSE "superseded"],
              !.new = RowsEach(S, "BUY", FALSE, today + TTL)])

\* Mutant of BeginBreach: a pending SELL draft is left as it is.
BeginBreachKeeps(c, S, part, Broken) ==
    LET open == {s \in S : Held(trades, s) # 0}
        covered == {drafts[i].stock : i \in PendingOf(open, "SELL")}
    IN  /\ open # {}
        /\ BeginDraft(c, [NoWrites EXCEPT
              !.to = To(PendingOf(open, "BUY"), "superseded"),
              !.new = RowsEach(open \ covered, "SELL", part, LastDay),
              !.broken = Broken])

\* create_thesis_breach_sell_draft for the stocks S, as far as they are held:
\* for the one whose thesis has broken, to sell all of it, or by sell_trigger
\* for those overvalued or overweight, to sell a part.  A pending SELL draft is
\* updated, and two of them for one stock are an error.
BeginBreach(c, S, part, Broken) ==
    LET open == {s \in S : Held(trades, s) # 0}
        sells == PendingOf(open, "SELL")
        covered == {drafts[i].stock : i \in sells}
    IN  /\ open # {}
        /\ \A i, j \in sells : drafts[i].stock = drafts[j].stock => i = j
        /\ BeginDraft(c, [NoWrites EXCEPT
              !.to = To(PendingOf(open, "BUY"), "superseded"),
              !.cut = [i \in sells |-> part],
              !.new = RowsEach(open \ covered, "SELL", part, LastDay),
              !.broken = Broken])

\* The thesis tracker, whose first step is to look whether the stock is held;
\* run_all_signals.  (The other callers are called by no one.)
ThesisBreach(c, s) == Held(trades, s) > 0 /\ BeginBreach(c, {s}, FALSE, {s})
SellTrigger(c, S) == BeginBreach(c, S, TRUE, {})
-----------------------------------------------------------------------------
\* Both parts are committed, with the columns the session has changed.
DraftCommit(c) ==
    LET w == dtx[c] IN
    /\ Commit(c)
    /\ w.fills # 0 => w.locked
    /\ NoLockOn(c, DOMAIN w.to \cup DOMAIN w.cut)
    /\ drafts' = [i \in DOMAIN drafts |->
                    [drafts[i] EXCEPT
                        !.status = IF i \in DOMAIN w.to THEN w.to[i] ELSE @,
                        !.part = IF i \in DOMAIN w.cut THEN w.cut[i] ELSE @]] \o w.new
    /\ invalid' = invalid \cup w.broken
    /\ dtx' = [dtx EXCEPT ![c] = NoWrites]

\* The session rolls back, both parts: the request fails, record_trade rejects
\* the trade, or the process dies.
DraftRollback(c) ==
    /\ Rollback(c)
    /\ dtx' = [dtx EXCEPT ![c] = NoWrites]
    /\ UNCHANGED <<drafts, invalid>>

\* Mutant of DraftReadCash: a trade that the balance does not cover leaves the draft's part open.
DraftReadCashHalf(c) == ReadCash(c) /\ UNCHANGED draftVars

\* The balance is read, for a trade with a draft as for one without.
DraftReadCash(c) ==
    /\ ReadCash(c)
    /\ dtx' = IF tx'[c] = Idle THEN [dtx EXCEPT ![c] = NoWrites] ELSE dtx
    /\ UNCHANGED <<drafts, invalid>>

\* Of the entries of Ledger the one that changes what this module looks at.
Enter(c) == (\E o \in Order : BeginTrade(c, o, today)) /\ UNCHANGED draftVars

ServeDraft(c) ==
    \/ Enter(c)
    \/ \E i \in DraftId : BeginExecute(c, i) \/ BeginCancel(c, i)
    \/ FlushExecute(c) \/ \E o \in Order : Fill(c, o, today)
    \/ \E S \in SUBSET Stock : BeginGenerate(c, S) \/ SellTrigger(c, S)
    \/ \E s \in Stock : ThesisBreach(c, s)
    \/ DraftReadCash(c) \/ DraftCommit(c) \/ DraftRollback(c)

Next ==
    \/ NextDay /\ UNCHANGED draftVars
    \/ \E c \in Client : ServeDraft(c)

Spec == DraftInit /\ [][Next]_vars
-----------------------------------------------------------------------------
(* Safety.                                                                  *)

Fills(i) == {k \in DOMAIN trades : trades[k].source = "manual" /\ trades[k].ref = i}

\* Types, and that a session that writes drafts is one that is open.
DraftsTypeOK ==
    /\ drafts \in Seq(Draft)
    /\ invalid \subseteq Stock
    /\ \A c \in Client : IF tx[c] = Idle THEN dtx[c] = NoWrites
                         ELSE dtx[c].fills # 0 /\ tx[c].op = "trade"
                                  => dtx[c].locked /\ tx[c].new[1].ref = dtx[c].fills

\* A draft that a trade has filled is never offered again, whatever the other
\* sessions do to it; unless transactions have overlapped it is executed, and
\* filled by one trade only.
FilledOnce ==
    \A i \in DOMAIN drafts : Fills(i) # {} =>
        /\ drafts[i].status # "pending"
        /\ ~overlapped => drafts[i].status = "executed" /\ Cardinality(Fills(i)) = 1

\* Unless transactions have overlapped, a stock has at most one pending BUY and
\* one pending SELL draft, through generator, triggers, users and expiry.
OneOpenDraft ==
    ~overlapped => \A s \in Stock, side \in {"BUY", "SELL"} :
                       Cardinality(PendingOf({s}, side)) <= 1

\* Unless transactions have overlapped, a draft that has left "pending" keeps
\* the status it got.
SettledDraftIsFinal ==
    [][\A i \in DOMAIN drafts :
          drafts[i].status # "pending" /\ ~overlapped'
              => drafts'[i].status = drafts[i].status]_vars

\* When the breach of a held stock's thesis is committed, no BUY draft of it is
\* pending and a SELL draft is, for all of the position, unless transactions
\* have overlapped.
BreachSells ==
    [][\A c \in Client, s \in Stock :
          (/\ s \in dtx[c].broken /\ dtx'[c] = NoWrites /\ drafts' # drafts
           /\ ~overlapped' /\ Held(trades, s) # 0)
              => \E i \in DOMAIN drafts' :
                    /\ drafts'[i].stock = s /\ drafts'[i].side = "SELL"
                    /\ drafts'[i].status = "pending" /\ ~drafts'[i].part
                    /\ \A j \in DOMAIN drafts' :
                          ~(/\ drafts'[j].stock = s /\ drafts'[j].side = "BUY"
                            /\ drafts'[j].status = "pending")]_vars
-----------------------------------------------------------------------------
(* What the documents say and the code does not do.                         *)

\* draft_generator: a BUY draft only if the thesis was not marked INVALIDATED.
NoBuyOnInvalidThesis ==
    [][\A i \in DOMAIN drafts' \ DOMAIN drafts :
          drafts'[i].side = "BUY" => drafts'[i].stock \notin invalid]_vars
=============================================================================
