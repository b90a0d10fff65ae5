---------------------- MODULE ReservationLedger_proofs ----------------------
(***************************************************************************)
(* Proofs about ReservationLedger, for every set of days, tables, minutes, *)
(* holds, entries and visits.                                              *)
(*                                                                         *)
(* The inductive invariant is TypeOK and ClaimsMatchOwners.  The ledger of *)
(* claims is compared with the rows of its owners through two functions:   *)
(* what each owner asks for (Ask) and until when (Due).  A transaction is  *)
(* a cleanup, releases and one insertion, and each of these keeps a ledger *)
(* in agreement with suitably changed functions.  The rebuild alone writes *)
(* a whole ledger: it agrees because no cell is covered twice.             *)
(*                                                                         *)
(* For the action properties and the refinement every step is first brought *)
(* to one of thirteen kinds (StepKinds), then each kind is looked at once:   *)
(* what it does to rows (RowsMove), to claims (NewClaimsAreNotLive) and to  *)
(* the abstract inventory (InventoryStep).                                  *)
(***************************************************************************)
EXTENDS ReservationLedger, TLAPS

-----------------------------------------------------------------------------
(* Ledgers that agree with what their owners ask for.                       *)

Ask(H, W, T) ==
    [o \in Owners |-> IF o \in Holds THEN HoldCells(H[o])
                      ELSE IF o \in Waits THEN WaitCells(W[o])
                      ELSE TerminCells(T[o])]

Due(H, W) ==
    [o \in Owners |-> IF o \in Holds THEN H[o].exp
                      ELSE IF o \in Waits THEN W[o].exp
                      ELSE NoDeadline]

Agree(C, ask, due) ==
    \A c \in Cells :
        /\ \A o \in Owners : C[c].owner = o <=> c \in ask[o]
        /\ C[c].exp = IF C[c].owner = Nobody THEN NoDeadline ELSE due[C[c].owner]

\* Only the owner o may have changed what it asks for, and the deadline of
\* everybody else who asks for something is the same.
SameButFor(o, ask, due, ask2, due2) ==
    \A p \in Owners \ {o} : ask2[p] = ask[p] /\ (ask[p] # {} => due2[p] = due[p])

\* Releasing an owner who from now on asks for nothing keeps the agreement.
LEMMA ReleasedAgrees ==
    ASSUME NEW C \in [Cells -> Claims], NEW ask, NEW due, NEW ask2, NEW due2,
           NEW o \in Owners,
           Agree(C, ask, due), SameButFor(o, ask, due, ask2, due2), ask2[o] = {}
    PROVE  /\ Agree(Released(C, o), ask2, due2)
           /\ Released(C, o) \in [Cells -> Claims]
           /\ \A c \in Cells : Released(C, o)[c].owner # o
<1>1. Released(C, o) \in [Cells -> Claims]
  BY LedgerAssumption DEF Released, Claims, FreeClaim, NoDeadline, Deadlines
<1>2. ASSUME NEW c \in Cells
      PROVE  /\ \A p \in Owners : Released(C, o)[c].owner = p <=> c \in ask2[p]
             /\ Released(C, o)[c].exp = IF Released(C, o)[c].owner = Nobody THEN NoDeadline
                                        ELSE due2[Released(C, o)[c].owner]
             /\ Released(C, o)[c].owner # o
  <2>1. Nobody \notin Owners
    BY LedgerAssumption DEF Owners
  <2>2. C[c] \in Claims
    OBVIOUS
  <2>3. CASE C[c].owner = o
    <3>1. Released(C, o)[c] = FreeClaim
      BY <2>3 DEF Released
    <3>2. \A p \in Owners \ {o} : c \notin ask2[p]
      BY <2>3 DEF Agree, SameButFor
    <3> QED BY <3>1, <3>2, <2>1 DEF FreeClaim
  <2>4. CASE C[c].owner # o
    <3>1. Released(C, o)[c] = C[c]
      BY <2>4 DEF Released
    <3>2. \A p \in Owners : C[c].owner = p <=> c \in ask2[p]
      BY <2>4 DEF Agree, SameButFor
    <3>3. CASE C[c].owner = Nobody
      BY <3>1, <3>2, <3>3, <2>4 DEF Agree
    <3>4. CASE C[c].owner # Nobody
      <4>1. C[c].owner \in Owners \ {o}
        BY <3>4, <2>4, <2>2 DEF Claims
      <4>2. c \in ask[C[c].owner]
        BY <4>1 DEF Agree
      <4>3. due2[C[c].owner] = due[C[c].owner]
        BY <4>1, <4>2 DEF SameButFor
      <4> QED BY <3>1, <3>2, <3>4, <4>3, <2>4 DEF Agree
    <3> QED BY <3>3, <3>4
  <2> QED BY <2>3, <2>4
<1> QED BY <1>1, <1>2 DEF Agree

\* Inserting the cells of an owner who had none keeps the agreement, when none
\* of them is taken.
LEMMA InsertedAgrees ==
    ASSUME NEW C \in [Cells -> Claims], NEW ask, NEW due, NEW ask2, NEW due2,
           NEW o \in Owners, NEW e \in Deadlines,
           Agree(C, ask, due), SameButFor(o, ask, due, ask2, due2),
           ask[o] = {}, ask2[o] \subseteq Cells, due2[o] = e,
           Insertable(C, ask2[o])
    PROVE  /\ Agree(Inserted(C, ask2[o], o, e), ask2, due2)
           /\ Inserted(C, ask2[o], o, e) \in [Cells -> Claims]
<1> DEFINE I == Inserted(C, ask2[o], o, e)
<1>0. Nobody \notin Owners
  BY LedgerAssumption DEF Owners
<1>1. I \in [Cells -> Claims]
  BY DEF Inserted, Claims
<1>2. ASSUME NEW c \in Cells
      PROVE  /\ \A p \in Owners : I[c].owner = p <=> c \in ask2[p]
             /\ I[c].exp = IF I[c].owner = Nobody THEN NoDeadline ELSE due2[I[c].owner]
  <2>2. C[c] \in Claims
    OBVIOUS
  <2>3. CASE c \in ask2[o]
    <3>1. I[c] = [owner |-> o, exp |-> e]
      BY <2>3 DEF Inserted
    <3>2. C[c].owner = Nobody
      BY <2>3 DEF Insertable
    <3>3. \A p \in Owners \ {o} : c \notin ask2[p]
      BY <3>2, <1>0 DEF Agree, SameButFor
    <3> QED BY <3>1, <3>3, <2>3, <1>0
  <2>4. CASE c \notin ask2[o]
    <3>1. I[c] = C[c]
      BY <2>4 DEF Inserted
    <3>0. C[c].owner # o
      BY DEF Agree
    <3>2. \A p \in Owners : C[c].owner = p <=> c \in ask2[p]
      BY <2>4, <3>0 DEF Agree, SameButFor
    <3>3. CASE C[c].owner = Nobody
      BY <3>1, <3>2, <3>3 DEF Agree
    <3>4. CASE C[c].owner # Nobody
      <4>1. C[c].owner \in Owners \ {o}
        BY <3>4, <3>0, <2>2 DEF Claims
      <4>2. c \in ask[C[c].owner]
        BY <4>1 DEF Agree
      <4>3. due2[C[c].owner] = due[C[c].owner]
        BY <4>1, <4>2 DEF SameButFor
      <4> QED BY <3>1, <3>2, <3>4, <4>3 DEF Agree
    <3> QED BY <3>3, <3>4
  <2> QED BY <2>3, <2>4
<1> QED BY <1>1, <1>2 DEF Agree

\* A release of o and an insertion for p, who is o or asked for nothing.
LEMMA ReplacedAgrees ==
    ASSUME NEW C \in [Cells -> Claims], NEW ask \in [Owners -> SUBSET Cells], NEW due,
           NEW ask2, NEW due2, NEW o \in Owners, NEW p \in Owners, NEW e \in Deadlines,
           Agree(C, ask, due),
           p = o \/ ask[p] = {},
           p # o => ask2[o] = {},
           \A q \in Owners \ {o, p} : ask2[q] = ask[q] /\ (ask[q] # {} => due2[q] = due[q]),
           ask2[p] \subseteq Cells, due2[p] = e,
           Insertable(Released(C, o), ask2[p])
    PROVE  /\ Agree(Inserted(Released(C, o), ask2[p], p, e), ask2, due2)
           /\ Inserted(Released(C, o), ask2[p], p, e) \in [Cells -> Claims]
<1> DEFINE ask1 == [ask EXCEPT ![o] = {}]
<1>1. SameButFor(o, ask, due, ask1, due) /\ ask1[o] = {}
  BY DEF SameButFor
<1>2. Agree(Released(C, o), ask1, due) /\ Released(C, o) \in [Cells -> Claims]
  <2> HIDE DEF ask1
  <2> QED BY <1>1, ReleasedAgrees
<1>3. ask1[p] = {}
  OBVIOUS
<1>4. SameButFor(p, ask1, due, ask2, due2)
  BY DEF SameButFor
<1> HIDE DEF ask1
<1> QED BY <1>2, <1>3, <1>4, InsertedAgrees

-----------------------------------------------------------------------------
(* The inductive invariant.                                                 *)

IInv == TypeOK /\ Agree(claims, Ask(hold, wait, termin), Due(hold, wait))

\* The named invariant of the model is the agreement.
LEMMA MatchIsAgreement ==
    TypeOK => (ClaimsMatchOwners <=> Agree(claims, Ask(hold, wait, termin), Due(hold, wait)))
<1> SUFFICES ASSUME TypeOK
             PROVE  ClaimsMatchOwners <=> Agree(claims, Ask(hold, wait, termin), Due(hold, wait))
  OBVIOUS
<1>0. /\ Holds \cap Waits = {} /\ Holds \cap Termins = {} /\ Waits \cap Termins = {}
      /\ Nobody \notin Owners
  BY LedgerAssumption DEF Owners
<1>1. \A o \in Owners : Ask(hold, wait, termin)[o] = Asked(o) /\ Asked(o) \subseteq Cells
  <2> SUFFICES ASSUME NEW o \in Owners
               PROVE  Ask(hold, wait, termin)[o] = Asked(o) /\ Asked(o) \subseteq Cells
    OBVIOUS
  <2>1. CASE o \in Holds
    BY <2>1, <1>0 DEF Ask, Asked, HoldCells, CellsOf
  <2>2. CASE o \in Waits
    BY <2>2, <1>0 DEF Ask, Asked, WaitCells, CellsOf
  <2>3. CASE o \in Termins
    BY <2>3, <1>0 DEF Ask, Asked, TerminCells, CellsOf
  <2> QED BY <2>1, <2>2, <2>3 DEF Owners
<1>2. \A o \in Owners : Due(hold, wait)[o] = DeadlineOf(o)
  <2> SUFFICES ASSUME NEW o \in Owners PROVE Due(hold, wait)[o] = DeadlineOf(o)
    OBVIOUS
  <2>1. CASE o \in Holds
    BY <2>1, <1>0 DEF Due, DeadlineOf
  <2>2. CASE o \in Waits
    BY <2>2, <1>0 DEF Due, DeadlineOf
  <2>3. CASE o \in Termins
    BY <2>3, <1>0 DEF Due, DeadlineOf
  <2> QED BY <2>1, <2>2, <2>3 DEF Owners
<1>3. \A c \in Cells : claims[c].owner \in Owners \cup {Nobody}
  BY DEF TypeOK, Claims
<1>4. ClaimsMatchOwners => Agree(claims, Ask(hold, wait, termin), Due(hold, wait))
  <2> SUFFICES ASSUME ClaimsMatchOwners, NEW c \in Cells
               PROVE  /\ \A o \in Owners : claims[c].owner = o <=> c \in Ask(hold, wait, termin)[o]
                      /\ claims[c].exp = IF claims[c].owner = Nobody THEN NoDeadline
                                         ELSE Due(hold, wait)[claims[c].owner]
    BY DEF Agree
  <2>1. \A o \in Owners : claims[c].owner = o <=> c \in Ask(hold, wait, termin)[o]
    BY <1>1 DEF ClaimsMatchOwners
  <2> QED BY <2>1, <1>2, <1>3 DEF ClaimsMatchOwners
<1>5. Agree(claims, Ask(hold, wait, termin), Due(hold, wait)) => ClaimsMatchOwners
  <2> SUFFICES ASSUME Agree(claims, Ask(hold, wait, termin), Due(hold, wait))
               PROVE  ClaimsMatchOwners
    OBVIOUS
  <2>1. ASSUME NEW o \in Owners PROVE {c \in Cells : claims[c].owner = o} = Asked(o)
    BY <1>1 DEF Agree
  <2>2. ASSUME NEW c \in Cells
        PROVE  claims[c].exp = IF claims[c].owner = Nobody THEN NoDeadline
                                                           ELSE DeadlineOf(claims[c].owner)
    BY <1>2, <1>3 DEF Agree
  <2> QED BY <2>1, <2>2 DEF ClaimsMatchOwners
<1> QED BY <1>4, <1>5

\* The rows and claims after the cleanup of the days D, as the rest of the
\* transaction finds them, and the clock against the deadlines.
CleanedAgree(D) ==
    /\ ExpirePublicHolds(D) \in [Holds -> HoldRows]
    /\ ExpireWaits(D) \in [Waits -> WaitRows]
    /\ CleanupExpiredHolds(D) \in [Cells -> Claims]
    /\ Agree(CleanupExpiredHolds(D), Ask(ExpirePublicHolds(D), ExpireWaits(D), termin),
             Due(ExpirePublicHolds(D), ExpireWaits(D)))

LEMMA BlankRows ==
    /\ BlankHold \in HoldRows /\ BlankWait \in WaitRows /\ BlankTermin \in TerminRows
    /\ FreeClaim \in Claims
    /\ AnyDay \in Days /\ AnySpan \in Spans /\ NoDeadline \in Deadlines
    /\ MaxTime < NoDeadline
    /\ Holds \cap Waits = {} /\ Holds \cap Termins = {} /\ Waits \cap Termins = {}
    /\ Nobody \notin Owners
<1>1. AnyDay \in Days /\ AnySpan \in Spans
  <2>1. Spans # {}
    <3>1. PICK w \in Windows : TRUE
      BY LedgerAssumption
    <3>2. PICK b \in Buffers : TRUE
      BY LedgerAssumption
    <3>3. [visit |-> w, buffer |-> b] \in Spans
      BY <3>1, <3>2 DEF Spans
    <3> QED BY <3>3
  <2> QED BY <2>1, LedgerAssumption DEF AnyDay, AnySpan
<1>2. NoDeadline \in Deadlines /\ MaxTime < NoDeadline
  BY LedgerAssumption DEF NoDeadline, Deadlines
<1>3. "-" \in Fazy
  BY DEF Fazy, HOST_PRZEJSCIA
<1> QED BY <1>1, <1>2, <1>3, LedgerAssumption
        DEF BlankHold, BlankWait, BlankTermin, FreeClaim, HoldRows, WaitRows, TerminRows,
            Claims, Owners

LEMMA CleanupAgrees ==
    ASSUME IInv, NEW D \in SUBSET Days
    PROVE  CleanedAgree(D)
<1> DEFINE H == ExpirePublicHolds(D)
           W == ExpireWaits(D)
           C == CleanupExpiredHolds(D)
           ask == Ask(hold, wait, termin)
           due == Due(hold, wait)
           Gone == ExpiredHolds(D) \cup ExpiredWaits(D)
<1>1. H \in [Holds -> HoldRows]
  BY BlankRows DEF ExpirePublicHolds, IInv, TypeOK, BlankHold, HoldRows
<1>2. W \in [Waits -> WaitRows]
  BY BlankRows DEF ExpireWaits, IInv, TypeOK, WithoutHold, WaitRows
<1>3. C \in [Cells -> Claims]
  BY BlankRows DEF CleanupExpiredHolds, IInv, TypeOK
<1>4. \A c \in Cells : C[c] = IF claims[c].owner \in Gone THEN FreeClaim ELSE claims[c]
  <2> SUFFICES ASSUME NEW c \in Cells
               PROVE  (claims[c].owner \in Gone) <=>
                        \/ claims[c].owner \in ExpiredHolds(D)
                        \/ /\ claims[c].owner \in Waits
                           /\ c[1] \in D
                           /\ claims[c].exp <= now \/ claims[c].owner \in ExpiredWaits(D)
    BY DEF CleanupExpiredHolds
  <2>1. ASSUME claims[c].owner \in Waits
        PROVE  /\ c[1] = wait[claims[c].owner].day
               /\ claims[c].exp = wait[claims[c].owner].exp
    <3>1. claims[c].owner \in Owners /\ claims[c].owner \notin Holds /\ claims[c].owner # Nobody
      BY <2>1, BlankRows DEF Owners
    <3>2. c \in ask[claims[c].owner] /\ claims[c].exp = due[claims[c].owner]
      BY <3>1 DEF IInv, Agree
    <3> QED BY <2>1, <3>1, <3>2 DEF Ask, Due, WaitCells, CellsOf
  <2> QED BY <2>1 DEF ExpiredWaits
<1>5. ASSUME NEW o \in Owners
      PROVE  /\ o \in Gone => Ask(H, W, termin)[o] = {}
             /\ o \notin Gone => /\ Ask(H, W, termin)[o] = ask[o]
                                 /\ Due(H, W)[o] = due[o]
  <2>1. CASE o \in Holds
    BY <2>1, BlankRows DEF Ask, Due, ExpirePublicHolds, ExpiredWaits, HoldCells, BlankHold
  <2>2. CASE o \in Waits
    BY <2>2, BlankRows DEF Ask, Due, ExpireWaits, ExpiredHolds, WaitCells, WithoutHold, CellsOf,
                           IInv, TypeOK, WaitRows
  <2>3. CASE o \in Termins
    BY <2>3, BlankRows DEF Ask, Due, ExpiredHolds, ExpiredWaits
  <2> QED BY <2>1, <2>2, <2>3 DEF Owners
<1>6. ASSUME NEW c \in Cells
      PROVE  /\ \A o \in Owners : C[c].owner = o <=> c \in Ask(H, W, termin)[o]
             /\ C[c].exp = IF C[c].owner = Nobody THEN NoDeadline ELSE Due(H, W)[C[c].owner]
  <2>1. /\ \A o \in Owners : claims[c].owner = o <=> c \in ask[o]
        /\ claims[c].exp = IF claims[c].owner = Nobody THEN NoDeadline ELSE due[claims[c].owner]
        /\ claims[c].owner \in Owners \cup {Nobody}
    BY DEF IInv, Agree, TypeOK, Claims
  <2>2. CASE claims[c].owner \in Gone
    BY <1>4, <1>5, <2>1, <2>2, BlankRows DEF FreeClaim
  <2>3. CASE claims[c].owner \notin Gone
    BY <1>4, <1>5, <2>1, <2>3, BlankRows
  <2> QED BY <2>2, <2>3
<1> QED BY <1>1, <1>2, <1>3, <1>6 DEF CleanedAgree, Agree

-----------------------------------------------------------------------------
(* The shapes of the transactions.                                          *)

LEMMA AskType ==
    ASSUME NEW H, NEW W, NEW T
    PROVE  Ask(H, W, T) \in [Owners -> SUBSET Cells]
BY DEF Ask, HoldCells, WaitCells, TerminCells, CellsOf

LEMMA InitInv == Init => IInv
<1> SUFFICES ASSUME Init PROVE IInv
  OBVIOUS
<1>1. TypeOK
  BY BlankRows, LedgerAssumption DEF Init, TypeOK
<1>2. \A o \in Owners : Ask(hold, wait, termin)[o] = {}
  BY BlankRows DEF Init, Ask, Owners, HoldCells, WaitCells, TerminCells, CellsOf,
                   BlankHold, BlankWait, BlankTermin, ACTIVE_STATUSES
<1>3. Agree(claims, Ask(hold, wait, termin), Due(hold, wait))
  BY <1>2, BlankRows DEF Init, Agree, FreeClaim
<1> QED BY <1>1, <1>3 DEF IInv

\* Steps that touch no row's cells and no claim.
LEMMA QuietStep ==
    ASSUME IInv, TypeOK', UNCHANGED claims,
           \A o \in Owners : /\ Ask(hold, wait, termin)'[o] = Ask(hold, wait, termin)[o]
                             /\ Ask(hold, wait, termin)[o] # {} =>
                                  Due(hold, wait)'[o] = Due(hold, wait)[o]
    PROVE  IInv'
<1>1. ASSUME NEW c \in Cells
      PROVE  /\ \A o \in Owners : claims'[c].owner = o <=> c \in Ask(hold, wait, termin)'[o]
             /\ claims'[c].exp = IF claims'[c].owner = Nobody THEN NoDeadline
                                 ELSE Due(hold, wait)'[claims'[c].owner]
  <2>1. /\ \A o \in Owners : claims[c].owner = o <=> c \in Ask(hold, wait, termin)[o]
        /\ claims[c].exp = IF claims[c].owner = Nobody THEN NoDeadline
                           ELSE Due(hold, wait)[claims[c].owner]
        /\ claims[c].owner \in Owners \cup {Nobody}
    BY DEF IInv, Agree, TypeOK, Claims
  <2> QED BY <2>1
<1> QED BY <1>1 DEF IInv, Agree

LEMMA CleanupStep ==
    ASSUME IInv, NEW D \in SUBSET Days, CommitCleanup(D)
    PROVE  IInv'
BY CleanupAgrees DEF CommitCleanup, CleanedAgree, IInv, TypeOK

LEMMA ReplaceStep ==
    ASSUME IInv, NEW t \in Termins, NEW row \in TerminRows, row.status \in ACTIVE_STATUSES,
           ReplaceTerminAllocation(t, row)
    PROVE  IInv'
<1> DEFINE D == {row.day}
           C == CleanupExpiredHolds(D)
           ask == Ask(ExpirePublicHolds(D), ExpireWaits(D), termin)
           due == Due(ExpirePublicHolds(D), ExpireWaits(D))
           ask2 == Ask(hold', wait', termin')
           due2 == Due(hold', wait')
<1>1. CleanedAgree(D)
  BY CleanupAgrees DEF TerminRows
<1>2. termin' \in [Termins -> TerminRows]
  BY DEF ReplaceTerminAllocation, IInv, TypeOK
<1>3. t \in Owners /\ t \notin Holds /\ t \notin Waits
  BY BlankRows DEF Owners
<1>4. ask2[t] = CellsOf(row) /\ due2[t] = NoDeadline
  BY <1>3 DEF ReplaceTerminAllocation, Ask, Due, TerminCells, IInv, TypeOK
<1>5. \A q \in Owners \ {t} : ask2[q] = ask[q] /\ due2[q] = due[q]
  BY <1>3 DEF ReplaceTerminAllocation, Ask, Due, IInv, TypeOK, Owners
<1>6. Insertable(Released(C, t), ask2[t])
  BY <1>4 DEF ReplaceTerminAllocation, Fits
<1>7. CellsOf(row) \subseteq Cells
  BY DEF CellsOf
<1>8. claims' = Inserted(Released(C, t), ask2[t], t, NoDeadline)
  BY <1>4 DEF ReplaceTerminAllocation
<1>9. ask \in [Owners -> SUBSET Cells]
  BY AskType
<1>10. Agree(claims', ask2, due2) /\ claims' \in [Cells -> Claims]
  <2>1. C \in [Cells -> Claims] /\ Agree(C, ask, due)
    BY <1>1 DEF CleanedAgree
  <2>2. \A q \in Owners \ {t, t} : ask2[q] = ask[q] /\ (ask[q] # {} => due2[q] = due[q])
    BY <1>5
  <2>3. ask2[t] \subseteq Cells /\ due2[t] = NoDeadline /\ NoDeadline \in Deadlines
    BY <1>4, <1>7, BlankRows
  <2>4. t \in Owners
    BY <1>3
  <2> HIDE DEF D, C, ask, due, ask2, due2
  <2>5. /\ Agree(Inserted(Released(C, t), ask2[t], t, NoDeadline), ask2, due2)
        /\ Inserted(Released(C, t), ask2[t], t, NoDeadline) \in [Cells -> Claims]
    BY <2>1, <2>2, <2>3, <2>4, <1>6, <1>9, ReplacedAgrees
  <2> QED BY <2>5, <1>8
<1>11. TypeOK'
  BY <1>1, <1>2, <1>10 DEF ReplaceTerminAllocation, CleanedAgree, IInv, TypeOK
<1> QED BY <1>10, <1>11 DEF IInv

\* One owner gives up all it had, without a cleanup.
LEMMA ReleaseStep ==
    ASSUME IInv, NEW o \in Owners, UNCHANGED now, claims' = Released(claims, o),
           hold' \in [Holds -> HoldRows], wait' \in [Waits -> WaitRows],
           termin' \in [Termins -> TerminRows],
           Ask(hold', wait', termin')[o] = {},
           \A q \in Owners \ {o} : /\ Ask(hold', wait', termin')[q] = Ask(hold, wait, termin)[q]
                                   /\ Due(hold', wait')[q] = Due(hold, wait)[q]
    PROVE  IInv'
<1>1. claims \in [Cells -> Claims] /\ Agree(claims, Ask(hold, wait, termin), Due(hold, wait))
  BY DEF IInv, TypeOK
<1>2. SameButFor(o, Ask(hold, wait, termin), Due(hold, wait),
                 Ask(hold', wait', termin'), Due(hold', wait'))
  BY DEF SameButFor
<1>3. Agree(claims', Ask(hold', wait', termin'), Due(hold', wait')) /\ claims' \in [Cells -> Claims]
  BY <1>1, <1>2, ReleasedAgrees
<1> QED BY <1>3 DEF IInv, TypeOK

LEMMA FinishedType ==
    ASSUME NEW row \in TerminRows,
           NEW s \in {"brak", "odbyla", "no_show", "odwolana", "usunieta"}
    PROVE  Finished(row, s) \in TerminRows /\ TerminCells(Finished(row, s)) = {}
BY BlankRows DEF Finished, BlankTermin, TerminRows, TerminCells, ACTIVE_STATUSES

\* A visit's row changes to one without claims.
LEMMA TerminReleaseStep ==
    ASSUME IInv, NEW t \in Termins, NEW row \in TerminRows, TerminCells(row) = {},
           UNCHANGED <<now, hold, wait>>, termin' = [termin EXCEPT ![t] = row],
           claims' = Released(claims, t)
    PROVE  IInv'
<1>1. t \in Owners /\ t \notin Holds /\ t \notin Waits
  BY BlankRows DEF Owners
<1>2. hold' \in [Holds -> HoldRows] /\ wait' \in [Waits -> WaitRows]
      /\ termin' \in [Termins -> TerminRows] /\ UNCHANGED now
  BY DEF IInv, TypeOK
<1>3. Ask(hold', wait', termin')[t] = {}
  BY <1>1 DEF Ask, IInv, TypeOK
<1>4. \A q \in Owners \ {t} : /\ Ask(hold', wait', termin')[q] = Ask(hold, wait, termin)[q]
                              /\ Due(hold', wait')[q] = Due(hold, wait)[q]
  BY <1>1 DEF Ask, Due, Owners, IInv, TypeOK
<1> QED BY <1>1, <1>2, <1>3, <1>4, ReleaseStep

LEMMA EndVisitStep ==
    ASSUME IInv, NEW t \in Termins, NEW s \in {"odbyla", "no_show", "odwolana"}, EndVisit(t, s)
    PROVE  IInv'
<1>1. Finished(termin[t], s) \in TerminRows /\ TerminCells(Finished(termin[t], s)) = {}
  BY FinishedType DEF IInv, TypeOK
<1> QED BY <1>1, TerminReleaseStep DEF EndVisit

\* A visit's row changes and keeps its cells; nothing else changes.
LEMMA TerminQuietStep ==
    ASSUME IInv, NEW t \in Termins, NEW row \in TerminRows,
           TerminCells(row) = TerminCells(termin[t]),
           UNCHANGED <<now, hold, wait, claims>>, termin' = [termin EXCEPT ![t] = row]
    PROVE  IInv'
<1>1. t \in Owners /\ t \notin Holds /\ t \notin Waits
  BY BlankRows DEF Owners
<1>2. TypeOK'
  BY DEF IInv, TypeOK
<1>3. \A q \in Owners : /\ Ask(hold, wait, termin)'[q] = Ask(hold, wait, termin)[q]
                        /\ Due(hold, wait)'[q] = Due(hold, wait)[q]
  BY <1>1 DEF Ask, Due, Owners, IInv, TypeOK
<1> QED BY <1>2, <1>3, QuietStep

LEMMA AutoNoShowStep ==
    ASSUME IInv, NEW d \in Days, NEW T \in SUBSET Termins, AutoNoShow(d, T)
    PROVE  IInv'
<1> DEFINE ask2 == Ask(hold', wait', termin')
           due2 == Due(hold', wait')
<1>1. TypeOK'
  <2>1. termin' \in [Termins -> TerminRows]
    BY FinishedType DEF AutoNoShow, IInv, TypeOK
  <2>2. claims' \in [Cells -> Claims]
    BY BlankRows DEF AutoNoShow, IInv, TypeOK
  <2> QED BY <2>1, <2>2 DEF AutoNoShow, IInv, TypeOK
<1>2. \A o \in Owners : IF o \in T THEN ask2[o] = {}
                        ELSE /\ ask2[o] = Ask(hold, wait, termin)[o]
                             /\ due2[o] = Due(hold, wait)[o]
  BY FinishedType, BlankRows DEF AutoNoShow, Ask, Due, Owners, IInv, TypeOK
<1>3. ASSUME NEW c \in Cells
      PROVE  /\ \A o \in Owners : claims'[c].owner = o <=> c \in ask2[o]
             /\ claims'[c].exp = IF claims'[c].owner = Nobody THEN NoDeadline
                                 ELSE due2[claims'[c].owner]
  <2>1. /\ \A o \in Owners : claims[c].owner = o <=> c \in Ask(hold, wait, termin)[o]
        /\ claims[c].exp = IF claims[c].owner = Nobody THEN NoDeadline
                           ELSE Due(hold, wait)[claims[c].owner]
        /\ claims[c].owner \in Owners \cup {Nobody}
    BY DEF IInv, Agree, TypeOK, Claims
  <2>2. claims'[c] = IF claims[c].owner \in T THEN FreeClaim ELSE claims[c]
    BY DEF AutoNoShow
  <2>3. CASE claims[c].owner \in T
    BY <1>2, <2>1, <2>2, <2>3, BlankRows DEF FreeClaim
  <2>4. CASE claims[c].owner \notin T
    BY <1>2, <2>1, <2>2, <2>4, BlankRows
  <2> QED BY <2>3, <2>4
<1> QED BY <1>1, <1>3 DEF IInv, Agree

\* A hold's row changes to one without claims.
LEMMA HoldReleaseStep ==
    ASSUME IInv, NEW h \in Holds, NEW row \in HoldRows, HoldCells(row) = {},
           UNCHANGED <<now, wait, termin>>, hold' = [hold EXCEPT ![h] = row],
           claims' = Released(claims, h)
    PROVE  IInv'
<1>1. h \in Owners
  BY DEF Owners
<1>2. hold' \in [Holds -> HoldRows] /\ wait' \in [Waits -> WaitRows]
      /\ termin' \in [Termins -> TerminRows] /\ UNCHANGED now
  BY DEF IInv, TypeOK
<1>3. Ask(hold', wait', termin')[h] = {}
  BY <1>1 DEF Ask, IInv, TypeOK
<1>4. \A q \in Owners \ {h} : /\ Ask(hold', wait', termin')[q] = Ask(hold, wait, termin)[q]
                              /\ Due(hold', wait')[q] = Due(hold, wait)[q]
  BY DEF Ask, Due, Owners, IInv, TypeOK
<1> QED BY <1>1, <1>2, <1>3, <1>4, ReleaseStep

\* An entry's row changes to one without tables, and no day is cleaned up.
LEMMA WaitReleaseStep ==
    ASSUME IInv, NEW w \in Waits, NEW row \in WaitRows, WaitCells(row) = {},
           UNCHANGED <<now, hold, termin>>, wait' = [wait EXCEPT ![w] = row],
           claims' = Released(claims, w)
    PROVE  IInv'
<1>1. w \in Owners /\ w \notin Holds
  BY BlankRows DEF Owners
<1>2. hold' \in [Holds -> HoldRows] /\ wait' \in [Waits -> WaitRows]
      /\ termin' \in [Termins -> TerminRows] /\ UNCHANGED now
  BY DEF IInv, TypeOK
<1>3. Ask(hold', wait', termin')[w] = {}
  BY <1>1 DEF Ask, IInv, TypeOK
<1>4. \A q \in Owners \ {w} : /\ Ask(hold', wait', termin')[q] = Ask(hold, wait, termin)[q]
                              /\ Due(hold', wait')[q] = Due(hold, wait)[q]
  BY <1>1 DEF Ask, Due, Owners, IInv, TypeOK
<1> QED BY <1>1, <1>2, <1>3, <1>4, ReleaseStep

\* The day is cleaned up and an entry gives up its tables.
LEMMA LeaveHoldStep ==
    ASSUME IInv, NEW w \in Waits, NEW row \in WaitRows, WaitCells(row) = {}, LeaveHold(w, row)
    PROVE  IInv'
<1> DEFINE D == {wait[w].day}
           C == CleanupExpiredHolds(D)
           ask == Ask(ExpirePublicHolds(D), ExpireWaits(D), termin)
           due == Due(ExpirePublicHolds(D), ExpireWaits(D))
           ask2 == Ask(hold', wait', termin')
           due2 == Due(hold', wait')
<1>1. CleanedAgree(D)
  BY CleanupAgrees DEF IInv, TypeOK, WaitRows
<1>2. w \in Owners /\ w \notin Holds
  BY BlankRows DEF Owners
<1>3. wait' \in [Waits -> WaitRows]
  BY <1>1 DEF LeaveHold, CleanedAgree
<1>4. ask2[w] = {}
  BY <1>1, <1>2 DEF LeaveHold, Ask, CleanedAgree
<1>5. SameButFor(w, ask, due, ask2, due2)
  BY <1>1, <1>2 DEF LeaveHold, Ask, Due, CleanedAgree, SameButFor, Owners
<1>6. Agree(claims', ask2, due2) /\ claims' \in [Cells -> Claims]
  <2>1. C \in [Cells -> Claims] /\ Agree(C, ask, due) /\ claims' = Released(C, w)
    BY <1>1 DEF CleanedAgree, LeaveHold
  <2> HIDE DEF D, C, ask, due, ask2, due2
  <2> QED BY <2>1, <1>2, <1>4, <1>5, ReleasedAgrees
<1> QED BY <1>1, <1>3, <1>6 DEF LeaveHold, CleanedAgree, IInv, TypeOK

\* An offer or a legacy hold takes its tables.
LEMMA ZalozHoldStep ==
    ASSUME IInv, NEW w \in Waits, NEW s \in {"oczekuje", "zaoferowano"},
           NEW b \in Configurations, NEW win \in Spans, ZalozHold(w, s, b, win)
    PROVE  IInv'
<1> DEFINE D == {wait[w].day}
           C == CleanupExpiredHolds(D)
           row == [status |-> s, day |-> wait[w].day, tables |-> b, win |-> win,
                   exp |-> now + OfferTTL]
           ask == Ask(ExpirePublicHolds(D), ExpireWaits(D), termin)
           due == Due(ExpirePublicHolds(D), ExpireWaits(D))
           ask2 == Ask(hold', wait', termin')
           due2 == Due(hold', wait')
<1>1. CleanedAgree(D)
  BY CleanupAgrees DEF IInv, TypeOK, WaitRows
<1>2. w \in Owners /\ w \notin Holds
  BY BlankRows DEF Owners
<1>3. row \in WaitRows /\ row.exp \in Deadlines
  <2>1. now + OfferTTL \in Deadlines
    BY LedgerAssumption DEF IInv, TypeOK, Deadlines, NoDeadline
  <2>2. b \in SUBSET Tables /\ wait[w].day \in Days
    BY LedgerAssumption DEF IInv, TypeOK, WaitRows
  <2> QED BY <2>1, <2>2 DEF WaitRows
<1>4. wait' = [ExpireWaits(D) EXCEPT ![w] = row] /\ wait' \in [Waits -> WaitRows]
  BY <1>1, <1>3 DEF ZalozHold, CleanedAgree
<1>5. ask2[w] = CellsOf(row) /\ due2[w] = row.exp
  BY <1>1, <1>2, <1>4 DEF Ask, Due, CleanedAgree, WaitCells
<1>6. \A q \in Owners \ {w} : ask2[q] = ask[q] /\ due2[q] = due[q]
  BY <1>1, <1>2, <1>4 DEF ZalozHold, Ask, Due, CleanedAgree, Owners
<1>7. Insertable(Released(C, w), ask2[w]) /\ claims' = Inserted(Released(C, w), ask2[w], w, row.exp)
  BY <1>5 DEF ZalozHold, Fits
<1>8. ask2[w] \subseteq Cells
  BY <1>5 DEF CellsOf
<1>9. Agree(claims', ask2, due2) /\ claims' \in [Cells -> Claims]
  <2>1. C \in [Cells -> Claims] /\ Agree(C, ask, due) /\ ask \in [Owners -> SUBSET Cells]
    BY <1>1, AskType DEF CleanedAgree
  <2>2. \A q \in Owners \ {w, w} : ask2[q] = ask[q] /\ (ask[q] # {} => due2[q] = due[q])
    BY <1>6
  <2>3. due2[w] = row.exp
    BY <1>5
  <2> HIDE DEF D, C, row, ask, due, ask2, due2
  <2>4. /\ Agree(Inserted(Released(C, w), ask2[w], w, row.exp), ask2, due2)
        /\ Inserted(Released(C, w), ask2[w], w, row.exp) \in [Cells -> Claims]
    <3>1. w \in Owners /\ row.exp \in Deadlines /\ ask2[w] \subseteq Cells /\ due2[w] = row.exp
          /\ Insertable(Released(C, w), ask2[w])
      BY <2>3, <1>2, <1>3, <1>7, <1>8
    <3> QED BY <2>1, <2>2, <3>1, ReplacedAgrees, ZenonT(60)
  <2> QED BY <2>4, <1>7
<1> QED BY <1>1, <1>4, <1>9 DEF ZalozHold, CleanedAgree, IInv, TypeOK

\* An entry becomes a visit.
LEMMA RealiseStep ==
    ASSUME IInv, NEW w \in Waits, NEW t \in Termins, NEW row \in TerminRows,
           row.status \in ACTIVE_STATUSES, Realise(w, t, row)
    PROVE  IInv'
<1> DEFINE D == {wait[w].day}
           C == CleanupExpiredHolds(D)
           blank == [BlankWait EXCEPT !.status = "zaakceptowano"]
           ask == Ask(ExpirePublicHolds(D), ExpireWaits(D), termin)
           due == Due(ExpirePublicHolds(D), ExpireWaits(D))
           ask2 == Ask(hold', wait', termin')
           due2 == Due(hold', wait')
<1>1. CleanedAgree(D)
  BY CleanupAgrees DEF IInv, TypeOK, WaitRows
<1>2. /\ w \in Owners /\ w \notin Holds /\ w \notin Termins
      /\ t \in Owners /\ t \notin Holds /\ t \notin Waits
  BY BlankRows DEF Owners
<1>3. blank \in WaitRows /\ WaitCells(blank) = {}
  BY BlankRows DEF BlankWait, WaitRows, WaitCells, CellsOf
<1>4. /\ wait' = [ExpireWaits(D) EXCEPT ![w] = blank] /\ wait' \in [Waits -> WaitRows]
      /\ termin' \in [Termins -> TerminRows] /\ termin \in [Termins -> TerminRows]
  BY <1>1, <1>3 DEF Realise, CleanedAgree, IInv, TypeOK
<1>5. ask2[w] = {} /\ ask2[t] = CellsOf(row) /\ due2[t] = NoDeadline /\ ask[t] = {}
  <2>1. ask2[w] = {}
    BY <1>1, <1>2, <1>3, <1>4 DEF Ask, CleanedAgree
  <2>2. ask2[t] = CellsOf(row) /\ due2[t] = NoDeadline
    BY <1>2, <1>4 DEF Realise, Ask, Due, TerminCells
  <2>3. ask[t] = {}
    BY <1>2 DEF Realise, Ask, TerminCells, ACTIVE_STATUSES
  <2> QED BY <2>1, <2>2, <2>3
<1>6. \A q \in Owners \ {w, t} : ask2[q] = ask[q] /\ due2[q] = due[q]
  BY <1>1, <1>2, <1>4 DEF Realise, Ask, Due, CleanedAgree, Owners
<1>7. /\ Insertable(Released(C, w), ask2[t])
      /\ claims' = Inserted(Released(C, w), ask2[t], t, NoDeadline)
  BY <1>5 DEF Realise, Fits
<1>8. ask2[t] \subseteq Cells
  BY <1>5 DEF CellsOf
<1>9. Agree(claims', ask2, due2) /\ claims' \in [Cells -> Claims]
  <2>1. C \in [Cells -> Claims] /\ Agree(C, ask, due) /\ ask \in [Owners -> SUBSET Cells]
    BY <1>1, AskType DEF CleanedAgree
  <2>2. \A q \in Owners \ {w, t} : ask2[q] = ask[q] /\ (ask[q] # {} => due2[q] = due[q])
    BY <1>6
  <2>3. due2[t] = NoDeadline /\ NoDeadline \in Deadlines /\ ask[t] = {} /\ ask2[w] = {}
    BY <1>5, BlankRows
  <2> HIDE DEF D, C, blank, ask, due, ask2, due2
  <2>4. /\ Agree(Inserted(Released(C, w), ask2[t], t, NoDeadline), ask2, due2)
        /\ Inserted(Released(C, w), ask2[t], t, NoDeadline) \in [Cells -> Claims]
    BY <2>1, <2>2, <2>3, <1>2, <1>7, <1>8, ReplacedAgrees
  <2> QED BY <2>4, <1>7
<1> QED BY <1>1, <1>4, <1>9 DEF Realise, CleanedAgree, IInv, TypeOK

\* A new public hold takes its tables.
LEMMA HoldStep ==
    ASSUME IInv, NEW h \in Holds, NEW d \in Days, NEW b \in Configurations, NEW w \in Spans,
           OnlineUtworzHold(h, d, b, w)
    PROVE  IInv'
<1> DEFINE D == {d}
           C == CleanupExpiredHolds(D)
           row == [state |-> "active", day |-> d, tables |-> b, win |-> w, exp |-> now + HoldTTL]
           ask == Ask(ExpirePublicHolds(D), ExpireWaits(D), termin)
           due == Due(ExpirePublicHolds(D), ExpireWaits(D))
           ask2 == Ask(hold', wait', termin')
           due2 == Due(hold', wait')
<1>1. CleanedAgree(D)
  BY CleanupAgrees
<1>2. h \in Owners
  BY DEF Owners
<1>3. row \in HoldRows /\ row.exp \in Deadlines
  <2>1. now + HoldTTL \in Deadlines
    BY LedgerAssumption DEF IInv, TypeOK, Deadlines, NoDeadline
  <2>2. b \in SUBSET Tables
    BY LedgerAssumption
  <2> QED BY <2>1, <2>2 DEF HoldRows
<1>4. hold' = [ExpirePublicHolds(D) EXCEPT ![h] = row] /\ hold' \in [Holds -> HoldRows]
  BY <1>1, <1>3 DEF OnlineUtworzHold, CleanedAgree
<1>5. ask2[h] = CellsOf(row) /\ due2[h] = row.exp /\ ask[h] = {}
  <2>1. ask2[h] = CellsOf(row) /\ due2[h] = row.exp
    BY <1>1, <1>2, <1>4 DEF Ask, Due, CleanedAgree, HoldCells
  <2>2. ask[h] = {}
    BY <1>2 DEF OnlineUtworzHold, Ask, ExpirePublicHolds, ExpiredHolds, HoldCells
  <2> QED BY <2>1, <2>2
<1>6. SameButFor(h, ask, due, ask2, due2)
  BY <1>1, <1>4 DEF OnlineUtworzHold, Ask, Due, CleanedAgree, Owners, SameButFor
<1>7. Insertable(C, ask2[h]) /\ claims' = Inserted(C, ask2[h], h, row.exp)
  BY <1>5 DEF OnlineUtworzHold, Fits
<1>8. ask2[h] \subseteq Cells
  BY <1>5 DEF CellsOf
<1>9. Agree(claims', ask2, due2) /\ claims' \in [Cells -> Claims]
  <2>1. C \in [Cells -> Claims] /\ Agree(C, ask, due)
    BY <1>1 DEF CleanedAgree
  <2>2. due2[h] = row.exp /\ ask[h] = {}
    BY <1>5
  <2> HIDE DEF D, C, row, ask, due, ask2, due2
  <2>3. /\ Agree(Inserted(C, ask2[h], h, row.exp), ask2, due2)
        /\ Inserted(C, ask2[h], h, row.exp) \in [Cells -> Claims]
    BY <2>1, <2>2, <1>2, <1>3, <1>6, <1>7, <1>8, InsertedAgrees
  <2> QED BY <2>3, <1>7
<1> QED BY <1>1, <1>4, <1>9 DEF OnlineUtworzHold, CleanedAgree, IInv, TypeOK

\* A hold becomes a visit: the owner of its claims changes, then the visit's
\* claims are replaced.  Both together release the hold.
LEMMA ConsumeStep ==
    ASSUME IInv, NEW h \in Holds, NEW t \in Termins, NEW s \in ACTIVE_STATUSES,
           NEW w \in Spans, OnlineRezerwacja(h, t, s, w)
    PROVE  IInv'
<1> DEFINE D == {hold[h].day}
           C == CleanupExpiredHolds(D)
           used == [BlankHold EXCEPT !.state = "consumed"]
           row == [status |-> s, faza |-> "-", day |-> hold[h].day, tables |-> hold[h].tables,
                   win |-> w, auto |-> TRUE, online |-> TRUE]
           ask == Ask(ExpirePublicHolds(D), ExpireWaits(D), termin)
           due == Due(ExpirePublicHolds(D), ExpireWaits(D))
           ask2 == Ask(hold', wait', termin')
           due2 == Due(hold', wait')
<1>1. CleanedAgree(D)
  BY CleanupAgrees DEF IInv, TypeOK, HoldRows
<1>2. h \in Owners /\ h \notin Termins /\ t \in Owners /\ t \notin Holds /\ t \notin Waits
  BY BlankRows DEF Owners
<1>3. used \in HoldRows /\ HoldCells(used) = {}
  BY BlankRows DEF BlankHold, HoldRows, HoldCells
<1>4. row \in TerminRows
  <2>1. s \in {"brak", "rezerwacja", "potwierdzona", "odbyla", "no_show", "odwolana", "usunieta"}
    BY DEF ACTIVE_STATUSES
  <2>2. "-" \in Fazy
    BY DEF Fazy, HOST_PRZEJSCIA
  <2>3. hold[h].day \in Days /\ hold[h].tables \in SUBSET Tables
    BY DEF IInv, TypeOK, HoldRows
  <2> QED BY <2>1, <2>2, <2>3 DEF TerminRows
<1>5. /\ hold' = [ExpirePublicHolds(D) EXCEPT ![h] = used] /\ hold' \in [Holds -> HoldRows]
      /\ termin' = [termin EXCEPT ![t] = row]
      /\ termin' \in [Termins -> TerminRows] /\ termin \in [Termins -> TerminRows]
  BY <1>1, <1>3, <1>4 DEF OnlineRezerwacja, CleanedAgree, IInv, TypeOK
<1>6. ask2[h] = {} /\ ask2[t] = CellsOf(row) /\ due2[t] = NoDeadline /\ ask[t] = {}
  <2>1. ask2[h] = {}
    BY <1>1, <1>2, <1>3, <1>5 DEF Ask, CleanedAgree
  <2>2. ask2[t] = CellsOf(row) /\ due2[t] = NoDeadline
    BY <1>2, <1>5 DEF Ask, Due, TerminCells
  <2>3. ask[t] = {}
    BY <1>2 DEF OnlineRezerwacja, Ask, TerminCells, ACTIVE_STATUSES
  <2> QED BY <2>1, <2>2, <2>3
<1>7. \A q \in Owners \ {h, t} : ask2[q] = ask[q] /\ due2[q] = due[q]
  BY <1>1, <1>2, <1>5 DEF OnlineRezerwacja, Ask, Due, CleanedAgree, Owners
<1>8. Released(Transferred(C, h, t), t) = Released(C, h)
  <2>1. \A c \in Cells : C[c].owner # t
    BY <1>1, <1>2, <1>6 DEF CleanedAgree, Agree
  <2> HIDE DEF C
  <2> QED BY <2>1 DEF Released, Transferred
<1>9. /\ Insertable(Released(C, h), ask2[t])
      /\ claims' = Inserted(Released(C, h), ask2[t], t, NoDeadline)
  BY <1>6, <1>8 DEF OnlineRezerwacja, Fits
<1>10. ask2[t] \subseteq Cells
  BY <1>6 DEF CellsOf
<1>11. Agree(claims', ask2, due2) /\ claims' \in [Cells -> Claims]
  <2>1. C \in [Cells -> Claims] /\ Agree(C, ask, due) /\ ask \in [Owners -> SUBSET Cells]
    BY <1>1, AskType DEF CleanedAgree
  <2>2. \A q \in Owners \ {h, t} : ask2[q] = ask[q] /\ (ask[q] # {} => due2[q] = due[q])
    BY <1>7
  <2>3. due2[t] = NoDeadline /\ NoDeadline \in Deadlines /\ ask[t] = {} /\ ask2[h] = {}
    BY <1>6, BlankRows
  <2> HIDE DEF D, C, used, row, ask, due, ask2, due2
  <2>4. /\ Agree(Inserted(Released(C, h), ask2[t], t, NoDeadline), ask2, due2)
        /\ Inserted(Released(C, h), ask2[t], t, NoDeadline) \in [Cells -> Claims]
    BY <2>1, <2>2, <2>3, <1>2, <1>9, <1>10, ReplacedAgrees
  <2> QED BY <2>4, <1>9
<1> QED BY <1>1, <1>5, <1>11 DEF OnlineRezerwacja, CleanedAgree, IInv, TypeOK

\* Rebuffered(b) changes the buffers after the visits that are still to come.
LEMMA RebufferedRows ==
    ASSUME IInv, NEW b \in Buffers
    PROVE  /\ Rebuffered(b) \in [Termins -> TerminRows]
           /\ \A t \in Termins :
                 /\ Rebuffered(b)[t] # termin[t] => Active(t)
                 /\ Stored(Rebuffered(b)[t]) = Stored(termin[t])
<1>0. termin \in [Termins -> TerminRows]
  BY DEF IInv, TypeOK
<1>1. ASSUME NEW t \in Termins
      PROVE  /\ Rebuffered(b)[t] \in TerminRows
             /\ Rebuffered(b)[t] # termin[t] => Active(t)
             /\ Stored(Rebuffered(b)[t]) = Stored(termin[t])
  <2> DEFINE row == termin[t]
             span == Span(row.win.visit, b)
  <2>0. row \in TerminRows
    BY <1>0
  <2>1. row.win \in Spans
    BY <2>0 DEF TerminRows
  <2>2. span \in Spans /\ span.visit = row.win.visit
    BY <2>1 DEF Spans, Span
  <2>3. Rebuffered(b)[t] = IF Active(t) THEN [row EXCEPT !.win = span] ELSE row
    BY DEF Rebuffered
  <2> HIDE DEF row, span
  <2>4. [row EXCEPT !.win = span] \in TerminRows
        /\ Stored([row EXCEPT !.win = span]) = Stored(row)
    BY <2>0, <2>2 DEF TerminRows, Stored
  <2>5. /\ Rebuffered(b)[t] \in TerminRows
        /\ Rebuffered(b)[t] # row => Active(t)
        /\ Stored(Rebuffered(b)[t]) = Stored(row)
    BY <2>0, <2>3, <2>4
  <2> QED BY <2>5 DEF row
<1>2. Rebuffered(b) \in [Termins -> TerminRows]
  BY <1>1 DEF Rebuffered
<1> QED BY <1>1, <1>2

\* Two rows that store the same differ in the buffer alone.
LEMMA SameStored ==
    ASSUME NEW r \in TerminRows, NEW q \in TerminRows, Stored(r) = Stored(q)
    PROVE  /\ r.status = q.status /\ r.faza = q.faza /\ r.day = q.day /\ r.tables = q.tables
           /\ r.win.visit = q.win.visit
<1>1. /\ Stored(r).status = r.status /\ Stored(r).faza = r.faza /\ Stored(r).day = r.day
      /\ Stored(r).tables = r.tables /\ Stored(r).win = r.win.visit
  BY DEF TerminRows, Stored
<1>2. /\ Stored(q).status = q.status /\ Stored(q).faza = q.faza /\ Stored(q).day = q.day
      /\ Stored(q).tables = q.tables /\ Stored(q).win = q.win.visit
  BY DEF TerminRows, Stored
<1> QED BY <1>1, <1>2

\* A visit has its own minutes whatever its buffer.
LEMMA VisitIsClaimed ==
    ASSUME NEW w \in Spans
    PROVE  w.visit \subseteq Minutes(w) /\ w.visit # {} /\ w.visit \subseteq Slots
<1>1. w.visit \in Windows /\ w.buffer \in Nat
  BY LedgerAssumption DEF Spans
<1>2. w.visit \subseteq Slots /\ w.visit # {} /\ Slots \subseteq Nat
  BY <1>1, LedgerAssumption
<1>3. ASSUME NEW x \in w.visit PROVE x \in Minutes(w)
  <2>1. x \in Slots /\ x \in Nat
    BY <1>2
  <2>2. \A k, n \in Nat : k <= k /\ k <= k + n
    OBVIOUS
  <2>3. x <= x /\ x <= x + w.buffer
    BY <1>1, <2>1, <2>2
  <2> QED BY <2>1, <2>3 DEF Minutes
<1> QED BY <1>2, <1>3

\* The cells that a row loses while it stores the same are of a buffer that became shorter.
LEMMA LostCellsAreBuffer ==
    ASSUME NEW r \in TerminRows, NEW q \in TerminRows, Stored(q) = Stored(r),
           NEW c \in TerminCells(r), c \notin TerminCells(q)
    PROVE  c[3] \notin r.win.visit /\ q.win.buffer < r.win.buffer
<1>1. /\ r.status = q.status /\ r.day = q.day /\ r.tables = q.tables /\ r.win.visit = q.win.visit
  BY SameStored
<1>2. /\ r.status \in ACTIVE_STATUSES /\ c \in Cells /\ c[1] = r.day /\ c[2] \in r.tables
      /\ c[3] \in Minutes(r.win)
  BY DEF TerminCells, CellsOf
<1>3. c[3] \notin Minutes(q.win)
  BY <1>1, <1>2 DEF TerminCells, CellsOf
<1>4. r.win \in Spans /\ q.win \in Spans
  BY DEF TerminRows
<1>5. c[3] \notin r.win.visit
  BY <1>1, <1>3, <1>4, VisitIsClaimed
<1>6. r.win.buffer \in Nat /\ q.win.buffer \in Nat /\ r.win.visit \subseteq Nat /\ c[3] \in Nat
  <2>1. Slots \subseteq Nat /\ Buffers \subseteq Nat
    BY LedgerAssumption
  <2>2. r.win.visit \subseteq Slots
    BY <1>4, VisitIsClaimed
  <2>3. c[3] \in Slots
    BY <1>2 DEF Minutes
  <2>4. r.win.buffer \in Buffers /\ q.win.buffer \in Buffers
    BY <1>4 DEF Spans
  <2> QED BY <2>1, <2>2, <2>3, <2>4
<1>7. PICK x \in r.win.visit : x <= c[3] /\ c[3] <= x + r.win.buffer
  BY <1>2 DEF Minutes
<1>8. ~(c[3] <= x + q.win.buffer)
  BY <1>1, <1>2, <1>3, <1>7 DEF Minutes
<1> QED BY <1>5, <1>6, <1>7, <1>8

\* What the rebuild writes agrees with the rows it leaves, when it accepts them.
LEMMA RebuiltAgrees ==
    ASSUME IInv, NEW b \in Buffers, RebuildAccepted(Rebuffered(b))
    PROVE  /\ [c \in Cells |-> RebuiltClaim(Rebuffered(b), c)] \in [Cells -> Claims]
           /\ Agree([c \in Cells |-> RebuiltClaim(Rebuffered(b), c)],
                    Ask(ExpirePublicHolds(Days), ExpireWaits(Days), Rebuffered(b)),
                    Due(ExpirePublicHolds(Days), ExpireWaits(Days)))
           /\ \A c \in Cells : Covering(Rebuffered(b), c) \subseteq Owners
           /\ \A c \in Cells : \A o \in Owners :
                 RebuiltClaim(Rebuffered(b), c).owner = o <=> o \in Covering(Rebuffered(b), c)
<1> DEFINE H == ExpirePublicHolds(Days)
           W == ExpireWaits(Days)
           T == Rebuffered(b)
<1>1. CleanedAgree(Days)
  BY CleanupAgrees
<1>2. ASSUME NEW c \in Cells, NEW o \in Owners
      PROVE  /\ o \in Covering(T, c) <=> c \in Ask(H, W, T)[o]
             /\ o \in Covering(T, c) => DeadlineOf(o) = Due(H, W)[o]
             /\ DeadlineOf(o) \in Deadlines
  <2> HIDE DEF T
  <2>1. CASE o \in Holds
    <3>1. hold[o] \in HoldRows /\ hold[o].exp \in Nat /\ now \in Nat /\ hold[o].exp \in Deadlines
      BY <2>1 DEF IInv, TypeOK, HoldRows, Deadlines
    <3>2. o \in ExpiredHolds(Days) <=> hold[o].state = "active" /\ ~(hold[o].exp > now)
      BY <2>1, <3>1 DEF ExpiredHolds, HoldRows
    <3>3. o \in Covering(T, c) <=> c \in HoldCells(hold[o]) /\ hold[o].exp > now
      BY <2>1, BlankRows DEF Covering
    <3> QED BY <2>1, <3>1, <3>2, <3>3, BlankRows
            DEF Ask, Due, DeadlineOf, ExpirePublicHolds, HoldCells, BlankHold
  <2>2. CASE o \in Waits
    <3>1. wait[o] \in WaitRows /\ wait[o].exp \in Nat /\ now \in Nat /\ wait[o].exp \in Deadlines
      BY <2>2 DEF IInv, TypeOK, WaitRows, Deadlines
    <3>2. o \in ExpiredWaits(Days) <=> ~(wait[o].exp > now)
      BY <2>2, <3>1 DEF ExpiredWaits, WaitRows
    <3>3. o \in Covering(T, c) <=> c \in WaitCells(wait[o]) /\ wait[o].exp > now
      BY <2>2, BlankRows DEF Covering
    <3> QED BY <2>2, <3>1, <3>2, <3>3, BlankRows
            DEF Ask, Due, DeadlineOf, ExpireWaits, WaitCells, WithoutHold, CellsOf, WaitRows
  <2>3. CASE o \in Termins
    BY <2>3, BlankRows DEF Ask, Due, DeadlineOf, Covering
  <2> QED BY <2>1, <2>2, <2>3 DEF Owners
<1> HIDE DEF H, W, T
<1>3. ASSUME NEW c \in Cells
      PROVE  /\ RebuiltClaim(T, c) \in Claims
             /\ Covering(T, c) \subseteq Owners
             /\ \A o \in Owners : RebuiltClaim(T, c).owner = o <=> o \in Covering(T, c)
             /\ RebuiltClaim(T, c).exp = IF RebuiltClaim(T, c).owner = Nobody THEN NoDeadline
                                         ELSE Due(H, W)[RebuiltClaim(T, c).owner]
  <2>1. Covering(T, c) \subseteq Owners
    BY DEF Covering, Owners
  <2>2. CASE Covering(T, c) = {}
    BY <2>1, <2>2, BlankRows DEF RebuiltClaim, FreeClaim
  <2>3. CASE Covering(T, c) # {}
    <3>1. PICK o \in Covering(T, c) : TRUE
      BY <2>3
    <3>2. \A p \in Covering(T, c) : p = o
      BY <3>1 DEF RebuildAccepted, T
    <3>3. Covering(T, c) = {o} /\ o \in Owners /\ o # Nobody
      BY <2>1, <3>1, <3>2, BlankRows
    <3>4. RebuiltClaim(T, c) = [owner |-> o, exp |-> DeadlineOf(o)]
      BY <3>3 DEF RebuiltClaim
    <3>5. DeadlineOf(o) = Due(H, W)[o] /\ DeadlineOf(o) \in Deadlines
      BY <1>2, <3>3
    <3> QED BY <2>1, <3>3, <3>4, <3>5 DEF Claims
  <2> QED BY <2>2, <2>3
<1>4. [c \in Cells |-> RebuiltClaim(T, c)] \in [Cells -> Claims]
  BY <1>3
<1>5. Agree([c \in Cells |-> RebuiltClaim(T, c)], Ask(H, W, T), Due(H, W))
  BY <1>2, <1>3 DEF Agree
<1> QED BY <1>3, <1>4, <1>5 DEF H, W, T

LEMMA RebuildStep ==
    ASSUME IInv, RebuildLedger
    PROVE  IInv'
<1>1. PICK b \in Buffers :
          /\ termin' = Rebuffered(b) /\ RebuildAccepted(Rebuffered(b))
          /\ hold' = ExpirePublicHolds(Days)
          /\ wait' = ExpireWaits(Days)
          /\ claims' = [c \in Cells |-> RebuiltClaim(Rebuffered(b), c)]
          /\ UNCHANGED now
  BY DEF RebuildLedger
<1>2. CleanedAgree(Days)
  BY CleanupAgrees
<1>3. termin' \in [Termins -> TerminRows]
  BY <1>1, RebufferedRows
<1>4. /\ claims' \in [Cells -> Claims]
      /\ Agree(claims', Ask(hold', wait', termin'), Due(hold', wait'))
  BY <1>1, RebuiltAgrees
<1> QED BY <1>1, <1>2, <1>3, <1>4 DEF CleanedAgree, IInv, TypeOK

-----------------------------------------------------------------------------
(* Every step keeps the invariant.                                          *)

\* Seating moves a visit's phase, may confirm it and leaves its cells alone.
LEMMA SeatedType ==
    ASSUME NEW row \in TerminRows
    PROVE  /\ Seated(row) \in TerminRows
           /\ TerminCells(Seated(row)) = TerminCells(row)
           /\ Seated(row).status \in ACTIVE_STATUSES <=> row.status \in ACTIVE_STATUSES
<1>1. "posadzony" \in Fazy
  BY DEF Fazy, HOST_PRZEJSCIA
<1> QED BY <1>1 DEF Seated, TerminRows, TerminCells, CellsOf, ACTIVE_STATUSES

LEMMA PublicStep ==
    ASSUME IInv, PublicNext
    PROVE  IInv'
<1>0. termin \in [Termins -> TerminRows] /\ hold \in [Holds -> HoldRows]
  BY DEF IInv, TypeOK
<1>1. ASSUME NEW h \in Holds, OnlineZwolnijHold(h) PROVE IInv'
  <2> DEFINE row == [BlankHold EXCEPT !.state = IF hold[h].exp <= now THEN "expired" ELSE "released"]
  <2>1. row \in HoldRows /\ HoldCells(row) = {}
    BY BlankRows DEF BlankHold, HoldRows, HoldCells
  <2>2. UNCHANGED <<now, wait, termin>> /\ hold' = [hold EXCEPT ![h] = row]
        /\ claims' = Released(claims, h)
    BY <1>1 DEF OnlineZwolnijHold
  <2> HIDE DEF row
  <2> QED BY <2>1, <2>2, HoldReleaseStep
<1>2. ASSUME NEW h \in Holds, NEW d \in Days, NEW b \in Configurations, NEW w \in Spans,
             OnlineUtworzHold(h, d, b, w)
      PROVE  IInv'
  BY <1>2, HoldStep
<1>3. ASSUME NEW h \in Holds, NEW t \in Termins, NEW s \in ACTIVE_STATUSES, NEW w \in Spans,
             OnlineRezerwacja(h, t, s, w)
      PROVE  IInv'
  BY <1>3, ConsumeStep
<1>4. ASSUME NEW t \in Termins, OnlinePotwierdz(t) PROVE IInv'
  <2> DEFINE row == [termin[t] EXCEPT !.status = "potwierdzona"]
  <2>1. row \in TerminRows /\ TerminCells(row) = TerminCells(termin[t])
    BY <1>0, <1>4 DEF OnlinePotwierdz, TerminRows, TerminCells, CellsOf, ACTIVE_STATUSES
  <2>2. UNCHANGED <<now, hold, wait, claims>> /\ termin' = [termin EXCEPT ![t] = row]
    BY <1>4 DEF OnlinePotwierdz
  <2> HIDE DEF row
  <2> QED BY <2>1, <2>2, TerminQuietStep
<1>5. ASSUME NEW t \in Termins, OnlineOdwolaj(t) PROVE IInv'
  BY <1>5, EndVisitStep DEF OnlineOdwolaj
<1>6. ASSUME NEW t \in Termins, NEW d \in Days, NEW b \in Configurations, NEW w \in Spans,
             OnlineEdytuj(t, d, b, w)
      PROVE  IInv'
  <2> DEFINE row == [termin[t] EXCEPT !.day = d, !.tables = b, !.win = w, !.auto = TRUE]
  <2>1. row \in TerminRows /\ row.status \in ACTIVE_STATUSES
    <3>1. termin[t] \in TerminRows /\ termin[t].status \in ACTIVE_STATUSES
      BY <1>0, <1>6 DEF OnlineEdytuj, Active
    <3>2. b \in SUBSET Tables
      BY LedgerAssumption
    <3> QED BY <3>1, <3>2 DEF TerminRows
  <2>2. ReplaceTerminAllocation(t, row)
    BY <1>6 DEF OnlineEdytuj
  <2> HIDE DEF row
  <2> QED BY <2>1, <2>2, ReplaceStep
<1> QED BY <1>1, <1>2, <1>3, <1>4, <1>5, <1>6 DEF PublicNext

LEMMA OperatorStep ==
    ASSUME IInv, OperatorNext
    PROVE  IInv'
<1>0. termin \in [Termins -> TerminRows]
  BY DEF IInv, TypeOK
<1>1. ASSUME NEW t \in Termins, NEW d \in Days, NEW b \in Choices, NEW w \in Spans,
             NEW f \in {"-", "posadzony"}, NEW a \in BOOLEAN, DodajRezerwacje(t, d, b, w, f, a)
      PROVE  IInv'
  <2> DEFINE row == [status |-> "potwierdzona", faza |-> f, day |-> d, tables |-> b,
                     win |-> w, auto |-> a, online |-> FALSE]
  <2>1. f \in Fazy /\ b \in SUBSET Tables
    BY LedgerAssumption DEF Fazy, HOST_PRZEJSCIA, Choices
  <2>2. row \in TerminRows /\ row.status \in ACTIVE_STATUSES
    BY <2>1 DEF TerminRows, ACTIVE_STATUSES
  <2>3. ReplaceTerminAllocation(t, row)
    BY <1>1 DEF DodajRezerwacje
  <2> HIDE DEF row
  <2> QED BY <2>2, <2>3, ReplaceStep
<1>2. ASSUME NEW t \in Termins, NEW d \in Days, NEW b \in Choices, NEW w \in Spans,
             EdytujRezerwacje(t, d, b, w)
      PROVE  IInv'
  <2> DEFINE a == (b = termin[t].tables /\ b # {}) /\ termin[t].auto
             row == [termin[t] EXCEPT !.day = d, !.tables = b, !.win = w, !.auto = a]
  <2>1. a \in BOOLEAN
    BY <1>0 DEF TerminRows
  <2>2. row \in TerminRows /\ row.status \in ACTIVE_STATUSES
    <3>1. termin[t] \in TerminRows /\ termin[t].status \in ACTIVE_STATUSES
      BY <1>0, <1>2 DEF EdytujRezerwacje, Active
    <3>2. b \in SUBSET Tables
      BY LedgerAssumption DEF Choices
    <3> HIDE DEF a
    <3> QED BY <2>1, <3>1, <3>2 DEF TerminRows
  <2>3. ReplaceTerminAllocation(t, row)
    BY <1>2 DEF EdytujRezerwacje
  <2> HIDE DEF row
  <2> QED BY <2>2, <2>3, ReplaceStep
<1>3. ASSUME NEW t \in Termins, ZwolnijPoPlatnosci(t) PROVE IInv'
  BY <1>3, EndVisitStep DEF ZwolnijPoPlatnosci
<1>4. ASSUME NEW t \in Termins, UsunRezerwacje(t) PROVE IInv'
  <2> DEFINE row == [BlankTermin EXCEPT !.status = "usunieta"]
  <2>1. row \in TerminRows /\ TerminCells(row) = {}
    BY BlankRows DEF BlankTermin, TerminRows, TerminCells, ACTIVE_STATUSES
  <2>2. UNCHANGED <<now, hold, wait>> /\ termin' = [termin EXCEPT ![t] = row]
        /\ claims' = Released(claims, t)
    BY <1>4 DEF UsunRezerwacje
  <2> HIDE DEF row
  <2> QED BY <2>1, <2>2, TerminReleaseStep
<1>5. ASSUME NEW t \in Termins, NEW s \in {"potwierdzona", "odbyla", "no_show", "odwolana"},
             ZmienStatus(t, s)
      PROVE  IInv'
  <2>1. CASE s = "potwierdzona"
    <3> DEFINE row == [termin[t] EXCEPT !.status = s]
    <3>1. termin[t].status \in ACTIVE_STATUSES
      BY <1>0, <1>5 DEF ZmienStatus, REZ_PRZEJSCIA, ACTIVE_STATUSES, TerminRows
    <3>2. row \in TerminRows /\ TerminCells(row) = TerminCells(termin[t])
      BY <1>0, <2>1, <3>1 DEF TerminRows, TerminCells, CellsOf, ACTIVE_STATUSES
    <3>3. UNCHANGED <<now, hold, wait, claims>> /\ termin' = [termin EXCEPT ![t] = row]
      BY <1>5, <2>1 DEF ZmienStatus, ACTIVE_STATUSES
    <3> HIDE DEF row
    <3> QED BY <3>2, <3>3, TerminQuietStep
  <2>2. CASE s \in {"odbyla", "no_show", "odwolana"}
    <3>1. EndVisit(t, s)
      BY <1>5, <2>2 DEF ZmienStatus, ACTIVE_STATUSES
    <3> QED BY <2>2, <3>1, EndVisitStep
  <2> QED BY <2>1, <2>2
<1>6. ASSUME NEW d \in Days, NEW T \in SUBSET Termins, AutoNoShow(d, T) PROVE IInv'
  BY <1>6, AutoNoShowStep
<1>7. ASSUME NEW t \in Termins, NEW b \in Configurations, NEW w \in Spans,
             Reoptymalizuj(t, b, w)
      PROVE  IInv'
  <2> DEFINE row == [termin[t] EXCEPT !.tables = b, !.win = w]
  <2>1. row \in TerminRows /\ row.status \in ACTIVE_STATUSES
    <3>1. termin[t] \in TerminRows /\ termin[t].status \in ACTIVE_STATUSES
      BY <1>0, <1>7 DEF Reoptymalizuj, Active
    <3>2. b \in SUBSET Tables
      BY LedgerAssumption
    <3> QED BY <3>1, <3>2 DEF TerminRows
  <2>2. ReplaceTerminAllocation(t, row)
    BY <1>7 DEF Reoptymalizuj
  <2> HIDE DEF row
  <2> QED BY <2>1, <2>2, ReplaceStep
<1> QED BY <1>1, <1>2, <1>3, <1>4, <1>5, <1>6, <1>7 DEF OperatorNext

LEMMA HostStep ==
    ASSUME IInv, HostNext
    PROVE  IInv'
<1>0. termin \in [Termins -> TerminRows]
  BY DEF IInv, TypeOK
<1>1. ASSUME NEW t \in Termins, NEW b \in Choices, NEW w \in Spans, HostPrzydziel(t, b, w)
      PROVE  IInv'
  <2> DEFINE row == [termin[t] EXCEPT !.tables = b, !.win = w, !.auto = FALSE]
  <2>1. row \in TerminRows /\ row.status \in ACTIVE_STATUSES
    <3>1. termin[t] \in TerminRows /\ termin[t].status \in ACTIVE_STATUSES
      BY <1>0, <1>1 DEF HostPrzydziel, Active
    <3>2. b \in SUBSET Tables
      BY LedgerAssumption DEF Choices
    <3> QED BY <3>1, <3>2 DEF TerminRows
  <2>2. ReplaceTerminAllocation(t, row)
    BY <1>1 DEF HostPrzydziel
  <2> HIDE DEF row
  <2> QED BY <2>1, <2>2, ReplaceStep
<1>2. ASSUME NEW t \in Termins, NEW b \in Choices, NEW w \in Spans, NEW a \in BOOLEAN,
             HostPosadz(t, b, w, a)
      PROVE  IInv'
  <2> DEFINE row == [Seated(termin[t]) EXCEPT !.tables = b, !.win = w, !.auto = a]
  <2>1. Seated(termin[t]) \in TerminRows /\ Seated(termin[t]).status \in ACTIVE_STATUSES
    BY <1>0, <1>2, SeatedType DEF HostPosadz, Active
  <2>2. row \in TerminRows /\ row.status \in ACTIVE_STATUSES
    BY <2>1, LedgerAssumption DEF TerminRows, Choices
  <2>3. ReplaceTerminAllocation(t, row)
    BY <1>2 DEF HostPosadz
  <2> HIDE DEF row
  <2> QED BY <2>2, <2>3, ReplaceStep
<1>3. ASSUME NEW t \in Termins, HostPosadzZakonczona(t) PROVE IInv'
  <2> DEFINE row == Seated(termin[t])
  <2>1. row \in TerminRows /\ TerminCells(row) = {}
    BY <1>0, <1>3, SeatedType DEF HostPosadzZakonczona, Active, TerminCells
  <2>2. UNCHANGED <<now, hold, wait>> /\ termin' = [termin EXCEPT ![t] = row]
        /\ claims' = Released(claims, t)
    BY <1>0, <1>3 DEF HostPosadzZakonczona
  <2> HIDE DEF row
  <2> QED BY <2>1, <2>2, TerminReleaseStep
<1>4. ASSUME NEW t \in Termins, NEW f \in Fazy, HostZmienFaze(t, f) PROVE IInv'
  <2>1. CASE f = "posadzony"
    <3> DEFINE row == Seated(termin[t])
    <3>1. row \in TerminRows /\ TerminCells(row) = TerminCells(termin[t])
      BY <1>0, SeatedType
    <3>2. UNCHANGED <<now, hold, wait, claims>> /\ termin' = [termin EXCEPT ![t] = row]
      BY <1>4, <2>1 DEF HostZmienFaze
    <3> HIDE DEF row
    <3> QED BY <3>1, <3>2, TerminQuietStep
  <2>2. CASE f = "wyszedl"
    <3> DEFINE s == IF Active(t) THEN "odbyla" ELSE termin[t].status
               row == Finished([termin[t] EXCEPT !.faza = f], s)
    <3>1. [termin[t] EXCEPT !.faza = f] \in TerminRows
      BY <1>0 DEF TerminRows
    <3>2. s \in {"brak", "odbyla", "no_show", "odwolana", "usunieta"}
      BY <1>0 DEF Active, ACTIVE_STATUSES, TerminRows
    <3>3. row \in TerminRows /\ TerminCells(row) = {}
      <4> HIDE DEF s
      <4> QED BY <3>1, <3>2, FinishedType
    <3>4. UNCHANGED <<now, hold, wait>> /\ termin' = [termin EXCEPT ![t] = row]
          /\ claims' = Released(claims, t)
      BY <1>4, <2>2 DEF HostZmienFaze
    <3> HIDE DEF row
    <3> QED BY <3>3, <3>4, TerminReleaseStep
  <2>3. CASE f \notin {"posadzony", "wyszedl"}
    <3> DEFINE row == [termin[t] EXCEPT !.faza = f]
    <3>1. row \in TerminRows /\ TerminCells(row) = TerminCells(termin[t])
      BY <1>0 DEF TerminRows, TerminCells, CellsOf
    <3>2. UNCHANGED <<now, hold, wait, claims>> /\ termin' = [termin EXCEPT ![t] = row]
      BY <1>4, <2>3 DEF HostZmienFaze
    <3> HIDE DEF row
    <3> QED BY <3>1, <3>2, TerminQuietStep
  <2> QED BY <2>1, <2>2, <2>3
<1> QED BY <1>1, <1>2, <1>3, <1>4 DEF HostNext

LEMMA WaitlistStep ==
    ASSUME IInv, WaitlistNext
    PROVE  IInv'
<1>0. /\ wait \in [Waits -> WaitRows]
      /\ \A w \in Waits : wait[w].day \in Days /\ {wait[w].day} \in SUBSET Days
  BY DEF IInv, TypeOK, WaitRows
<1>1. ASSUME NEW w \in Waits, NEW d \in Days, DodajWpis(w, d) PROVE IInv'
  <2> DEFINE row == [BlankWait EXCEPT !.status = "oczekuje", !.day = d]
  <2>1. row \in WaitRows /\ WaitCells(row) = {}
    BY BlankRows DEF BlankWait, WaitRows, WaitCells, CellsOf
  <2>2. WaitCells(wait[w]) = {}
    BY <1>0, <1>1 DEF DodajWpis, WaitRows, WaitCells, CellsOf
  <2>3. wait' = [wait EXCEPT ![w] = row] /\ UNCHANGED <<now, hold, termin, claims>>
    BY <1>1 DEF DodajWpis
  <2> HIDE DEF row
  <2>4. TypeOK'
    BY <2>1, <2>3 DEF IInv, TypeOK
  <2>5. \A o \in Owners : /\ Ask(hold, wait, termin)'[o] = Ask(hold, wait, termin)[o]
                          /\ Ask(hold, wait, termin)[o] # {} =>
                               Due(hold, wait)'[o] = Due(hold, wait)[o]
    BY <1>0, <2>1, <2>2, <2>3, BlankRows DEF Ask, Due, Owners
  <2> QED BY <2>3, <2>4, <2>5, QuietStep
<1>2. ASSUME NEW w \in Waits, UsunWpis(w) PROVE IInv'
  <2> DEFINE row == [BlankWait EXCEPT !.status = "usuniety"]
  <2>1. row \in WaitRows /\ WaitCells(row) = {}
    BY BlankRows DEF BlankWait, WaitRows, WaitCells, CellsOf
  <2>2. UNCHANGED <<now, hold, termin>> /\ wait' = [wait EXCEPT ![w] = row]
        /\ claims' = Released(claims, w)
    BY <1>2 DEF UsunWpis
  <2> HIDE DEF row
  <2> QED BY <2>1, <2>2, WaitReleaseStep
<1>3. ASSUME NEW w \in Waits, OdswiezWygasniecie(w) \/ Priorytet(w) \/ Powiadom(w) PROVE IInv'
  BY <1>0, <1>3, CleanupStep DEF OdswiezWygasniecie, Priorytet, Powiadom
<1>4. ASSUME NEW w \in Waits, Anuluj(w) PROVE IInv'
  <2> DEFINE row == [BlankWait EXCEPT !.status = "anulowano"]
  <2>1. row \in WaitRows /\ WaitCells(row) = {}
    BY BlankRows DEF BlankWait, WaitRows, WaitCells, CellsOf
  <2>2. LeaveHold(w, row)
    BY <1>4 DEF Anuluj
  <2> HIDE DEF row
  <2> QED BY <2>1, <2>2, LeaveHoldStep
<1>5. ASSUME NEW w \in Waits, Wycofaj(w) PROVE IInv'
  <2> DEFINE row == [WithoutHold(wait[w]) EXCEPT !.status = "oczekuje"]
  <2>1. row \in WaitRows /\ WaitCells(row) = {}
    BY <1>0, BlankRows DEF WithoutHold, WaitRows, WaitCells, CellsOf
  <2>2. LeaveHold(w, row)
    BY <1>5 DEF Wycofaj
  <2> HIDE DEF row
  <2> QED BY <2>1, <2>2, LeaveHoldStep
<1>6. ASSUME NEW w \in Waits, ZwolnijLegacyHold(w) PROVE IInv'
  <2> DEFINE row == WithoutHold(wait[w])
  <2>1. row \in WaitRows /\ WaitCells(row) = {}
    BY <1>0, BlankRows DEF WithoutHold, WaitRows, WaitCells, CellsOf
  <2>2. UNCHANGED <<now, hold, termin>> /\ wait' = [wait EXCEPT ![w] = row]
        /\ claims' = Released(claims, w)
    BY <1>0, <1>6 DEF ZwolnijLegacyHold
  <2> HIDE DEF row
  <2> QED BY <2>1, <2>2, WaitReleaseStep
<1>7. ASSUME NEW w \in Waits, NEW b \in Configurations, NEW win \in Spans,
             Zaoferuj(w, b, win) \/ LegacyHold(w, b, win)
      PROVE  IInv'
  BY <1>7, ZalozHoldStep DEF Zaoferuj, LegacyHold
<1>8. {"-", "posadzony"} \subseteq Fazy
  BY DEF Fazy, HOST_PRZEJSCIA
<1>9. ASSUME NEW w \in Waits, NEW t \in Termins, NEW f \in {"-", "posadzony"},
             NEW a \in BOOLEAN, NEW o \in BOOLEAN, Zaakceptuj(w, t, f, a, o)
      PROVE  IInv'
  <2> DEFINE row == [status |-> "potwierdzona", faza |-> f, day |-> wait[w].day,
                     tables |-> wait[w].tables, win |-> wait[w].win,
                     auto |-> a, online |-> o]
  <2>1. wait[w].day \in Days /\ wait[w].tables \in SUBSET Tables /\ wait[w].win \in Spans
    BY <1>0 DEF WaitRows
  <2>2. row \in TerminRows /\ row.status \in ACTIVE_STATUSES
    BY <1>8, <2>1 DEF TerminRows, ACTIVE_STATUSES
  <2>3. Realise(w, t, row)
    BY <1>9 DEF Zaakceptuj
  <2> HIDE DEF row
  <2> QED BY <2>2, <2>3, RealiseStep
<1>10. ASSUME NEW w \in Waits, NEW t \in Termins, NEW b \in Configurations, NEW win \in Spans,
              NEW f \in {"-", "posadzony"}, NEW a \in BOOLEAN, NEW o \in BOOLEAN,
              Zrealizuj(w, t, b, win, f, a, o)
       PROVE  IInv'
  <2> DEFINE guest == o /\ f = "-"
             row == [status |-> "potwierdzona", faza |-> f, day |-> wait[w].day,
                     tables |-> b, win |-> win, auto |-> a, online |-> guest]
  <2>1. b \in SUBSET Tables /\ guest \in BOOLEAN
    BY LedgerAssumption
  <2>2. row \in TerminRows /\ row.status \in ACTIVE_STATUSES
    <3> HIDE DEF guest
    <3> QED BY <1>0, <1>8, <2>1 DEF TerminRows, ACTIVE_STATUSES
  <2>3. Realise(w, t, row)
    BY <1>10 DEF Zrealizuj
  <2> HIDE DEF guest, row
  <2> QED BY <2>2, <2>3, RealiseStep
<1> QED BY <1>1, <1>2, <1>3, <1>4, <1>5, <1>6, <1>7, <1>9, <1>10 DEF WaitlistNext

LEMMA NextInv ==
    ASSUME IInv, [Next]_vars
    PROVE  IInv'
<1>1. CASE Tick
  <2>1. now' \in 0 .. MaxTime
    BY <1>1, LedgerAssumption DEF Tick, IInv, TypeOK
  <2>2. TypeOK'
    BY <1>1, <2>1 DEF Tick, IInv, TypeOK
  <2> QED BY <1>1, <2>2, QuietStep DEF Tick
<1>2. CASE PublicNext
  BY <1>2, PublicStep
<1>3. CASE OperatorNext
  BY <1>3, OperatorStep
<1>4. CASE HostNext
  BY <1>4, HostStep
<1>5. CASE WaitlistNext
  BY <1>5, WaitlistStep
<1>6. CASE RunWaitlistExpiryOnce
  <2>1. DaysToSweep \in SUBSET Days
    BY DEF DaysToSweep, IInv, TypeOK, HoldRows, WaitRows, ExpiredHolds
  <2> QED BY <1>6, <2>1, CleanupStep DEF RunWaitlistExpiryOnce
<1>7. CASE RebuildLedger
  BY <1>7, RebuildStep
<1>8. CASE UNCHANGED vars
  BY <1>8 DEF vars, IInv, TypeOK
<1> QED BY <1>1, <1>2, <1>3, <1>4, <1>5, <1>6, <1>7, <1>8 DEF Next

\* On a day that was cleaned up every claim that is left is still good.
LEMMA CleanedClaimsAreGood ==
    ASSUME IInv, NEW d \in Days, NEW c \in Cells, c[1] = d,
           CleanupExpiredHolds({d})[c].owner # Nobody
    PROVE  CleanupExpiredHolds({d})[c].exp > now
<1> DEFINE C == CleanupExpiredHolds({d})
           H == ExpirePublicHolds({d})
           W == ExpireWaits({d})
           o == C[c].owner
<1>1. CleanedAgree({d})
  BY CleanupAgrees
<1>2. o \in Owners /\ c \in Ask(H, W, termin)[o] /\ C[c].exp = Due(H, W)[o]
  BY <1>1 DEF CleanedAgree, Agree, Claims
<1>3. now \in Nat /\ now < NoDeadline
  BY BlankRows, LedgerAssumption DEF IInv, TypeOK, NoDeadline
<1> HIDE DEF C, o
<1>4. CASE o \in Holds
  <2>1. c \in HoldCells(H[o]) /\ C[c].exp = H[o].exp
    BY <1>2, <1>4 DEF Ask, Due
  <2>2. H[o].state = "active" /\ H[o].day = d
    BY <2>1 DEF HoldCells, CellsOf
  <2>3. H[o] = hold[o] /\ o \notin ExpiredHolds({d})
    BY <1>4, <2>2 DEF ExpirePublicHolds, BlankHold
  <2>4. hold[o].exp \in Nat
    BY <1>4 DEF IInv, TypeOK, HoldRows, Deadlines
  <2>5. C[c].exp > now
    BY <1>3, <1>4, <2>1, <2>2, <2>3, <2>4 DEF ExpiredHolds
  <2> QED BY <2>5 DEF C
<1>5. CASE o \in Waits
  <2>1. o \notin Holds
    BY <1>5, BlankRows
  <2>2. c \in WaitCells(W[o]) /\ C[c].exp = W[o].exp
    BY <1>2, <1>5, <2>1 DEF Ask, Due
  <2>3. W[o].tables # {} /\ W[o].day = d
    BY <2>2 DEF WaitCells, CellsOf
  <2>4. wait[o] \in WaitRows /\ wait[o].exp \in Nat
    BY <1>5 DEF IInv, TypeOK, WaitRows, Deadlines
  <2>5. W[o] = wait[o] /\ o \notin ExpiredWaits({d})
    BY <1>5, <2>3, <2>4 DEF ExpireWaits, WithoutHold, WaitRows
  <2>6. C[c].exp > now
    BY <1>3, <1>5, <2>2, <2>3, <2>4, <2>5 DEF ExpiredWaits
  <2> QED BY <2>6 DEF C
<1>6. CASE o \in Termins
  <2>1. C[c].exp = NoDeadline
    BY <1>2, <1>6, BlankRows DEF Due
  <2>2. C[c].exp > now
    BY <1>3, <2>1, BlankRows DEF Deadlines
  <2> QED BY <2>2 DEF C
<1> QED BY <1>2, <1>4, <1>5, <1>6 DEF Owners

\* When the rebuild is accepted no visit gets a minute that another visit had: of two
\* visits whose claims would follow each other, the later one began within the claims of
\* the earlier, before or after.
LEMMA NoMinutePasses ==
    ASSUME IInv, NEW b \in Buffers, RebuildAccepted(Rebuffered(b)),
           NEW t \in Termins, NEW u \in Termins, t # u, NEW c \in Cells,
           c \in TerminCells(termin[t]), c \in TerminCells(Rebuffered(b)[u])
    PROVE  FALSE
<1> DEFINE T == Rebuffered(b)
<1>0. /\ T \in [Termins -> TerminRows] /\ termin \in [Termins -> TerminRows]
      /\ \A v \in Termins : Stored(T[v]) = Stored(termin[v])
  BY RebufferedRows DEF IInv, TypeOK
<1>1. ASSUME NEW v \in Termins
      PROVE  /\ T[v].status = termin[v].status /\ T[v].day = termin[v].day
             /\ T[v].tables = termin[v].tables /\ T[v].win.visit = termin[v].win.visit
             /\ T[v].win \in Spans /\ termin[v].win \in Spans
  <2>1. T[v] \in TerminRows /\ termin[v] \in TerminRows /\ Stored(T[v]) = Stored(termin[v])
    BY <1>0
  <2>2. T[v].win \in Spans /\ termin[v].win \in Spans
    BY <2>1 DEF TerminRows
  <2> HIDE DEF T
  <2> QED BY <2>1, <2>2, SameStored
<1>2. \A d \in Cells : ~(d \in TerminCells(T[t]) /\ d \in TerminCells(T[u]))
  <2>1. \A d \in Cells : \A v \in Termins : d \in TerminCells(T[v]) => v \in Covering(T, d)
    BY DEF Covering
  <2>2. \A d \in Cells : \A o, p \in Covering(T, d) : o = p
    BY DEF RebuildAccepted
  <2> QED BY <2>1, <2>2
<1>3. \A d \in Cells : ~(d \in TerminCells(termin[t]) /\ d \in TerminCells(termin[u]))
  <2>1. \A v \in Termins : v \in Owners /\ Ask(hold, wait, termin)[v] = TerminCells(termin[v])
    BY BlankRows DEF Ask, Owners
  <2> QED BY <2>1 DEF IInv, Agree
<1> HIDE DEF T
<1>4. c \in CellsOf(termin[t]) /\ c \in CellsOf(T[u])
      /\ termin[t].status \in ACTIVE_STATUSES /\ T[u].status \in ACTIVE_STATUSES
  BY DEF TerminCells, T
<1>5. PICK x \in termin[t].win.visit : x <= c[3] /\ c[3] <= x + termin[t].win.buffer
  BY <1>4 DEF CellsOf, Minutes
<1>6. PICK y \in T[u].win.visit : y <= c[3] /\ c[3] <= y + T[u].win.buffer
  BY <1>4 DEF CellsOf, Minutes
<1>7. /\ x \in Slots /\ y \in Slots /\ x \in Nat /\ y \in Nat /\ c[3] \in Nat
      /\ termin[t].win.buffer \in Nat /\ T[u].win.buffer \in Nat
  <2>1. Slots \subseteq Nat /\ Buffers \subseteq Nat /\ c[3] \in Slots
    BY LedgerAssumption DEF Cells
  <2>2. x \in Slots /\ y \in Slots
    BY <1>1, <1>5, <1>6, VisitIsClaimed
  <2>3. termin[t].win.buffer \in Buffers /\ T[u].win.buffer \in Buffers
    BY <1>1 DEF Spans
  <2> QED BY <2>1, <2>2, <2>3
<1>8. /\ c[1] = termin[t].day /\ c[2] \in termin[t].tables
      /\ c[1] = T[u].day /\ c[2] \in T[u].tables /\ c[1] \in Days /\ c[2] \in Tables
  BY <1>4 DEF CellsOf, Cells
<1>9. ASSUME NEW s \in Slots
      PROVE  /\ <<c[1], c[2], s>> \in Cells
             /\ s \in Minutes(termin[t].win) => <<c[1], c[2], s>> \in TerminCells(termin[t])
             /\ s \in Minutes(termin[u].win) => <<c[1], c[2], s>> \in TerminCells(termin[u])
             /\ s \in Minutes(T[t].win) => <<c[1], c[2], s>> \in TerminCells(T[t])
             /\ s \in Minutes(T[u].win) => <<c[1], c[2], s>> \in TerminCells(T[u])
  BY <1>1, <1>4, <1>8 DEF TerminCells, CellsOf, Cells
<1>10. CASE x <= y
  <2>1. y \in Minutes(termin[t].win)
    BY <1>5, <1>6, <1>7, <1>10 DEF Minutes
  <2>2. y \in Minutes(termin[u].win)
    BY <1>1, <1>6, VisitIsClaimed
  <2> QED BY <1>3, <1>7, <1>9, <2>1, <2>2
<1>11. CASE y <= x
  <2>1. x \in Minutes(T[u].win)
    BY <1>5, <1>6, <1>7, <1>11 DEF Minutes
  <2>2. x \in Minutes(T[t].win)
    BY <1>1, <1>5, VisitIsClaimed
  <2> QED BY <1>2, <1>7, <1>9, <2>1, <2>2
<1> QED BY <1>7, <1>10, <1>11

-----------------------------------------------------------------------------
(* The theorems.                                                            *)

\* The inductive invariant holds in every state of every run.
THEOREM InductiveInvariant == Spec => []IInv
<1> QED BY InitInv, NextInv, PTL DEF Spec

\* Whatever transactions commit, in whatever order, the rows and the ledger
\* keep their types: no deadline, day or table outside the constants.
THEOREM TypeCorrect == Spec => []TypeOK
<1>1. IInv => TypeOK
  BY DEF IInv
<1> QED BY <1>1, InductiveInvariant, PTL

\* The ledger of claims never drifts from the rows of its owners: holds,
\* offers and visits own exactly the minutes they ask for, until their deadline.
THEOREM LedgerMatchesOwners == Spec => []ClaimsMatchOwners
<1>1. IInv => ClaimsMatchOwners
  BY MatchIsAgreement DEF IInv
<1> QED BY <1>1, InductiveInvariant, PTL

\* No minute of a table is asked for by two owners, whoever they are.
THEOREM TablesAreNotDoubleBooked == Spec => []NoDoubleBooking
<1>1. IInv => NoDoubleBooking
  <2> SUFFICES ASSUME IInv, NEW o \in Owners, NEW p \in Owners, o # p
               PROVE  Asked(o) \cap Asked(p) = {}
    BY DEF NoDoubleBooking
  <2>1. ClaimsMatchOwners
    BY MatchIsAgreement DEF IInv
  <2>2. {c \in Cells : claims[c].owner = o} \cap {c \in Cells : claims[c].owner = p} = {}
    OBVIOUS
  <2> QED BY <2>1, <2>2 DEF ClaimsMatchOwners
<1> QED BY <1>1, InductiveInvariant, PTL

\* A table that the occupancy query calls free after the cleanup of the day
\* can be claimed: the unique key never refuses what the query allowed.
THEOREM FreeTablesCanBeClaimed == Spec => []FreeMeansInsertable
<1>1. IInv => FreeMeansInsertable
  <2> SUFFICES ASSUME IInv, NEW d \in Days, NEW b \in Tables, NEW w \in Spans,
                      b \notin OccupiedTableIds(CleanupExpiredHolds({d}), d, Minutes(w), Nobody),
                      NEW c \in Cells, c[1] = d, c[2] = b, c[3] \in Minutes(w)
               PROVE  CleanupExpiredHolds({d})[c].owner = Nobody
    BY DEF FreeMeansInsertable, Insertable
  <2>1. c = <<d, b, c[3]>>
    BY DEF Cells
  <2>2. SUFFICES ASSUME CleanupExpiredHolds({d})[c].owner # Nobody PROVE FALSE
    OBVIOUS
  <2>3. CleanupExpiredHolds({d})[c].exp > now
    BY <2>2, CleanedClaimsAreGood
  <2> QED BY <2>1, <2>2, <2>3 DEF OccupiedTableIds
<1> QED BY <1>1, InductiveInvariant, PTL

\* The repair at startup changes no claim but that of a visit, only behind the visit itself, and
\* passes no minute of one owner to another: what it takes becomes free, what it adds was free.
THEOREM RebuildMovesOnlyBuffers == Spec => RebuildOnlyMovesBuffers
<1> DEFINE Moves == \A c \in Cells :
              LET was == CleanupExpiredHolds(Days)[c]
              IN  claims'[c] = was
                  \/ \E t \in Termins : /\ {was.owner, claims'[c].owner} = {t, Nobody}
                                         /\ c[3] \notin termin[t].win.visit
<1>1. ASSUME IInv, RebuildLedger PROVE Moves
  <2>1. PICK b \in Buffers :
            /\ RebuildAccepted(Rebuffered(b))
            /\ claims' = [c \in Cells |-> RebuiltClaim(Rebuffered(b), c)]
    BY <1>1 DEF RebuildLedger
  <2> DEFINE H == ExpirePublicHolds(Days)
             W == ExpireWaits(Days)
             K == CleanupExpiredHolds(Days)
             T == Rebuffered(b)
  <2>2. /\ K \in [Cells -> Claims]
        /\ Agree(K, Ask(H, W, termin), Due(H, W))
    BY <1>1, CleanupAgrees DEF CleanedAgree
  <2>3. /\ claims' \in [Cells -> Claims]
        /\ Agree(claims', Ask(H, W, T), Due(H, W))
    BY <1>1, <2>1, RebuiltAgrees
  <2>4. T \in [Termins -> TerminRows] /\ termin \in [Termins -> TerminRows]
        /\ \A t \in Termins : Stored(T[t]) = Stored(termin[t])
    BY <1>1, RebufferedRows DEF IInv, TypeOK
  <2>5. ASSUME NEW t \in Termins, NEW u \in Termins, t # u,
               NEW c \in Cells, c \in TerminCells(termin[t]), c \in TerminCells(T[u])
        PROVE  FALSE
    BY <1>1, <2>1, <2>5, NoMinutePasses
  <2> HIDE DEF H, W, K, T
  <2>6. \A o \in Owners : o \notin Termins => Ask(H, W, T)[o] = Ask(H, W, termin)[o]
    BY DEF Ask, Owners
  <2>7. \A t \in Termins : t \in Owners /\ Ask(H, W, T)[t] = TerminCells(T[t])
                           /\ Ask(H, W, termin)[t] = TerminCells(termin[t])
    BY BlankRows DEF Ask, Owners
  <2>8. ASSUME NEW c \in Cells
        PROVE  \/ claims'[c] = K[c]
               \/ \E t \in Termins : /\ {K[c].owner, claims'[c].owner} = {t, Nobody}
                                      /\ c[3] \notin termin[t].win.visit
    <3>1. /\ K[c] \in Claims /\ claims'[c] \in Claims
          /\ \A o \in Owners : K[c].owner = o <=> c \in Ask(H, W, termin)[o]
          /\ \A o \in Owners : claims'[c].owner = o <=> c \in Ask(H, W, T)[o]
          /\ K[c].owner \in Owners \cup {Nobody} /\ claims'[c].owner \in Owners \cup {Nobody}
      BY <2>2, <2>3 DEF Agree, Claims
    <3>2. CASE K[c].owner = claims'[c].owner
      <4>1. K[c].exp = claims'[c].exp
        BY <2>2, <2>3, <3>2 DEF Agree
      <4> QED BY <3>1, <3>2, <4>1 DEF Claims
    <3>3. CASE K[c].owner # claims'[c].owner
      <4>1. K[c].owner \in Termins \cup {Nobody} /\ claims'[c].owner \in Termins \cup {Nobody}
        BY <2>6, <3>1, <3>3
      <4>2. CASE K[c].owner \in Termins /\ claims'[c].owner \in Termins
        BY <2>5, <2>7, <3>1, <3>3, <4>2
      <4>3. CASE K[c].owner \in Termins /\ claims'[c].owner = Nobody
        <5>1. PICK t \in Termins : t = K[c].owner
          BY <4>3
        <5>2. c \in TerminCells(termin[t]) /\ c \notin TerminCells(T[t])
          BY <2>7, <3>1, <3>3, <5>1
        <5>3. c[3] \notin termin[t].win.visit
          BY <2>4, <5>2, LostCellsAreBuffer
        <5> QED BY <4>3, <5>1, <5>3
      <4>4. CASE K[c].owner = Nobody /\ claims'[c].owner \in Termins
        <5>1. PICK t \in Termins : t = claims'[c].owner
          BY <4>4
        <5>2. c \notin TerminCells(termin[t]) /\ c \in TerminCells(T[t])
          BY <2>7, <3>1, <3>3, <5>1
        <5>3. c[3] \notin T[t].win.visit
          BY <2>4, <5>2, LostCellsAreBuffer
        <5>4. T[t].win.visit = termin[t].win.visit
          BY <2>4, SameStored
        <5> QED BY <4>4, <5>1, <5>3, <5>4
      <4> QED BY <3>3, <4>1, <4>2, <4>3, <4>4
    <3> QED BY <3>2, <3>3
  <2> QED BY <2>8 DEF K
<1>2. IInv /\ [Next]_vars => [RebuildLedger => Moves]_vars
  <2> HIDE DEF Moves
  <2> QED BY <1>1
<1> QED BY <1>2, InductiveInvariant, PTL DEF Spec, RebuildOnlyMovesBuffers

-----------------------------------------------------------------------------
(* The kinds of transactions.  Every step is one of these; what the handlers *)
(* that share a kind differ in does not matter to the properties below.      *)

VisitMoves(t, row) == Active(t) \/ row.status \in {termin[t].status, "usunieta"}

VisitPlaced(t) ==
    \E row \in TerminRows :
        /\ row.status \in ACTIVE_STATUSES
        /\ termin[t].status = "brak" \/ Active(t)
        /\ ReplaceTerminAllocation(t, row)

VisitEnded(t) ==
    \E row \in TerminRows :
        /\ TerminCells(row) = {}
        /\ VisitMoves(t, row)
        /\ UNCHANGED <<now, hold, wait>>
        /\ termin' = [termin EXCEPT ![t] = row]
        /\ claims' = Released(claims, t)

VisitKept(t) ==
    \E row \in TerminRows :
        /\ TerminCells(row) = TerminCells(termin[t])
        /\ VisitMoves(t, row)
        /\ UNCHANGED <<now, hold, wait, claims>>
        /\ termin' = [termin EXCEPT ![t] = row]

EntryLeft(w) ==
    \E row \in WaitRows :
        /\ WaitCells(row) = {} /\ row.status \in {"oczekuje", "anulowano"}
        /\ wait[w].status \in {"oczekuje", "zaoferowano"}
        /\ LeaveHold(w, row)

EntryClosed(w) ==
    \E row \in WaitRows :
        /\ WaitCells(row) = {}
        /\ row.status = "usuniety" \/ (wait[w].status = "oczekuje" /\ row.status = "oczekuje")
        /\ UNCHANGED <<now, hold, termin>>
        /\ wait' = [wait EXCEPT ![w] = row]
        /\ claims' = Released(claims, w)

EntryMade(w) ==
    \E row \in WaitRows :
        /\ WaitCells(row) = {} /\ wait[w].status = "brak" /\ row.status = "oczekuje"
        /\ UNCHANGED <<now, hold, termin, claims>>
        /\ wait' = [wait EXCEPT ![w] = row]

EntryPromised(w) ==
    \E s \in {"oczekuje", "zaoferowano"}, b \in Configurations, win \in Spans :
        ZalozHold(w, s, b, win)

EntryRealised(w, t) ==
    \E row \in TerminRows :
        /\ row.status \in ACTIVE_STATUSES
        /\ \/ OfferValid(w) /\ CellsOf(row) = WaitCells(wait[w])
           \/ wait[w].status = "oczekuje"
        /\ Realise(w, t, row)

Transaction ==
    \/ Tick
    \/ \E D \in SUBSET Days : CommitCleanup(D)
    \/ \E h \in Holds : OnlineZwolnijHold(h)
    \/ \E h \in Holds, d \in Days, b \in Configurations, w \in Spans : OnlineUtworzHold(h, d, b, w)
    \/ \E h \in Holds, t \in Termins, s \in ACTIVE_STATUSES, w \in Spans : OnlineRezerwacja(h, t, s, w)
    \/ \E t \in Termins : VisitPlaced(t) \/ VisitEnded(t) \/ VisitKept(t)
    \/ \E d \in Days, T \in SUBSET Termins : AutoNoShow(d, T)
    \/ \E w \in Waits : EntryLeft(w) \/ EntryClosed(w) \/ EntryMade(w) \/ EntryPromised(w)
    \/ \E w \in Waits, t \in Termins : EntryRealised(w, t)
    \/ RebuildLedger

LEMMA PublicKinds ==
    ASSUME IInv, PublicNext
    PROVE  Transaction
<1>0. termin \in [Termins -> TerminRows]
  BY DEF IInv, TypeOK
<1>1. ASSUME NEW t \in Termins, OnlinePotwierdz(t) PROVE VisitKept(t)
  <2> DEFINE row == [termin[t] EXCEPT !.status = "potwierdzona"]
  <2>1. row \in TerminRows /\ TerminCells(row) = TerminCells(termin[t]) /\ Active(t)
    BY <1>0, <1>1 DEF OnlinePotwierdz, TerminRows, TerminCells, CellsOf, ACTIVE_STATUSES, Active
  <2>2. UNCHANGED <<now, hold, wait, claims>> /\ termin' = [termin EXCEPT ![t] = row]
    BY <1>1 DEF OnlinePotwierdz
  <2> HIDE DEF row
  <2> QED BY <2>1, <2>2 DEF VisitKept, VisitMoves
<1>2. ASSUME NEW t \in Termins, OnlineOdwolaj(t) PROVE VisitEnded(t)
  BY <1>0, <1>2, FinishedType DEF OnlineOdwolaj, EndVisit, VisitEnded, VisitMoves
<1>3. ASSUME NEW t \in Termins, NEW d \in Days, NEW b \in Configurations, NEW w \in Spans,
             OnlineEdytuj(t, d, b, w)
      PROVE  VisitPlaced(t)
  <2> DEFINE row == [termin[t] EXCEPT !.day = d, !.tables = b, !.win = w, !.auto = TRUE]
  <2>1. row \in TerminRows /\ row.status \in ACTIVE_STATUSES
    <3>1. termin[t] \in TerminRows /\ termin[t].status \in ACTIVE_STATUSES
      BY <1>0, <1>3 DEF OnlineEdytuj, Active
    <3>2. b \in SUBSET Tables
      BY LedgerAssumption
    <3> QED BY <3>1, <3>2 DEF TerminRows
  <2>2. ReplaceTerminAllocation(t, row) /\ Active(t)
    BY <1>3 DEF OnlineEdytuj
  <2> HIDE DEF row
  <2> QED BY <2>1, <2>2 DEF VisitPlaced
<1> QED BY <1>1, <1>2, <1>3 DEF PublicNext, Transaction

LEMMA OperatorKinds ==
    ASSUME IInv, OperatorNext
    PROVE  Transaction
<1>0. termin \in [Termins -> TerminRows]
  BY DEF IInv, TypeOK
<1>1. ASSUME NEW t \in Termins, NEW d \in Days, NEW b \in Choices, NEW w \in Spans,
             NEW f \in {"-", "posadzony"}, NEW a \in BOOLEAN, DodajRezerwacje(t, d, b, w, f, a)
      PROVE  VisitPlaced(t)
  <2> DEFINE row == [status |-> "potwierdzona", faza |-> f, day |-> d, tables |-> b,
                     win |-> w, auto |-> a, online |-> FALSE]
  <2>1. f \in Fazy /\ b \in SUBSET Tables
    BY LedgerAssumption DEF Fazy, HOST_PRZEJSCIA, Choices
  <2>2. row \in TerminRows /\ row.status \in ACTIVE_STATUSES
    BY <2>1 DEF TerminRows, ACTIVE_STATUSES
  <2>3. ReplaceTerminAllocation(t, row) /\ termin[t].status = "brak"
    BY <1>1 DEF DodajRezerwacje
  <2> HIDE DEF row
  <2> QED BY <2>2, <2>3 DEF VisitPlaced
<1>2. ASSUME NEW t \in Termins, NEW d \in Days, NEW b \in Choices, NEW w \in Spans,
             EdytujRezerwacje(t, d, b, w)
      PROVE  VisitPlaced(t)
  <2> DEFINE a == (b = termin[t].tables /\ b # {}) /\ termin[t].auto
             row == [termin[t] EXCEPT !.day = d, !.tables = b, !.win = w, !.auto = a]
  <2>1. a \in BOOLEAN
    BY <1>0 DEF TerminRows
  <2>2. row \in TerminRows /\ row.status \in ACTIVE_STATUSES
    <3>1. termin[t] \in TerminRows /\ termin[t].status \in ACTIVE_STATUSES
      BY <1>0, <1>2 DEF EdytujRezerwacje, Active
    <3>2. b \in SUBSET Tables
      BY LedgerAssumption DEF Choices
    <3> HIDE DEF a
    <3> QED BY <2>1, <3>1, <3>2 DEF TerminRows
  <2>3. ReplaceTerminAllocation(t, row) /\ Active(t)
    BY <1>2 DEF EdytujRezerwacje
  <2> HIDE DEF row
  <2> QED BY <2>2, <2>3 DEF VisitPlaced
<1>3. ASSUME NEW t \in Termins, ZwolnijPoPlatnosci(t) PROVE VisitEnded(t)
  BY <1>0, <1>3, FinishedType DEF ZwolnijPoPlatnosci, EndVisit, VisitEnded, VisitMoves
<1>4. ASSUME NEW t \in Termins, UsunRezerwacje(t) PROVE VisitEnded(t)
  <2> DEFINE row == [BlankTermin EXCEPT !.status = "usunieta"]
  <2>1. row \in TerminRows /\ TerminCells(row) = {} /\ row.status = "usunieta"
    BY BlankRows DEF BlankTermin, TerminRows, TerminCells, ACTIVE_STATUSES
  <2>2. UNCHANGED <<now, hold, wait>> /\ termin' = [termin EXCEPT ![t] = row]
        /\ claims' = Released(claims, t)
    BY <1>4 DEF UsunRezerwacje
  <2> HIDE DEF row
  <2> QED BY <2>1, <2>2 DEF VisitEnded, VisitMoves
<1>5. ASSUME NEW t \in Termins, NEW s \in {"potwierdzona", "odbyla", "no_show", "odwolana"},
             ZmienStatus(t, s)
      PROVE  VisitEnded(t) \/ VisitKept(t)
  <2>0. Active(t)
    BY <1>0, <1>5 DEF ZmienStatus, REZ_PRZEJSCIA, Active, ACTIVE_STATUSES, TerminRows
  <2>1. CASE s = "potwierdzona"
    <3> DEFINE row == [termin[t] EXCEPT !.status = s]
    <3>1. row \in TerminRows /\ TerminCells(row) = TerminCells(termin[t])
      BY <1>0, <2>0, <2>1 DEF TerminRows, TerminCells, CellsOf, Active, ACTIVE_STATUSES
    <3>2. UNCHANGED <<now, hold, wait, claims>> /\ termin' = [termin EXCEPT ![t] = row]
      BY <1>5, <2>1 DEF ZmienStatus, ACTIVE_STATUSES
    <3> HIDE DEF row
    <3> QED BY <2>0, <3>1, <3>2 DEF VisitKept, VisitMoves
  <2>2. CASE s \in {"odbyla", "no_show", "odwolana"}
    <3>1. EndVisit(t, s)
      BY <1>5, <2>2 DEF ZmienStatus, ACTIVE_STATUSES
    <3> QED BY <1>0, <2>0, <2>2, <3>1, FinishedType DEF EndVisit, VisitEnded, VisitMoves
  <2> QED BY <2>1, <2>2
<1>6. ASSUME NEW t \in Termins, NEW b \in Configurations, NEW w \in Spans,
             Reoptymalizuj(t, b, w)
      PROVE  VisitPlaced(t)
  <2> DEFINE row == [termin[t] EXCEPT !.tables = b, !.win = w]
  <2>1. row \in TerminRows /\ row.status \in ACTIVE_STATUSES
    <3>1. termin[t] \in TerminRows /\ termin[t].status \in ACTIVE_STATUSES
      BY <1>0, <1>6 DEF Reoptymalizuj, Active
    <3>2. b \in SUBSET Tables
      BY LedgerAssumption
    <3> QED BY <3>1, <3>2 DEF TerminRows
  <2>2. ReplaceTerminAllocation(t, row) /\ Active(t)
    BY <1>6 DEF Reoptymalizuj
  <2> HIDE DEF row
  <2> QED BY <2>1, <2>2 DEF VisitPlaced
<1> QED BY <1>1, <1>2, <1>3, <1>4, <1>5, <1>6 DEF OperatorNext, Transaction

LEMMA HostKinds ==
    ASSUME IInv, HostNext
    PROVE  Transaction
<1>0. termin \in [Termins -> TerminRows]
  BY DEF IInv, TypeOK
<1>1. ASSUME NEW t \in Termins, NEW b \in Choices, NEW w \in Spans, HostPrzydziel(t, b, w)
      PROVE  VisitPlaced(t)
  <2> DEFINE row == [termin[t] EXCEPT !.tables = b, !.win = w, !.auto = FALSE]
  <2>1. row \in TerminRows /\ row.status \in ACTIVE_STATUSES
    <3>1. termin[t] \in TerminRows /\ termin[t].status \in ACTIVE_STATUSES
      BY <1>0, <1>1 DEF HostPrzydziel, Active
    <3>2. b \in SUBSET Tables
      BY LedgerAssumption DEF Choices
    <3> QED BY <3>1, <3>2 DEF TerminRows
  <2>2. ReplaceTerminAllocation(t, row) /\ Active(t)
    BY <1>1 DEF HostPrzydziel
  <2> HIDE DEF row
  <2> QED BY <2>1, <2>2 DEF VisitPlaced
<1>2. ASSUME NEW t \in Termins, NEW b \in Choices, NEW w \in Spans, NEW a \in BOOLEAN,
             HostPosadz(t, b, w, a)
      PROVE  VisitPlaced(t)
  <2> DEFINE row == [Seated(termin[t]) EXCEPT !.tables = b, !.win = w, !.auto = a]
  <2>1. Seated(termin[t]) \in TerminRows /\ Seated(termin[t]).status \in ACTIVE_STATUSES
    BY <1>0, <1>2, SeatedType DEF HostPosadz, Active
  <2>2. row \in TerminRows /\ row.status \in ACTIVE_STATUSES
    BY <2>1, LedgerAssumption DEF TerminRows, Choices
  <2>3. ReplaceTerminAllocation(t, row) /\ Active(t)
    BY <1>2 DEF HostPosadz
  <2> HIDE DEF row
  <2> QED BY <2>2, <2>3 DEF VisitPlaced
<1>3. ASSUME NEW t \in Termins, HostPosadzZakonczona(t) PROVE VisitEnded(t)
  <2> DEFINE row == Seated(termin[t])
  <2>1. row \in TerminRows /\ TerminCells(row) = {} /\ row.status = termin[t].status
    <3>1. row \in TerminRows /\ TerminCells(row) = {}
      BY <1>0, <1>3, SeatedType DEF HostPosadzZakonczona, Active, TerminCells
    <3>2. row.status = termin[t].status
      BY <1>0, <1>3 DEF HostPosadzZakonczona, Active, Seated, ACTIVE_STATUSES, TerminRows
    <3> QED BY <3>1, <3>2
  <2>2. UNCHANGED <<now, hold, wait>> /\ termin' = [termin EXCEPT ![t] = row]
        /\ claims' = Released(claims, t)
    BY <1>0, <1>3 DEF HostPosadzZakonczona
  <2> HIDE DEF row
  <2> QED BY <2>1, <2>2 DEF VisitEnded, VisitMoves
<1>4. ASSUME NEW t \in Termins, NEW f \in Fazy, HostZmienFaze(t, f)
      PROVE  VisitEnded(t) \/ VisitKept(t)
  <2>1. CASE f = "posadzony"
    <3> DEFINE row == Seated(termin[t])
    <3>1. row \in TerminRows /\ TerminCells(row) = TerminCells(termin[t])
      BY <1>0, SeatedType
    <3>2. Active(t) \/ row.status = termin[t].status
      BY <1>0 DEF Active, ACTIVE_STATUSES, Seated, TerminRows
    <3>3. UNCHANGED <<now, hold, wait, claims>> /\ termin' = [termin EXCEPT ![t] = row]
      BY <1>4, <2>1 DEF HostZmienFaze
    <3> HIDE DEF row
    <3> QED BY <3>1, <3>2, <3>3 DEF VisitKept, VisitMoves
  <2>2. CASE f = "wyszedl"
    <3> DEFINE s == IF Active(t) THEN "odbyla" ELSE termin[t].status
               row == Finished([termin[t] EXCEPT !.faza = f], s)
    <3>1. [termin[t] EXCEPT !.faza = f] \in TerminRows
      BY <1>0 DEF TerminRows
    <3>2. s \in {"brak", "odbyla", "no_show", "odwolana", "usunieta"}
      BY <1>0 DEF Active, ACTIVE_STATUSES, TerminRows
    <3>3. row \in TerminRows /\ TerminCells(row) = {}
      <4> HIDE DEF s
      <4> QED BY <3>1, <3>2, FinishedType
    <3>4. Active(t) \/ row.status = termin[t].status
      BY DEF Finished, BlankTermin
    <3>5. UNCHANGED <<now, hold, wait>> /\ termin' = [termin EXCEPT ![t] = row]
          /\ claims' = Released(claims, t)
      BY <1>4, <2>2 DEF HostZmienFaze
    <3> HIDE DEF row
    <3> QED BY <3>3, <3>4, <3>5 DEF VisitEnded, VisitMoves
  <2>3. CASE f \notin {"posadzony", "wyszedl"}
    <3> DEFINE row == [termin[t] EXCEPT !.faza = f]
    <3>1. row \in TerminRows /\ TerminCells(row) = TerminCells(termin[t])
          /\ row.status = termin[t].status
      BY <1>0 DEF TerminRows, TerminCells, CellsOf
    <3>2. UNCHANGED <<now, hold, wait, claims>> /\ termin' = [termin EXCEPT ![t] = row]
      BY <1>4, <2>3 DEF HostZmienFaze
    <3> HIDE DEF row
    <3> QED BY <3>1, <3>2 DEF VisitKept, VisitMoves
  <2> QED BY <2>1, <2>2, <2>3
<1> QED BY <1>1, <1>2, <1>3, <1>4 DEF HostNext, Transaction

LEMMA WaitlistKinds ==
    ASSUME IInv, WaitlistNext
    PROVE  Transaction
<1>0. /\ wait \in [Waits -> WaitRows]
      /\ \A w \in Waits : wait[w].day \in Days /\ {wait[w].day} \in SUBSET Days
  BY DEF IInv, TypeOK, WaitRows
<1>1. ASSUME NEW w \in Waits, NEW d \in Days, DodajWpis(w, d) PROVE EntryMade(w)
  <2> DEFINE row == [BlankWait EXCEPT !.status = "oczekuje", !.day = d]
  <2>1. row \in WaitRows /\ WaitCells(row) = {} /\ row.status = "oczekuje"
    BY BlankRows DEF BlankWait, WaitRows, WaitCells, CellsOf
  <2>2. wait' = [wait EXCEPT ![w] = row] /\ UNCHANGED <<now, hold, termin, claims>>
        /\ wait[w].status = "brak"
    BY <1>1 DEF DodajWpis
  <2> HIDE DEF row
  <2> QED BY <2>1, <2>2 DEF EntryMade
<1>2. ASSUME NEW w \in Waits, UsunWpis(w) PROVE EntryClosed(w)
  <2> DEFINE row == [BlankWait EXCEPT !.status = "usuniety"]
  <2>1. row \in WaitRows /\ WaitCells(row) = {} /\ row.status = "usuniety"
    BY BlankRows DEF BlankWait, WaitRows, WaitCells, CellsOf
  <2>2. UNCHANGED <<now, hold, termin>> /\ wait' = [wait EXCEPT ![w] = row]
        /\ claims' = Released(claims, w)
    BY <1>2 DEF UsunWpis
  <2> HIDE DEF row
  <2> QED BY <2>1, <2>2 DEF EntryClosed
<1>3. ASSUME NEW w \in Waits, OdswiezWygasniecie(w) \/ Priorytet(w) \/ Powiadom(w)
      PROVE  \E D \in SUBSET Days : CommitCleanup(D)
  BY <1>0, <1>3 DEF OdswiezWygasniecie, Priorytet, Powiadom
<1>4. ASSUME NEW w \in Waits, Anuluj(w) PROVE EntryLeft(w)
  <2> DEFINE row == [BlankWait EXCEPT !.status = "anulowano"]
  <2>1. row \in WaitRows /\ WaitCells(row) = {} /\ row.status = "anulowano"
    BY BlankRows DEF BlankWait, WaitRows, WaitCells, CellsOf
  <2>2. LeaveHold(w, row) /\ wait[w].status \in {"oczekuje", "zaoferowano"}
    BY <1>4 DEF Anuluj, OfferValid
  <2> HIDE DEF row
  <2> QED BY <2>1, <2>2 DEF EntryLeft
<1>5. ASSUME NEW w \in Waits, Wycofaj(w) PROVE EntryLeft(w)
  <2> DEFINE row == [WithoutHold(wait[w]) EXCEPT !.status = "oczekuje"]
  <2>1. row \in WaitRows /\ WaitCells(row) = {} /\ row.status = "oczekuje"
    BY <1>0, BlankRows DEF WithoutHold, WaitRows, WaitCells, CellsOf
  <2>2. LeaveHold(w, row) /\ wait[w].status = "zaoferowano"
    BY <1>5 DEF Wycofaj, OfferValid
  <2> HIDE DEF row
  <2> QED BY <2>1, <2>2 DEF EntryLeft
<1>6. ASSUME NEW w \in Waits, ZwolnijLegacyHold(w) PROVE EntryClosed(w)
  <2> DEFINE row == WithoutHold(wait[w])
  <2>1. row \in WaitRows /\ WaitCells(row) = {} /\ row.status = wait[w].status
    BY <1>0, BlankRows DEF WithoutHold, WaitRows, WaitCells, CellsOf
  <2>2. UNCHANGED <<now, hold, termin>> /\ wait' = [wait EXCEPT ![w] = row]
        /\ claims' = Released(claims, w) /\ wait[w].status = "oczekuje"
    BY <1>0, <1>6 DEF ZwolnijLegacyHold
  <2> HIDE DEF row
  <2> QED BY <2>1, <2>2 DEF EntryClosed
<1>7. ASSUME NEW w \in Waits, NEW b \in Configurations, NEW win \in Spans,
             Zaoferuj(w, b, win) \/ LegacyHold(w, b, win)
      PROVE  EntryPromised(w)
  BY <1>7 DEF Zaoferuj, LegacyHold, EntryPromised
<1>8. {"-", "posadzony"} \subseteq Fazy
  BY DEF Fazy, HOST_PRZEJSCIA
<1>9. ASSUME NEW w \in Waits, NEW t \in Termins, NEW f \in {"-", "posadzony"},
             NEW a \in BOOLEAN, NEW o \in BOOLEAN, Zaakceptuj(w, t, f, a, o)
      PROVE  EntryRealised(w, t)
  <2> DEFINE row == [status |-> "potwierdzona", faza |-> f, day |-> wait[w].day,
                     tables |-> wait[w].tables, win |-> wait[w].win,
                     auto |-> a, online |-> o]
  <2>1. wait[w].day \in Days /\ wait[w].tables \in SUBSET Tables /\ wait[w].win \in Spans
    BY <1>0 DEF WaitRows
  <2>2. row \in TerminRows /\ row.status \in ACTIVE_STATUSES
    BY <1>8, <2>1 DEF TerminRows, ACTIVE_STATUSES
  <2>3. CellsOf(row) = WaitCells(wait[w])
    BY DEF WaitCells, CellsOf
  <2>4. Realise(w, t, row) /\ OfferValid(w)
    BY <1>9 DEF Zaakceptuj
  <2> HIDE DEF row
  <2> QED BY <2>2, <2>3, <2>4 DEF EntryRealised
<1>10. ASSUME NEW w \in Waits, NEW t \in Termins, NEW b \in Configurations, NEW win \in Spans,
              NEW f \in {"-", "posadzony"}, NEW a \in BOOLEAN, NEW o \in BOOLEAN,
              Zrealizuj(w, t, b, win, f, a, o)
       PROVE  EntryRealised(w, t)
  <2> DEFINE guest == o /\ f = "-"
             row == [status |-> "potwierdzona", faza |-> f, day |-> wait[w].day,
                     tables |-> b, win |-> win, auto |-> a, online |-> guest]
  <2>1. b \in SUBSET Tables /\ guest \in BOOLEAN
    BY LedgerAssumption
  <2>2. row \in TerminRows /\ row.status \in ACTIVE_STATUSES
    <3> HIDE DEF guest
    <3> QED BY <1>0, <1>8, <2>1 DEF TerminRows, ACTIVE_STATUSES
  <2>3. Realise(w, t, row) /\ wait[w].status = "oczekuje"
    BY <1>10 DEF Zrealizuj
  <2> HIDE DEF guest, row
  <2> QED BY <2>2, <2>3 DEF EntryRealised
<1> QED BY <1>1, <1>2, <1>3, <1>4, <1>5, <1>6, <1>7, <1>9, <1>10 DEF WaitlistNext, Transaction

\* Every step is a transaction of one of these kinds.
LEMMA StepKinds ==
    ASSUME IInv, Next
    PROVE  Transaction
<1>1. CASE Tick
  BY <1>1 DEF Transaction
<1>2. CASE RunWaitlistExpiryOnce
  <2>1. DaysToSweep \in SUBSET Days
    BY DEF DaysToSweep, IInv, TypeOK, HoldRows, WaitRows, ExpiredHolds
  <2> QED BY <1>2, <2>1 DEF RunWaitlistExpiryOnce, Transaction
<1>3. CASE RebuildLedger
  BY <1>3 DEF Transaction
<1> QED BY <1>1, <1>2, <1>3, PublicKinds, OperatorKinds, HostKinds, WaitlistKinds DEF Next

-----------------------------------------------------------------------------
(* What one step may do to a row.                                           *)

HoldSwept(h, row) == hold[h].state = "active" /\ hold[h].exp <= now /\ row.state = "expired"

WaitSwept(w, row) ==
    /\ wait[w].exp <= now /\ row.tables = {}
    /\ \/ row.status = wait[w].status
       \/ wait[w].status = "zaoferowano" /\ row.status = "wygasla"

HoldMoves(h) ==
    \/ hold'[h] = hold[h]
    \/ HoldSwept(h, hold'[h])
    \/ hold[h].state = "active" /\ hold'[h].state = "released"
    \/ /\ hold[h].state = "active" /\ hold[h].exp > now /\ hold'[h].state = "consumed"
       /\ \E t \in Termins : /\ termin[t].status = "brak" /\ termin'[t].status \in ACTIVE_STATUSES
                             /\ termin'[t].tables = hold[h].tables
                             /\ termin'[t].day = hold[h].day
    \/ hold[h].state = "brak" /\ hold'[h].state = "active"

WaitMoves(w) ==
    \/ wait'[w] = wait[w]
    \/ WaitSwept(w, wait'[w])
    \/ /\ wait[w].status \in {"brak", "oczekuje", "zaoferowano"}
       /\ wait'[w].status \in {"oczekuje", "zaoferowano", "anulowano"}
    \/ wait'[w].status = "usuniety"
    \/ wait[w].status = "oczekuje" /\ wait'[w].status = "zaakceptowano"
    \/ /\ OfferValid(w) /\ wait'[w].status = "zaakceptowano"
       /\ \E t \in Termins : /\ termin[t].status = "brak"
                             /\ TerminCells(termin'[t]) = WaitCells(wait[w])

TerminMoves(t) ==
    \/ termin'[t] = termin[t]
    \/ termin[t].status = "brak" \/ Active(t)
    \/ termin'[t].status \in {termin[t].status, "usunieta"}

LEMMA SweptRows ==
    ASSUME IInv, NEW D \in SUBSET Days
    PROVE  /\ \A h \in Holds : \/ ExpirePublicHolds(D)[h] = hold[h]
                               \/ HoldSwept(h, ExpirePublicHolds(D)[h])
           /\ \A w \in Waits : \/ ExpireWaits(D)[w] = wait[w]
                               \/ WaitSwept(w, ExpireWaits(D)[w])
<1>1. ASSUME NEW h \in Holds
      PROVE  ExpirePublicHolds(D)[h] = hold[h] \/ HoldSwept(h, ExpirePublicHolds(D)[h])
  BY DEF ExpirePublicHolds, ExpiredHolds, HoldSwept, BlankHold
<1>2. ASSUME NEW w \in Waits
      PROVE  ExpireWaits(D)[w] = wait[w] \/ WaitSwept(w, ExpireWaits(D)[w])
  <2>1. wait[w] \in WaitRows
    BY DEF IInv, TypeOK
  <2>2. CASE w \in ExpiredWaits(D)
    <3>1. ExpireWaits(D)[w] = [WithoutHold(wait[w]) EXCEPT !.status = IF @ = "zaoferowano" THEN "wygasla" ELSE @]
      BY <2>2 DEF ExpireWaits
    <3> QED BY <2>1, <2>2, <3>1 DEF WithoutHold, WaitSwept, ExpiredWaits, WaitRows
  <2>3. CASE w \notin ExpiredWaits(D)
    BY <2>3 DEF ExpireWaits
  <2> QED BY <2>2, <2>3
<1> QED BY <1>1, <1>2

\* A transaction writes the rows of at most one hold, one entry and one visit,
\* and sweeps the days it looks at.
LEMMA RowsMove ==
    ASSUME IInv, Next
    PROVE  /\ \A h \in Holds : HoldMoves(h)
           /\ \A w \in Waits : WaitMoves(w)
           /\ \A t \in Termins : TerminMoves(t)
<1> USE DEF HoldMoves, WaitMoves, TerminMoves
<1>0. /\ hold \in [Holds -> HoldRows] /\ wait \in [Waits -> WaitRows]
      /\ termin \in [Termins -> TerminRows]
  BY DEF IInv, TypeOK
<1>00. ASSUME NEW D \in SUBSET Days
       PROVE  /\ ExpirePublicHolds(D) \in [Holds -> HoldRows]
              /\ ExpireWaits(D) \in [Waits -> WaitRows]
              /\ \A h \in Holds : \/ ExpirePublicHolds(D)[h] = hold[h]
                                  \/ HoldSwept(h, ExpirePublicHolds(D)[h])
              /\ \A w \in Waits : \/ ExpireWaits(D)[w] = wait[w]
                                  \/ WaitSwept(w, ExpireWaits(D)[w])
  BY CleanupAgrees, SweptRows DEF CleanedAgree
<1>1. CASE Tick
  BY <1>1 DEF Tick
<1>2. ASSUME NEW D \in SUBSET Days, CommitCleanup(D)
      PROVE  /\ \A h \in Holds : HoldMoves(h)
             /\ \A w \in Waits : WaitMoves(w)
             /\ \A t \in Termins : TerminMoves(t)
  BY <1>00, <1>2 DEF CommitCleanup
<1>3. ASSUME NEW h \in Holds, OnlineZwolnijHold(h)
      PROVE  /\ \A k \in Holds : HoldMoves(k)
             /\ \A w \in Waits : WaitMoves(w)
             /\ \A t \in Termins : TerminMoves(t)
  BY <1>0, <1>3 DEF OnlineZwolnijHold, BlankHold, HoldSwept
<1>4. ASSUME NEW h \in Holds, NEW d \in Days, NEW b \in Configurations, NEW w \in Spans,
             OnlineUtworzHold(h, d, b, w)
      PROVE  /\ \A k \in Holds : HoldMoves(k)
             /\ \A v \in Waits : WaitMoves(v)
             /\ \A t \in Termins : TerminMoves(t)
  BY <1>00, <1>4 DEF OnlineUtworzHold
<1>5. ASSUME NEW h \in Holds, NEW t \in Termins, NEW s \in ACTIVE_STATUSES, NEW w \in Spans,
             OnlineRezerwacja(h, t, s, w)
      PROVE  /\ \A k \in Holds : HoldMoves(k)
             /\ \A v \in Waits : WaitMoves(v)
             /\ \A u \in Termins : TerminMoves(u)
  <2> DEFINE D == {hold[h].day}
             row == [status |-> s, faza |-> "-", day |-> hold[h].day, tables |-> hold[h].tables,
                     win |-> w, auto |-> TRUE, online |-> TRUE]
  <2>1. D \in SUBSET Days
    BY <1>0 DEF HoldRows
  <2>2. /\ hold[h].state = "active" /\ hold[h].exp > now /\ termin[t].status = "brak"
        /\ hold' = [ExpirePublicHolds(D) EXCEPT ![h] = [BlankHold EXCEPT !.state = "consumed"]]
        /\ wait' = ExpireWaits(D)
        /\ termin' = [termin EXCEPT ![t] = row]
    BY <1>5 DEF OnlineRezerwacja
  <2>3. row.status \in ACTIVE_STATUSES /\ row.tables = hold[h].tables /\ row.day = hold[h].day
    OBVIOUS
  <2>4. [BlankHold EXCEPT !.state = "consumed"].state = "consumed"
    BY DEF BlankHold
  <2> HIDE DEF D, row
  <2>5. HoldMoves(h)
    BY <1>0, <1>00, <2>1, <2>2, <2>3, <2>4
  <2> QED BY <1>0, <1>00, <2>1, <2>2, <2>5
<1>6. ASSUME NEW t \in Termins, VisitPlaced(t) \/ VisitEnded(t) \/ VisitKept(t)
      PROVE  /\ \A h \in Holds : HoldMoves(h)
             /\ \A w \in Waits : WaitMoves(w)
             /\ \A u \in Termins : TerminMoves(u)
  <2>1. CASE VisitPlaced(t)
    <3>1. PICK row \in TerminRows : /\ termin[t].status = "brak" \/ Active(t)
                                    /\ ReplaceTerminAllocation(t, row)
      BY <2>1 DEF VisitPlaced
    <3>2. {row.day} \in SUBSET Days
      BY DEF TerminRows
    <3> QED BY <1>0, <1>00, <3>1, <3>2 DEF ReplaceTerminAllocation
  <2>2. CASE VisitEnded(t) \/ VisitKept(t)
    BY <1>0, <2>2 DEF VisitEnded, VisitKept, VisitMoves
  <2> QED BY <1>6, <2>1, <2>2
<1>7. ASSUME NEW d \in Days, NEW T \in SUBSET Termins, AutoNoShow(d, T)
      PROVE  /\ \A h \in Holds : HoldMoves(h)
             /\ \A w \in Waits : WaitMoves(w)
             /\ \A t \in Termins : TerminMoves(t)
  BY <1>7 DEF AutoNoShow
<1>8. ASSUME NEW w \in Waits,
             EntryLeft(w) \/ EntryClosed(w) \/ EntryMade(w) \/ EntryPromised(w)
      PROVE  /\ \A h \in Holds : HoldMoves(h)
             /\ \A v \in Waits : WaitMoves(v)
             /\ \A t \in Termins : TerminMoves(t)
  <2>0. {wait[w].day} \in SUBSET Days
    BY <1>0 DEF WaitRows
  <2>1. CASE EntryLeft(w)
    BY <1>0, <1>00, <2>0, <2>1 DEF EntryLeft, LeaveHold
  <2>2. CASE EntryClosed(w) \/ EntryMade(w)
    BY <1>0, <2>2 DEF EntryClosed, EntryMade
  <2>3. CASE EntryPromised(w)
    BY <1>0, <1>00, <2>0, <2>3 DEF EntryPromised, ZalozHold
  <2> QED BY <1>8, <2>1, <2>2, <2>3
<1>9. ASSUME NEW w \in Waits, NEW t \in Termins, EntryRealised(w, t)
      PROVE  /\ \A h \in Holds : HoldMoves(h)
             /\ \A v \in Waits : WaitMoves(v)
             /\ \A u \in Termins : TerminMoves(u)
  <2> DEFINE D == {wait[w].day}
  <2>0. D \in SUBSET Days
    BY <1>0 DEF WaitRows
  <2>1. PICK row \in TerminRows :
              /\ row.status \in ACTIVE_STATUSES
              /\ \/ OfferValid(w) /\ CellsOf(row) = WaitCells(wait[w])
                 \/ wait[w].status = "oczekuje"
              /\ Realise(w, t, row)
    BY <1>9 DEF EntryRealised
  <2>2. /\ termin[t].status = "brak"
        /\ hold' = ExpirePublicHolds(D)
        /\ wait' = [ExpireWaits(D) EXCEPT ![w] = [BlankWait EXCEPT !.status = "zaakceptowano"]]
        /\ termin' = [termin EXCEPT ![t] = row]
    BY <2>1 DEF Realise
  <2>3. [BlankWait EXCEPT !.status = "zaakceptowano"].status = "zaakceptowano"
    BY DEF BlankWait
  <2>4. TerminCells(row) = CellsOf(row)
    BY <2>1 DEF TerminCells
  <2> HIDE DEF D
  <2>5. WaitMoves(w)
    <3>1. wait'[w].status = "zaakceptowano" /\ termin'[t] = row
      BY <1>0, <1>00, <2>0, <2>2, <2>3
    <3> QED BY <2>1, <2>2, <2>4, <3>1
  <2> QED BY <1>0, <1>00, <2>0, <2>2, <2>5
<1>10. CASE RebuildLedger
  <2>1. PICK b \in Buffers : /\ termin' = Rebuffered(b)
                             /\ hold' = ExpirePublicHolds(Days)
                             /\ wait' = ExpireWaits(Days)
    BY <1>10 DEF RebuildLedger
  <2>2. \A t \in Termins : TerminMoves(t)
    BY <2>1, RebufferedRows
  <2> QED BY <1>00, <2>1, <2>2
<1> QED BY StepKinds, <1>1, <1>2, <1>3, <1>4, <1>5, <1>6, <1>7, <1>8, <1>9, <1>10 DEF Transaction

-----------------------------------------------------------------------------

LEMMA CleanupOwners ==
    \A D : \A c \in Cells : CleanupExpiredHolds(D)[c].owner \in {claims[c].owner, Nobody}
BY DEF CleanupExpiredHolds, FreeClaim

LEMMA FittingIsNotLive ==
    ASSUME NEW C, NEW row, NEW o, Fits(C, row, o)
    PROVE  \A c \in CellsOf(row) : c[2] \notin LiveTables(c[1], o)
BY DEF Fits, CellsOf, OccupiedTableIds

\* A new claim is on a table where no party sits.
LEMMA NewClaimsAreNotLive ==
    ASSUME IInv, Next, NEW c \in Cells, claims'[c].owner \notin {claims[c].owner, Nobody}
    PROVE  c[2] \notin LiveTables(c[1], claims'[c].owner)
<1>1. CASE Tick
  BY <1>1 DEF Tick
<1>2. ASSUME NEW D \in SUBSET Days, CommitCleanup(D)
      PROVE  FALSE
  BY <1>2, CleanupOwners DEF CommitCleanup
<1>3. ASSUME NEW h \in Holds, OnlineZwolnijHold(h)
      PROVE  FALSE
  BY <1>3 DEF OnlineZwolnijHold, Released, FreeClaim
<1>4. ASSUME NEW h \in Holds, NEW d \in Days, NEW b \in Configurations, NEW w \in Spans,
             OnlineUtworzHold(h, d, b, w)
      PROVE  c[2] \notin LiveTables(c[1], claims'[c].owner)
  <2> DEFINE row == [state |-> "active", day |-> d, tables |-> b, win |-> w, exp |-> now + HoldTTL]
             C == CleanupExpiredHolds({d})
  <2>1. Fits(C, row, Nobody) /\ claims' = Inserted(C, CellsOf(row), h, row.exp)
    BY <1>4 DEF OnlineUtworzHold
  <2>2. C[c].owner \in {claims[c].owner, Nobody}
    BY CleanupOwners
  <2> HIDE DEF row, C
  <2>3. c \in CellsOf(row) /\ claims'[c].owner = h
    BY <2>1, <2>2 DEF Inserted
  <2>4. Nobody \notin Termins /\ h \notin Termins
    BY BlankRows DEF Owners
  <2>5. LiveTables(c[1], h) = LiveTables(c[1], Nobody)
    BY <2>4 DEF LiveTables
  <2> QED BY <2>1, <2>3, <2>5, FittingIsNotLive
<1>5. ASSUME NEW h \in Holds, NEW t \in Termins, NEW s \in ACTIVE_STATUSES, NEW w \in Spans,
             OnlineRezerwacja(h, t, s, w)
      PROVE  c[2] \notin LiveTables(c[1], claims'[c].owner)
  <2> DEFINE row == [status |-> s, faza |-> "-", day |-> hold[h].day, tables |-> hold[h].tables,
                     win |-> w, auto |-> TRUE, online |-> TRUE]
             K == CleanupExpiredHolds({hold[h].day})
             C == Released(Transferred(K, h, t), t)
  <2>1. Fits(C, row, t) /\ claims' = Inserted(C, CellsOf(row), t, NoDeadline)
    BY <1>5 DEF OnlineRezerwacja
  <2>2. K[c].owner \in {claims[c].owner, Nobody}
    BY CleanupOwners
  <2>3. C[c].owner \in {claims[c].owner, Nobody}
    <3> HIDE DEF K
    <3> QED BY <2>2 DEF Released, Transferred, FreeClaim
  <2> HIDE DEF row, C, K
  <2>4. c \in CellsOf(row) /\ claims'[c].owner = t
    BY <2>1, <2>3 DEF Inserted
  <2> QED BY <2>1, <2>4, FittingIsNotLive
<1>6. ASSUME NEW t \in Termins, VisitPlaced(t) \/ VisitEnded(t) \/ VisitKept(t)
      PROVE  c[2] \notin LiveTables(c[1], claims'[c].owner)
  <2>1. PICK row \in TerminRows : ReplaceTerminAllocation(t, row)
    BY <1>6 DEF VisitPlaced, VisitEnded, VisitKept, Released, FreeClaim
  <2> DEFINE K == CleanupExpiredHolds({row.day})
             C == Released(K, t)
  <2>2. Fits(C, row, t) /\ claims' = Inserted(C, CellsOf(row), t, NoDeadline)
    BY <2>1 DEF ReplaceTerminAllocation
  <2>3. C[c].owner \in {claims[c].owner, Nobody}
    BY CleanupOwners DEF Released, FreeClaim
  <2> HIDE DEF K, C
  <2>4. c \in CellsOf(row) /\ claims'[c].owner = t
    BY <2>2, <2>3 DEF Inserted
  <2> QED BY <2>2, <2>4, FittingIsNotLive
<1>7. ASSUME NEW d \in Days, NEW T \in SUBSET Termins, AutoNoShow(d, T)
      PROVE  FALSE
  BY <1>7 DEF AutoNoShow, FreeClaim
<1>8. ASSUME NEW w \in Waits,
             EntryLeft(w) \/ EntryClosed(w) \/ EntryMade(w) \/ EntryPromised(w)
      PROVE  c[2] \notin LiveTables(c[1], claims'[c].owner)
  <2> DEFINE K == CleanupExpiredHolds({wait[w].day})
             C == Released(K, w)
  <2>1. C[c].owner \in {claims[c].owner, Nobody}
    BY CleanupOwners DEF Released, FreeClaim
  <2>2. CASE EntryLeft(w)
    BY <2>1, <2>2 DEF EntryLeft, LeaveHold
  <2>3. CASE EntryClosed(w) \/ EntryMade(w)
    BY <2>3 DEF EntryClosed, EntryMade, Released, FreeClaim
  <2>4. CASE EntryPromised(w)
    <3>1. PICK s \in {"oczekuje", "zaoferowano"}, b \in Configurations, win \in Spans :
               ZalozHold(w, s, b, win)
      BY <2>4 DEF EntryPromised
    <3> DEFINE row == [status |-> s, day |-> wait[w].day, tables |-> b, win |-> win,
                       exp |-> now + OfferTTL]
    <3>2. Fits(C, row, w) /\ claims' = Inserted(C, CellsOf(row), w, row.exp)
      BY <3>1 DEF ZalozHold
    <3> HIDE DEF row, C, K
    <3>3. c \in CellsOf(row) /\ claims'[c].owner = w
      BY <2>1, <3>2 DEF Inserted
    <3> QED BY <3>2, <3>3, FittingIsNotLive
  <2> QED BY <1>8, <2>2, <2>3, <2>4
<1>9. ASSUME NEW w \in Waits, NEW t \in Termins, EntryRealised(w, t)
      PROVE  c[2] \notin LiveTables(c[1], claims'[c].owner)
  <2> DEFINE K == CleanupExpiredHolds({wait[w].day})
             C == Released(K, w)
  <2>1. C[c].owner \in {claims[c].owner, Nobody}
    BY CleanupOwners DEF Released, FreeClaim
  <2>2. PICK row \in TerminRows : Realise(w, t, row)
    BY <1>9 DEF EntryRealised
  <2>3. Fits(C, row, t) /\ claims' = Inserted(C, CellsOf(row), t, NoDeadline)
    BY <2>2 DEF Realise
  <2> HIDE DEF K, C
  <2>4. c \in CellsOf(row) /\ claims'[c].owner = t
    BY <2>1, <2>3 DEF Inserted
  <2> QED BY <2>3, <2>4, FittingIsNotLive
<1>10. CASE RebuildLedger
  <2>1. PICK b \in Buffers :
            /\ RebuildAccepted(Rebuffered(b))
            /\ claims' = [k \in Cells |-> RebuiltClaim(Rebuffered(b), k)]
    BY <1>10 DEF RebuildLedger
  <2> DEFINE T == Rebuffered(b)
             o == claims'[c].owner
  <2>2. o \in Covering(T, c)
    <3>1. claims' \in [Cells -> Claims] /\ claims'[c] = RebuiltClaim(T, c)
      BY <2>1, RebuiltAgrees
    <3>2. o \in Owners
      BY <3>1 DEF Claims
    <3> QED BY <2>1, <3>1, <3>2, RebuiltAgrees
  <2> HIDE DEF o
  <2>3. CASE o \in Holds /\ c \in HoldCells(hold[o]) /\ hold[o].exp > now
    BY <2>1, <2>3 DEF RebuildAccepted, HoldCells, CellsOf, o
  <2>4. CASE o \in Waits /\ c \in WaitCells(wait[o]) /\ wait[o].exp > now
    BY <2>1, <2>4 DEF RebuildAccepted, WaitCells, CellsOf, o
  <2>5. CASE o \in Termins /\ c \in TerminCells(T[o])
    <3>1. /\ T[o] \in TerminRows /\ termin[o] \in TerminRows /\ Stored(T[o]) = Stored(termin[o])
      BY <2>5, RebufferedRows DEF IInv, TypeOK
    <3> HIDE DEF T
    <3>2. T[o].status = termin[o].status /\ T[o].day = termin[o].day /\ T[o].tables = termin[o].tables
      BY <3>1, SameStored
    <3>3. Active(o) /\ c[1] = termin[o].day /\ c[2] \in termin[o].tables
      BY <2>5, <3>2 DEF TerminCells, CellsOf, Active
    <3> QED BY <2>1, <2>5, <3>3 DEF RebuildAccepted, o
  <2> QED BY <2>2, <2>3, <2>4, <2>5 DEF Covering
<1> QED BY StepKinds, <1>1, <1>2, <1>3, <1>4, <1>5, <1>6, <1>7, <1>8, <1>9, <1>10 DEF Transaction

\* What ended stays ended: a finished hold is never used again, a closed entry is never
\* offered or accepted, a finished visit takes no table, whoever acts on it afterwards.
THEOREM EndedStaysEnded == Spec => EndedIsFinal
<1> DEFINE Final ==
             /\ \A h \in Holds : hold[h].state \in {"consumed", "released", "expired"}
                    => hold'[h] = hold[h]
             /\ \A w \in Waits : wait[w].status \in {"zaakceptowano", "wygasla", "anulowano", "usuniety"}
                    => wait'[w].status \in {wait[w].status, "usuniety"} /\ WaitCells(wait'[w]) = {}
             /\ \A t \in Termins : termin[t].status \in {"odbyla", "no_show", "odwolana", "usunieta"}
                    => termin'[t].status \in {termin[t].status, "usunieta"}
<1>1. ASSUME IInv, IInv', Next PROVE Final
  <2>1. ASSUME NEW h \in Holds, hold[h].state \in {"consumed", "released", "expired"}
        PROVE  hold'[h] = hold[h]
    BY <1>1, <2>1, RowsMove DEF HoldMoves, HoldSwept
  <2>2. ASSUME NEW w \in Waits,
               wait[w].status \in {"zaakceptowano", "wygasla", "anulowano", "usuniety"}
        PROVE  wait'[w].status \in {wait[w].status, "usuniety"} /\ WaitCells(wait'[w]) = {}
    <3>1. wait'[w].status \in {wait[w].status, "usuniety"}
      BY <1>1, <2>2, RowsMove DEF WaitMoves, WaitSwept, OfferValid
    <3>2. wait'[w].tables = {}
      BY <1>1, <2>2, <3>1 DEF IInv, TypeOK, WaitRows
    <3> QED BY <3>1, <3>2 DEF WaitCells, CellsOf
  <2>3. ASSUME NEW t \in Termins,
               termin[t].status \in {"odbyla", "no_show", "odwolana", "usunieta"}
        PROVE  termin'[t].status \in {termin[t].status, "usunieta"}
    BY <1>1, <2>3, RowsMove DEF TerminMoves, Active, ACTIVE_STATUSES
  <2> QED BY <2>1, <2>2, <2>3
<1>2. IInv /\ IInv' /\ [Next]_vars => [Final]_vars
  <2> HIDE DEF Final
  <2> QED BY <1>1
<1> QED BY <1>2, InductiveInvariant, PTL DEF Spec, EndedIsFinal

\* An offer is accepted and a hold used only before its deadline, and what the guest
\* gets is a new visit on the promised tables.
THEOREM PromisesBecomeVisits == Spec => PromiseBecomesVisit
<1> DEFINE Kept ==
             /\ \A w \in Waits :
                   wait[w].status = "zaoferowano" /\ wait'[w].status = "zaakceptowano" =>
                       /\ wait[w].exp > now
                       /\ \E t \in Termins : /\ termin[t].status = "brak"
                                             /\ TerminCells(termin'[t]) = WaitCells(wait[w])
             /\ \A h \in Holds :
                   hold[h].state = "active" /\ hold'[h].state = "consumed" =>
                       /\ hold[h].exp > now
                       /\ \E t \in Termins : /\ termin[t].status = "brak"
                                             /\ Active(t)'
                                             /\ termin'[t].tables = hold[h].tables
                                             /\ termin'[t].day = hold[h].day
<1>1. ASSUME IInv, Next PROVE Kept
  <2>1. ASSUME NEW w \in Waits, wait[w].status = "zaoferowano", wait'[w].status = "zaakceptowano"
        PROVE  /\ wait[w].exp > now
               /\ \E t \in Termins : /\ termin[t].status = "brak"
                                     /\ TerminCells(termin'[t]) = WaitCells(wait[w])
    BY <1>1, <2>1, RowsMove DEF WaitMoves, WaitSwept, OfferValid
  <2>2. ASSUME NEW h \in Holds, hold[h].state = "active", hold'[h].state = "consumed"
        PROVE  /\ hold[h].exp > now
               /\ \E t \in Termins : /\ termin[t].status = "brak"
                                     /\ Active(t)'
                                     /\ termin'[t].tables = hold[h].tables
                                     /\ termin'[t].day = hold[h].day
    BY <1>1, <2>2, RowsMove DEF HoldMoves, HoldSwept, Active
  <2> QED BY <2>1, <2>2
<1>2. IInv /\ [Next]_vars => [Kept]_vars
  <2> HIDE DEF Kept
  <2> QED BY <1>1
<1> QED BY <1>2, InductiveInvariant, PTL DEF Spec, PromiseBecomesVisit

\* Before its deadline nobody loses a minute of a table but by its own doing, or the end of
\* its buffer when the buffer of the visit is looked up again and became shorter.
THEOREM PromisesAreKept == Spec => PromisesKept
<1> DEFINE Kept == \A c \in Cells :
                      LET o == claims[c].owner
                      IN  o # Nobody /\ claims[c].exp > now /\ claims'[c].owner # o
                              => GaveUp(o) \/ RestedLess(c)
<1>1. ASSUME IInv, IInv', Next PROVE Kept
  <2> SUFFICES ASSUME NEW c \in Cells, claims[c].owner # Nobody, claims[c].exp > now,
                      claims'[c].owner # claims[c].owner
               PROVE  GaveUp(claims[c].owner) \/ RestedLess(c)
    OBVIOUS
  <2> DEFINE o == claims[c].owner
  <2>1. /\ o \in Owners /\ c \in Ask(hold, wait, termin)[o]
        /\ claims[c].exp = Due(hold, wait)[o]
    BY <1>1 DEF IInv, TypeOK, Agree, Claims
  <2>2. c \notin Ask(hold', wait', termin')[o]
    BY <1>1, <2>1 DEF IInv, Agree
  <2> HIDE DEF o
  <2>3. CASE o \in Holds
    <3>1. c \in HoldCells(hold[o]) /\ c \notin HoldCells(hold'[o]) /\ hold[o].exp > now
      BY <2>1, <2>2, <2>3 DEF Ask, Due
    <3>2. hold[o].state = "active" /\ hold'[o] # hold[o]
      BY <3>1 DEF HoldCells
    <3>3. ~(hold[o].exp <= now)
      BY <1>1, <2>3, <3>1 DEF IInv, TypeOK, HoldRows, Deadlines
    <3>4. hold'[o].state \in {"released", "consumed"}
      BY <1>1, <2>3, <3>2, <3>3, RowsMove DEF HoldMoves, HoldSwept
    <3> QED BY <2>3, <3>4, BlankRows DEF GaveUp, o
  <2>4. CASE o \in Waits
    <3>0. o \notin Holds
      BY <2>4, BlankRows
    <3>1. c \in WaitCells(wait[o]) /\ c \notin WaitCells(wait'[o]) /\ wait[o].exp > now
      BY <2>1, <2>2, <2>4, <3>0 DEF Ask, Due
    <3>2. wait'[o] # wait[o]
      BY <3>1
    <3>3. ~(wait[o].exp <= now)
      BY <1>1, <2>4, <3>1 DEF IInv, TypeOK, WaitRows, Deadlines
    <3>4. wait'[o].status # "wygasla"
      BY <1>1, <2>4, <3>2, <3>3, RowsMove DEF WaitMoves, WaitSwept
    <3> QED BY <2>4, <3>2, <3>4, BlankRows DEF GaveUp, o
  <2>5. CASE o \in Termins
    <3>0. o \notin Holds /\ o \notin Waits
      BY <2>5, BlankRows
    <3>1. c \in TerminCells(termin[o]) /\ c \notin TerminCells(termin'[o])
      BY <2>1, <2>2, <3>0 DEF Ask
    <3>2. termin[o] \in TerminRows /\ termin'[o] \in TerminRows
      BY <1>1, <2>5 DEF IInv, TypeOK
    <3>3. CASE Stored(termin'[o]) # Stored(termin[o])
      BY <2>5, <3>0, <3>3 DEF GaveUp, o
    <3>4. CASE Stored(termin'[o]) = Stored(termin[o])
      <4>1. c[3] \notin termin[o].win.visit /\ termin'[o].win.buffer < termin[o].win.buffer
        BY <3>1, <3>2, <3>4, LostCellsAreBuffer
      <4> QED BY <2>5, <4>1 DEF RestedLess, o
    <3> QED BY <3>3, <3>4
  <2> QED BY <2>1, <2>3, <2>4, <2>5 DEF Owners, o
<1>2. IInv /\ IInv' /\ [Next]_vars => [Kept]_vars
  <2> HIDE DEF Kept
  <2> QED BY <1>1
<1> QED BY <1>2, InductiveInvariant, PTL DEF Spec, PromisesKept

\* A party that sits keeps its tables: no step claims one of them for somebody else.
THEOREM SeatedPartiesKeepTheirTables == Spec => LiveTableNotResold
<1> DEFINE Free == \A c \in Cells :
                      claims'[c].owner \notin {claims[c].owner, Nobody}
                          => c[2] \notin LiveTables(c[1], claims'[c].owner)
<1>1. IInv /\ [Next]_vars => [Free]_vars
  BY NewClaimsAreNotLive
<1> QED BY <1>1, InductiveInvariant, PTL DEF Spec, LiveTableNotResold

-----------------------------------------------------------------------------
(* The rows and their ledger implement the inventory of tables.             *)

\* What a party holds in the inventory is what its row asks for.
LEMMA HeldIsAsked ==
    IInv => \A o \in Owners : /\ Held[o].places = Ask(hold, wait, termin)[o]
                              /\ Held[o].until = Due(hold, wait)[o]
<1> SUFFICES ASSUME IInv, NEW o \in Owners
             PROVE  /\ Held[o].places = Ask(hold, wait, termin)[o]
                    /\ Held[o].until = Due(hold, wait)[o]
  OBVIOUS
<1>1. Held[o] = [places |-> {c \in Cells : claims[c].owner = o}, until |-> DeadlineOf(o)]
  BY DEF Held
<1>2. DeadlineOf(o) = Due(hold, wait)[o]
  <2>1. CASE o \in Holds
    BY <2>1, BlankRows DEF Due, DeadlineOf
  <2>2. CASE o \in Waits
    BY <2>2, BlankRows DEF Due, DeadlineOf
  <2>3. CASE o \in Termins
    BY <2>3, BlankRows DEF Due, DeadlineOf
  <2> QED BY <2>1, <2>2, <2>3 DEF Owners
<1>3. {c \in Cells : claims[c].owner = o} = Ask(hold, wait, termin)[o]
  <2>1. Ask(hold, wait, termin)[o] \in SUBSET Cells
    BY AskType
  <2> QED BY <2>1 DEF IInv, Agree
<1> QED BY <1>1, <1>2, <1>3

LEMMA HeldIsAskedNext ==
    IInv' => \A o \in Owners : /\ Held'[o].places = Ask(hold', wait', termin')[o]
                               /\ Held'[o].until = Due(hold', wait')[o]
<1>1. IInv' => (\A o \in Owners : /\ Held[o].places = Ask(hold, wait, termin)[o]
                                  /\ Held[o].until = Due(hold, wait)[o])'
  BY HeldIsAsked, PTL
<1> QED BY <1>1 DEF Ask, Due

LEMMA Parties == Inventory!Parties = Owners /\ Owners = Holds \cup Waits \cup Termins
BY DEF Inventory!Parties, Owners

\* A row that stays as it is keeps what it holds.
SameRow(q) ==
    /\ q \in Holds => hold'[q] = hold[q]
    /\ q \in Waits => wait'[q] = wait[q]
    /\ q \in Termins => termin'[q] = termin[q]

LEMMA SameRowKeeps ==
    ASSUME IInv, IInv', NEW q \in Owners, SameRow(q)
    PROVE  Inventory!Keeps(q)
<1>1. /\ Held[q].places = Ask(hold, wait, termin)[q] /\ Held[q].until = Due(hold, wait)[q]
      /\ Held'[q].places = Ask(hold', wait', termin')[q] /\ Held'[q].until = Due(hold', wait')[q]
  BY HeldIsAsked, HeldIsAskedNext
<1>2. /\ Ask(hold', wait', termin')[q] = Ask(hold, wait, termin)[q]
      /\ Due(hold', wait')[q] = Due(hold, wait)[q]
  BY BlankRows DEF SameRow, Ask, Due, Owners
<1>3. Held'[q] = Held[q]
  <2>1. /\ Held[q] = [places |-> Held[q].places, until |-> Held[q].until]
        /\ Held'[q] = [places |-> Held'[q].places, until |-> Held'[q].until]
    BY DEF Held
  <2> QED BY <1>1, <1>2, <2>1
<1> QED BY <1>3 DEF Inventory!Keeps, Inventory!Holding

LEMMA NothingAskedIsLost ==
    ASSUME IInv', NEW q \in Owners, Ask(hold', wait', termin')[q] = {}
    PROVE  Inventory!Loses(q)
BY HeldIsAskedNext DEF Inventory!Loses

\* Owners who are swept or left alone.
Bystander(q) ==
    /\ q \in Holds => hold'[q] = hold[q] \/ HoldSwept(q, hold'[q])
    /\ q \in Waits => wait'[q] = wait[q] \/ WaitSwept(q, wait'[q])
    /\ q \in Termins => termin'[q] = termin[q]

LEMMA BystanderKeepsOrExpired ==
    ASSUME IInv, IInv', NEW q \in Owners, Bystander(q)
    PROVE  Inventory!Keeps(q) \/ (Inventory!Expired(q) /\ Inventory!Loses(q))
<1>1. CASE SameRow(q)
  BY <1>1, SameRowKeeps
<1>2. CASE q \in Holds /\ HoldSwept(q, hold'[q])
  <2>1. Held[q].until <= now
    BY <1>2, HeldIsAsked DEF Due, HoldSwept
  <2>2. Ask(hold', wait', termin')[q] = {}
    BY <1>2 DEF Ask, HoldSwept, HoldCells
  <2> QED BY <2>1, <2>2, NothingAskedIsLost DEF Inventory!Expired
<1>3. CASE q \in Waits /\ WaitSwept(q, wait'[q])
  <2>0. q \notin Holds
    BY <1>3, BlankRows
  <2>1. Held[q].until <= now
    BY <1>3, <2>0, HeldIsAsked DEF Due, WaitSwept
  <2>2. Ask(hold', wait', termin')[q] = {}
    BY <1>3, <2>0 DEF Ask, WaitSwept, WaitCells, CellsOf
  <2> QED BY <2>1, <2>2, NothingAskedIsLost DEF Inventory!Expired
<1> QED BY <1>1, <1>2, <1>3, BlankRows DEF Bystander, SameRow, Owners

\* What a party holds next it holds alone.
LEMMA HeldAlone ==
    ASSUME IInv', NEW p \in Owners
    PROVE  Held'[p].places \subseteq Cells /\ Inventory!Alone(p)
<1>1. \A o \in Owners : Held'[o].places = {c \in Cells : claims'[c].owner = o}
  BY DEF Held
<1> QED BY <1>1, Parties DEF Inventory!Alone

\* The three ways in which a transaction of a few rows appears in the inventory.
LEMMA ReleaseShape ==
    ASSUME IInv, IInv', now' = now,
           \A q \in Owners : Bystander(q) \/ Ask(hold', wait', termin')[q] = {}
    PROVE  Inventory!Next
<1>1. \A q \in Owners : Inventory!Keeps(q) \/ Inventory!Loses(q)
  BY BystanderKeepsOrExpired, NothingAskedIsLost
<1> QED BY <1>1, Parties DEF Inventory!Next, Inventory!Release

LEMMA TakeShape ==
    ASSUME IInv, IInv', now' = now, NEW p \in Owners,
           p \in Holds \cup Waits => Due(hold', wait')[p] > now,
           \A q \in Owners \ {p} : Bystander(q)
    PROVE  Inventory!Next
<1>1. p \in Holds \cup Waits => Held'[p].until > now
  BY HeldIsAskedNext
<1>2. \A q \in Owners \ {p} :
          Inventory!Keeps(q) \/ (Inventory!Expired(q) /\ Inventory!Loses(q))
  BY BystanderKeepsOrExpired
<1>3. Inventory!Take(p)
  BY <1>1, <1>2, HeldAlone, Parties DEF Inventory!Take
<1> QED BY <1>3, Parties DEF Inventory!Next

LEMMA SucceedShape ==
    ASSUME IInv, IInv', now' = now, NEW p \in Holds \cup Waits, NEW t \in Termins,
           Ask(hold, wait, termin)[t] = {}, Ask(hold', wait', termin')[p] = {},
           Due(hold, wait)[p] > now \/ Due(hold, wait)[p] <= now,
           \A q \in Owners \ {p, t} : Bystander(q)
    PROVE  Inventory!Next
<1>0. p \in Owners /\ t \in Owners
  BY DEF Owners
<1>1. Held[t].places = {} /\ Held'[p].places = {}
  BY <1>0, HeldIsAsked, HeldIsAskedNext
<1>2. \A q \in Owners \ {p, t} :
          Inventory!Keeps(q) \/ (Inventory!Expired(q) /\ Inventory!Loses(q))
  BY BystanderKeepsOrExpired
<1>3. CASE Held[p].places # {} /\ Held[p].until > now
  <2>1. ~(Held[p].until <= now)
    <3>1. Held[p].until \in Nat /\ now \in Nat
      <4>1. Held[p].until = Due(hold, wait)[p]
        BY <1>0, HeldIsAsked
      <4>2. Due(hold, wait)[p] \in Nat
        BY <1>0, BlankRows DEF Due, IInv, TypeOK, HoldRows, WaitRows, Deadlines
      <4> QED BY <4>1, <4>2 DEF IInv, TypeOK
    <3> QED BY <1>3, <3>1
  <2>2. Inventory!Succeed(p, t)
    BY <1>0, <1>1, <1>2, <1>3, <2>1, HeldAlone, Parties
       DEF Inventory!Succeed, Inventory!Holding, Inventory!Expired, Inventory!Loses
  <2> QED BY <2>2 DEF Inventory!Next
<1>4. CASE Held[p].places = {} \/ Held[p].until <= now
  <2>1. Inventory!Keeps(p) \/ (Inventory!Expired(p) /\ Inventory!Loses(p))
    BY <1>1, <1>4 DEF Inventory!Keeps, Inventory!Holding, Inventory!Expired, Inventory!Loses
  <2>2. \A q \in Inventory!Parties \ {t} :
            Inventory!Keeps(q) \/ (Inventory!Expired(q) /\ Inventory!Loses(q))
    BY <1>2, <2>1, Parties
  <2>3. t \notin Holds \cup Waits
    BY BlankRows
  <2>4. Inventory!Take(t)
    BY <1>0, <2>2, <2>3, HeldAlone DEF Inventory!Take
  <2> QED BY <1>0, <2>4, Parties DEF Inventory!Next
<1>5. Held[p].until = Due(hold, wait)[p]
  BY <1>0, HeldIsAsked
<1> QED BY <1>3, <1>4, <1>5

\* The rebuild measures the places of all visits anew.
LEMMA RemeasureShape ==
    ASSUME IInv, IInv', RebuildLedger
    PROVE  Inventory!Next
<1>1. PICK b \in Buffers :
          /\ termin' = Rebuffered(b) /\ RebuildAccepted(Rebuffered(b))
          /\ hold' = ExpirePublicHolds(Days) /\ wait' = ExpireWaits(Days) /\ now' = now
  BY DEF RebuildLedger
<1>2. \A p \in Holds \cup Waits :
          Inventory!Keeps(p) \/ (Inventory!Expired(p) /\ Inventory!Loses(p))
  <2> SUFFICES ASSUME NEW p \in Holds \cup Waits
               PROVE  Inventory!Keeps(p) \/ (Inventory!Expired(p) /\ Inventory!Loses(p))
    OBVIOUS
  <2>1. p \in Owners /\ p \notin Termins
    BY BlankRows DEF Owners
  <2>2. Bystander(p)
    BY <1>1, <2>1, SweptRows DEF Bystander
  <2> QED BY <2>1, <2>2, BystanderKeepsOrExpired
<1>3. ASSUME NEW t \in Termins
      PROVE  /\ t \in Owners
             /\ Held[t].places = TerminCells(termin[t])
             /\ Held'[t].places = TerminCells(Rebuffered(b)[t])
  <2>1. t \in Owners /\ t \notin Holds /\ t \notin Waits
    BY BlankRows DEF Owners
  <2> QED BY <1>1, <2>1, HeldIsAsked, HeldIsAskedNext DEF Ask
<1>4. ASSUME NEW t \in Termins
      PROVE  IF TerminCells(termin[t]) # {}
             THEN TerminCells(Rebuffered(b)[t]) \cap TerminCells(termin[t]) # {}
             ELSE TerminCells(Rebuffered(b)[t]) = {}
  <2> DEFINE r == termin[t]
             q == Rebuffered(b)[t]
  <2>0. r \in TerminRows /\ q \in TerminRows /\ Stored(r) = Stored(q)
    BY RebufferedRows DEF IInv, TypeOK
  <2> HIDE DEF r, q
  <2>1. /\ r.status = q.status /\ r.day = q.day /\ r.tables = q.tables /\ r.win.visit = q.win.visit
        /\ r.win \in Spans /\ q.win \in Spans /\ r.day \in Days /\ r.tables \subseteq Tables
    <3>1. r.win \in Spans /\ q.win \in Spans /\ r.day \in Days /\ r.tables \subseteq Tables
      BY <2>0 DEF TerminRows
    <3> QED BY <2>0, <3>1, SameStored
  <2>2. PICK x \in r.win.visit : x \in Slots /\ x \in Minutes(r.win) /\ x \in Minutes(q.win)
    BY <2>1, VisitIsClaimed
  <2>3. CASE r.status \in ACTIVE_STATUSES /\ r.tables # {}
    <3>1. PICK a \in r.tables : TRUE
      BY <2>3
    <3>2. <<r.day, a, x>> \in TerminCells(r) /\ <<r.day, a, x>> \in TerminCells(q)
      BY <2>1, <2>2, <2>3, <3>1 DEF TerminCells, CellsOf, Cells
    <3> QED BY <3>2 DEF r, q
  <2>4. CASE ~(r.status \in ACTIVE_STATUSES /\ r.tables # {})
    <3>1. TerminCells(r) = {} /\ TerminCells(q) = {}
      BY <2>1, <2>4 DEF TerminCells, CellsOf
    <3> QED BY <3>1 DEF r, q
  <2> QED BY <2>3, <2>4
<1>5. ASSUME NEW t \in Termins, NEW u \in Termins \ {t}
      PROVE  TerminCells(Rebuffered(b)[t]) \cap TerminCells(termin[u]) = {}
  <2>1. TerminCells(Rebuffered(b)[t]) \subseteq Cells
    BY DEF TerminCells, CellsOf
  <2> QED BY <1>1, <2>1, NoMinutePasses
<1>6. Inventory!Remeasure
  <2>1. ASSUME NEW t \in Termins
        PROVE  /\ Held'[t].places \subseteq Cells /\ Inventory!Alone(t)
               /\ IF Inventory!Holding(t) THEN Held'[t].places \cap Held[t].places # {}
                                          ELSE Inventory!Loses(t)
               /\ \A u \in Termins \ {t} : Held'[t].places \cap Held[u].places = {}
    <3>1. Held'[t].places \subseteq Cells /\ Inventory!Alone(t)
      BY <1>3, HeldAlone
    <3>2. IF Inventory!Holding(t) THEN Held'[t].places \cap Held[t].places # {}
                                  ELSE Inventory!Loses(t)
      BY <1>3, <1>4 DEF Inventory!Holding, Inventory!Loses
    <3>3. \A u \in Termins \ {t} : Held'[t].places \cap Held[u].places = {}
      BY <1>3, <1>5
    <3> QED BY <3>1, <3>2, <3>3
  <2> QED BY <1>1, <1>2, <2>1 DEF Inventory!Remeasure
<1> QED BY <1>6 DEF Inventory!Next

LEMMA InventoryStep ==
    ASSUME IInv, IInv', Next
    PROVE  Inventory!Next
<1>0. /\ hold \in [Holds -> HoldRows] /\ wait \in [Waits -> WaitRows]
      /\ termin \in [Termins -> TerminRows] /\ now \in Nat
  BY DEF IInv, TypeOK
<1>00. /\ Owners = Holds \cup Waits \cup Termins
       /\ Holds \cap Waits = {} /\ Holds \cap Termins = {} /\ Waits \cap Termins = {}
  BY BlankRows DEF Owners
<1>000. ASSUME NEW D \in SUBSET Days
       PROVE  /\ ExpirePublicHolds(D) \in [Holds -> HoldRows]
              /\ ExpireWaits(D) \in [Waits -> WaitRows]
              /\ \A h \in Holds : \/ ExpirePublicHolds(D)[h] = hold[h]
                                  \/ HoldSwept(h, ExpirePublicHolds(D)[h])
              /\ \A w \in Waits : \/ ExpireWaits(D)[w] = wait[w]
                                  \/ WaitSwept(w, ExpireWaits(D)[w])
  BY CleanupAgrees, SweptRows DEF CleanedAgree
<1>1. CASE Tick
  <2>1. \A q \in Owners : Inventory!Keeps(q)
    BY <1>1, SameRowKeeps DEF Tick, SameRow
  <2> QED BY <1>1, <2>1, Parties DEF Tick, Inventory!Next, Inventory!Advance
<1>2. ASSUME NEW D \in SUBSET Days, CommitCleanup(D)
      PROVE  Inventory!Next
  <2>1. \A q \in Owners : Bystander(q)
    BY <1>000, <1>2 DEF CommitCleanup, Bystander
  <2> QED BY <1>2, <2>1, ReleaseShape DEF CommitCleanup
<1>3. ASSUME NEW h \in Holds, OnlineZwolnijHold(h)
      PROVE  Inventory!Next
  <2>1. \A q \in Owners \ {h} : Bystander(q)
    BY <1>3, <1>0 DEF OnlineZwolnijHold, Bystander
  <2>2. hold'[h].state # "active"
    BY <1>0, <1>3 DEF OnlineZwolnijHold, BlankHold
  <2>3. Ask(hold', wait', termin')[h] = {}
    BY <1>00, <2>2 DEF Ask, HoldCells
  <2> QED BY <1>3, <2>1, <2>3, ReleaseShape DEF OnlineZwolnijHold
<1>4. ASSUME NEW h \in Holds, NEW d \in Days, NEW b \in Configurations, NEW w \in Spans,
             OnlineUtworzHold(h, d, b, w)
      PROVE  Inventory!Next
  <2>0. {d} \in SUBSET Days
    OBVIOUS
  <2>1. \A q \in Owners \ {h} : Bystander(q)
    BY <1>000, <1>00, <2>0, <1>4 DEF OnlineUtworzHold, Bystander
  <2>2. hold'[h].exp = now + HoldTTL
    BY <1>000, <2>0, <1>4 DEF OnlineUtworzHold
  <2>3. Due(hold', wait')[h] > now
    BY <1>0, <1>00, <2>2, LedgerAssumption DEF Due
  <2> QED BY <1>00, <1>4, <2>1, <2>3, TakeShape DEF OnlineUtworzHold
<1>5. ASSUME NEW h \in Holds, NEW t \in Termins, NEW s \in ACTIVE_STATUSES, NEW w \in Spans,
             OnlineRezerwacja(h, t, s, w)
      PROVE  Inventory!Next
  <2> DEFINE D == {hold[h].day}
             row == [status |-> s, faza |-> "-", day |-> hold[h].day, tables |-> hold[h].tables,
                     win |-> w, auto |-> TRUE, online |-> TRUE]
  <2>1. D \in SUBSET Days
    BY <1>0 DEF HoldRows
  <2>2. /\ now' = now /\ termin[t].status = "brak" /\ hold[h].exp > now
        /\ hold' = [ExpirePublicHolds(D) EXCEPT ![h] = [BlankHold EXCEPT !.state = "consumed"]]
        /\ wait' = ExpireWaits(D)
        /\ termin' = [termin EXCEPT ![t] = row]
    BY <1>5 DEF OnlineRezerwacja
  <2>3. [BlankHold EXCEPT !.state = "consumed"].state = "consumed"
    BY DEF BlankHold
  <2> HIDE DEF D, row
  <2>4. \A q \in Owners \ {h, t} : Bystander(q)
    BY <1>0, <1>000, <1>00, <2>1, <2>2 DEF Bystander
  <2>5. hold'[h].state = "consumed"
    BY <1>000, <2>1, <2>2, <2>3
  <2>6. Ask(hold', wait', termin')[h] = {} /\ Ask(hold, wait, termin)[t] = {}
    BY <1>00, <2>2, <2>5 DEF Ask, HoldCells, TerminCells, ACTIVE_STATUSES
  <2>7. Due(hold, wait)[h] > now
    BY <1>00, <2>2 DEF Due
  <2> QED BY <2>2, <2>4, <2>6, <2>7, SucceedShape
<1>6. ASSUME NEW t \in Termins, VisitPlaced(t) \/ VisitEnded(t) \/ VisitKept(t)
      PROVE  Inventory!Next
  <2>0. t \in Owners /\ t \notin Holds \cup Waits
    BY <1>00
  <2>1. CASE VisitPlaced(t)
    <3>1. PICK row \in TerminRows : ReplaceTerminAllocation(t, row)
      BY <2>1 DEF VisitPlaced
    <3>2. {row.day} \in SUBSET Days
      BY DEF TerminRows
    <3>3. \A q \in Owners \ {t} : Bystander(q)
      BY <1>0, <1>000, <3>1, <3>2 DEF ReplaceTerminAllocation, Bystander
    <3>4. now' = now
      BY <3>1 DEF ReplaceTerminAllocation
    <3> QED BY <2>0, <3>3, <3>4, TakeShape
  <2>2. CASE VisitEnded(t) \/ VisitKept(t)
    <3>1. \A q \in Owners \ {t} : Bystander(q)
      BY <1>0, <2>2 DEF VisitEnded, VisitKept, Bystander
    <3>2. now' = now
      BY <2>2 DEF VisitEnded, VisitKept
    <3> QED BY <2>0, <3>1, <3>2, TakeShape
  <2> QED BY <1>6, <2>1, <2>2
<1>7. ASSUME NEW d \in Days, NEW T \in SUBSET Termins, AutoNoShow(d, T)
      PROVE  Inventory!Next
  <2>1. ASSUME NEW q \in Owners
        PROVE  Bystander(q) \/ Ask(hold', wait', termin')[q] = {}
    <3>1. CASE q \in T
      <4>1. termin'[q].status = "no_show"
        BY <1>7, <3>1 DEF AutoNoShow, Finished, BlankTermin
      <4> QED BY <1>00, <3>1, <4>1 DEF Ask, TerminCells, ACTIVE_STATUSES
    <3>2. CASE q \notin T
      BY <1>7, <3>2 DEF AutoNoShow, Bystander
    <3> QED BY <3>1, <3>2
  <2> QED BY <1>7, <2>1, ReleaseShape DEF AutoNoShow
<1>8. ASSUME NEW w \in Waits,
             EntryLeft(w) \/ EntryClosed(w) \/ EntryMade(w) \/ EntryPromised(w)
      PROVE  Inventory!Next
  <2>0. {wait[w].day} \in SUBSET Days /\ w \in Owners
    BY <1>0, <1>00 DEF WaitRows
  <2>1. CASE EntryLeft(w) \/ EntryClosed(w) \/ EntryMade(w)
    <3>1. now' = now /\ WaitCells(wait'[w]) = {}
      BY <1>0, <1>000, <2>0, <2>1 DEF EntryLeft, EntryClosed, EntryMade, LeaveHold
    <3>2. \A q \in Owners \ {w} : Bystander(q)
      <4>1. CASE EntryLeft(w)
        BY <1>0, <1>00, <1>000, <2>0, <4>1 DEF EntryLeft, LeaveHold, Bystander
      <4>2. CASE EntryClosed(w) \/ EntryMade(w)
        BY <1>0, <1>00, <4>2 DEF EntryClosed, EntryMade, Bystander
      <4> QED BY <2>1, <4>1, <4>2
    <3>3. Ask(hold', wait', termin')[w] = {}
      BY <1>00, <3>1 DEF Ask
    <3> QED BY <3>1, <3>2, <3>3, ReleaseShape
  <2>2. CASE EntryPromised(w)
    <3>1. PICK s \in {"oczekuje", "zaoferowano"}, b \in Configurations, win \in Spans :
               ZalozHold(w, s, b, win)
      BY <2>2 DEF EntryPromised
    <3>2. now' = now /\ wait'[w].exp = now + OfferTTL
      BY <1>0, <1>000, <2>0, <3>1 DEF ZalozHold
    <3>3. \A q \in Owners \ {w} : Bystander(q)
      BY <1>0, <1>00, <1>000, <2>0, <3>1 DEF ZalozHold, Bystander
    <3>4. Due(hold', wait')[w] > now
      BY <1>0, <1>00, <3>2, LedgerAssumption DEF Due
    <3> QED BY <2>0, <3>2, <3>3, <3>4, TakeShape
  <2> QED BY <1>8, <2>1, <2>2
<1>9. ASSUME NEW w \in Waits, NEW t \in Termins, EntryRealised(w, t)
      PROVE  Inventory!Next
  <2> DEFINE D == {wait[w].day}
             blank == [BlankWait EXCEPT !.status = "zaakceptowano"]
  <2>0. D \in SUBSET Days
    BY <1>0 DEF WaitRows
  <2>1. PICK row \in TerminRows : Realise(w, t, row)
    BY <1>9 DEF EntryRealised
  <2>2. /\ termin[t].status = "brak" /\ now' = now
        /\ hold' = ExpirePublicHolds(D)
        /\ wait' = [ExpireWaits(D) EXCEPT ![w] = blank]
        /\ termin' = [termin EXCEPT ![t] = row]
    BY <2>1 DEF Realise
  <2>3. WaitCells(blank) = {}
    BY DEF BlankWait, WaitCells, CellsOf
  <2> HIDE DEF D, blank
  <2>4. wait'[w] = blank
    BY <1>000, <2>0, <2>2
  <2>5. \A q \in Owners \ {w, t} : Bystander(q)
    BY <1>0, <1>00, <1>000, <2>0, <2>2 DEF Bystander
  <2>6. Ask(hold', wait', termin')[w] = {} /\ Ask(hold, wait, termin)[t] = {}
    BY <1>00, <2>2, <2>3, <2>4 DEF Ask, TerminCells, ACTIVE_STATUSES
  <2>7. Due(hold, wait)[w] > now \/ Due(hold, wait)[w] <= now
    <3>1. Due(hold, wait)[w] = wait[w].exp /\ wait[w].exp \in Nat
      BY <1>0, <1>00 DEF Due, WaitRows, Deadlines
    <3> QED BY <1>0, <3>1
  <2> QED BY <2>2, <2>5, <2>6, <2>7, SucceedShape
<1>10. CASE RebuildLedger
  BY <1>10, RemeasureShape
<1> QED BY StepKinds, <1>1, <1>2, <1>3, <1>4, <1>5, <1>6, <1>7, <1>8, <1>9, <1>10 DEF Transaction

\* The ledger implements the inventory: at most one party gains tables at a time, none
\* but free or expired ones, or a promise that still holds is handed to its visit.
THEOREM LedgerImplementsInventory == Spec => ImplementsInventory
<1>1. Init => Inventory!Init
  <2> SUFFICES ASSUME Init PROVE Inventory!Init
    OBVIOUS
  <2>1. IInv
    BY InitInv
  <2>2. \A o \in Owners : Held[o].places = {}
    BY BlankRows DEF Init, Held, FreeClaim
  <2> QED BY <2>2, Parties DEF Init, Inventory!Init
<1>2. IInv /\ IInv' /\ [Next]_vars => [Inventory!Next]_(Inventory!vars)
  <2> SUFFICES ASSUME IInv, IInv', [Next]_vars PROVE [Inventory!Next]_(Inventory!vars)
    OBVIOUS
  <2>1. CASE Next
    BY <2>1, InventoryStep
  <2>2. CASE UNCHANGED vars
    BY <2>2 DEF vars, Inventory!vars, Held, DeadlineOf
  <2> QED BY <2>1, <2>2
<1> QED BY <1>1, <1>2, InductiveInvariant, PTL DEF Spec, ImplementsInventory, Inventory!Spec

=============================================================================
