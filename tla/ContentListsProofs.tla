--------------------------- MODULE ContentListsProofs ---------------------------
(***************************************************************************)
(* ContentLists for any desks, questions and papers.  A request checks a   *)
(* row and writes it later: the invariant says that what it checked is     *)
(* still so while no other request is between its check and its write      *)
(* (ChecksHold), and what a request has recorded so far (DesksAgree).      *)
(***************************************************************************)
EXTENDS ContentLists, TLAPS

ContentRows == BankItems \cup BankPapers
RequestRows ==
  [op : Demands, ids : SUBSET ContentRows, left : SUBSET ContentRows, item : ContentRows \cup {"none"},
   ok : SUBSET ContentRows, bad : SUBSET ContentRows, with : SUBSET BankItems]
DeskRows ==
  [kind : Kinds, copy : [BankItems -> Publicity], pcopy : [BankPapers -> Publicity],
   picked : SUBSET ContentRows, req : RequestRows]

BankRows  == [status : Publicity, cases : BOOLEAN]
ShelfRows == [status : Publicity, items : SUBSET BankItems]

RowsTyped ==
  /\ bank \in [BankItems -> BankRows] /\ shelf \in [BankPapers -> ShelfRows]
  /\ overlap \in BOOLEAN /\ asked \in 0..MaxAsked
  /\ desk \in [Desks -> DeskRows]

OnItems  == {"publish", "unpublish", "delete", "edit"}
OnPapers == {"deletePapers", "outline", "publishPaper"}

(* A request has its rows each in one of four places, and they are of the  *)
(* kind it is about.                                                       *)
Sorted(r) ==
  /\ r.ids = r.left \cup r.ok \cup r.bad \cup ({r.item} \ {"none"})
  /\ r.ok \cap r.bad = {} /\ r.left \cap (r.ok \cup r.bad) = {}
  /\ r.item \notin r.left \cup r.ok \cup r.bad
  /\ r.op \in OnItems  => r.ids \subseteq BankItems
  /\ r.op \in OnPapers => r.ids \subseteq BankPapers
  /\ r.op \in {"none", "load"} => r.ids = {}

(* What it has deleted is gone.                                            *)
Deleted(r) ==
  /\ r.op = "delete" => \A q \in r.ok : bank[q].status = "none"
  /\ r.op = "deletePapers" => \A p \in r.ok : shelf[p].status = "none"

(* A page has selected rows of its list.                                   *)
PicksItsRows(row) ==
  row.picked \subseteq (IF row.kind = "questions" THEN BankItems ELSE BankPapers)

DesksAgree == \A d \in Desks : Sorted(desk[d].req) /\ Deleted(desk[d].req) /\ PicksItsRows(desk[d])

(* A request alone between its check and its write would pass the check    *)
(* again; and no paper that is gone has an outline.                        *)
ChecksHold ==
  ~overlap =>
    /\ \A d, e \in Desks : Between(d) /\ Between(e) => d = e
    /\ \A d \in Desks : Between(d) => Allowed(desk[d].req.op, desk[d].req.item, desk[d].req.with)
    /\ \A p \in BankPapers : shelf[p].status = "none" => shelf[p].items = {}

ListsInv == RowsTyped /\ DesksAgree /\ ChecksHold /\ SerialContentSound

-----------------------------------------------------------------------------
(* The pages.                                                              *)

(* What is deleted stays so.                                               *)
StaysDeleted ==
  /\ \A q \in BankItems : bank[q].status = "none" => bank'[q].status = "none"
  /\ \A p \in BankPapers : shelf[p].status = "none" => shelf'[p].status = "none"

(* A step changes one desk, and the others agree as before.                *)
LEMMA OneDesk ==
  ASSUME RowsTyped, DesksAgree, NEW d \in Desks, NEW row \in DeskRows, desk' = [desk EXCEPT ![d] = row],
         Sorted(row.req), Deleted(row.req)', PicksItsRows(row), StaysDeleted
  PROVE  /\ desk' \in [Desks -> DeskRows] /\ desk'[d] = row
         /\ \A e \in Desks \ {d} : desk'[e] = desk[e]
         /\ DesksAgree'
<1>1. desk'[d] = row /\ \A e \in Desks \ {d} : desk'[e] = desk[e]
  BY DEF RowsTyped
<1>2. ASSUME NEW e \in Desks \ {d}
      PROVE  (Sorted(desk[e].req) /\ Deleted(desk[e].req) /\ PicksItsRows(desk[e]))'
  <2>1. Sorted(desk[e].req) /\ Deleted(desk[e].req) /\ PicksItsRows(desk[e]) /\ desk[e].req \in RequestRows
    BY DEF DesksAgree, RowsTyped, DeskRows
  <2>2. PICK r, x : r = desk[e].req /\ x = desk[e]
    OBVIOUS
  <2>3. Deleted(r)'
    BY <2>1, <2>2 DEF Deleted, StaysDeleted, Sorted, OnItems, OnPapers
  <2>4. desk'[e].req = r /\ desk'[e] = x
    BY <1>1, <2>2
  <2>5. QED
    BY <2>1, <2>2, <2>3, <2>4 DEF Sorted, PicksItsRows, Deleted
<1>3. (Sorted(desk[d].req) /\ Deleted(desk[d].req) /\ PicksItsRows(desk[d]))'
  BY <1>1 DEF Sorted, PicksItsRows, Deleted
<1>4. QED
  BY <1>1, <1>2, <1>3 DEF DesksAgree, RowsTyped

(* A step that writes no row of the content and leaves its desk with no    *)
(* row between check and write.                                            *)
LEMMA DeskMoves ==
  ASSUME ListsInv, NEW d \in Desks, NEW row \in DeskRows, desk' = [desk EXCEPT ![d] = row],
         Sorted(row.req), Deleted(row.req), PicksItsRows(row), row.req.item = "none",
         UNCHANGED <<bank, shelf, overlap>>, asked' \in 0..MaxAsked
  PROVE  ListsInv'
<1>1. RowsTyped /\ DesksAgree /\ ChecksHold /\ SerialContentSound
  BY DEF ListsInv
<1>2. /\ desk' \in [Desks -> DeskRows] /\ desk'[d] = row
      /\ \A e \in Desks \ {d} : desk'[e] = desk[e]
      /\ DesksAgree'
  <2>1. StaysDeleted /\ Deleted(row.req)'
    BY DEF StaysDeleted, Deleted
  <2>2. QED
    BY <1>1, <2>1, OneDesk
<1>3. RowsTyped'
  BY <1>1, <1>2 DEF RowsTyped
<1>5. \A e \in Desks : Between(e)' => e # d /\ Between(e) /\ desk'[e] = desk[e]
  BY <1>2 DEF Between
<1>6. ChecksHold'
  BY <1>1, <1>5 DEF ChecksHold, Allowed, PatchAllowed, DeleteAllowed, UpdateAllowed, OutlineAllowed,
       PublishAllowed, Held, HeldPublic, Holds
<1>7. SerialContentSound'
  BY <1>1 DEF SerialContentSound, PaperSound
<1>8. QED
  BY <1>2, <1>3, <1>6, <1>7 DEF ListsInv

(* A new request has done nothing yet.                                     *)
LEMMA DemandKeeps ==
  ASSUME ListsInv, NEW d \in Desks, NEW op \in Demands, NEW ids \in SUBSET ContentRows,
         NEW with \in SUBSET BankItems, Demand(d, op, ids, with),
         op \in OnItems => ids \subseteq BankItems, op \in OnPapers => ids \subseteq BankPapers,
         op \in {"none", "load"} => ids = {}
  PROVE  ListsInv'
<1> DEFINE r   == [Quiet EXCEPT !.op = op, !.ids = ids, !.left = ids, !.with = with]
           row == [desk[d] EXCEPT !.req = r]
<1>1. desk[d] \in DeskRows /\ asked \in 0..MaxAsked /\ PicksItsRows(desk[d])
  BY DEF ListsInv, RowsTyped, DesksAgree
<1>2. /\ r \in RequestRows /\ r.op = op /\ r.ids = ids /\ r.left = ids /\ r.item = "none"
      /\ r.ok = {} /\ r.bad = {} /\ r.with = with
  <2>1. Quiet \in RequestRows /\ Quiet.item = "none" /\ Quiet.ok = {} /\ Quiet.bad = {}
    BY DEF Quiet, RequestRows, Demands
  <2>2. QED
    BY <2>1 DEF RequestRows
<1>3. Sorted(r) /\ Deleted(r) /\ r.item = "none"
  BY <1>2, ListsAssumption DEF Sorted, Deleted, ContentRows
<1>. HIDE DEF r
<1>4. row \in DeskRows /\ row.req = r /\ PicksItsRows(row)
  BY <1>1, <1>2 DEF DeskRows, PicksItsRows
<1>5. desk' = [desk EXCEPT ![d] = row] /\ asked' \in 0..MaxAsked /\ UNCHANGED <<bank, shelf, overlap>>
  BY <1>1, ListsAssumption DEF Demand, r
<1>6. QED
  BY <1>3, <1>4, <1>5, DeskMoves

(* Whatever an administrator does at a desk.                               *)
LEMMA DeskActsKeeps ==
  ASSUME ListsInv, NEW d \in Desks, DeskActs(d)
  PROVE  ListsInv'
<1>0. desk[d] \in DeskRows /\ asked \in 0..MaxAsked /\ PicksItsRows(desk[d]) /\ Sorted(desk[d].req)
        /\ Deleted(desk[d].req)
  BY DEF ListsInv, RowsTyped, DesksAgree
<1>1. ASSUME NEW x \in ContentRows, Pick(d, x)
      PROVE  ListsInv'
  <2> DEFINE P   == IF x \in desk[d].picked THEN desk[d].picked \ {x} ELSE desk[d].picked \cup {x}
             row == [desk[d] EXCEPT !.picked = P]
  <2>1. desk[d].req.item = "none"
    BY <1>0, <1>1 DEF Pick, Rests, Sorted, DeskRows, RequestRows
  <2>2. desk[d].kind \in Kinds /\ desk[d].picked \subseteq ContentRows
    BY <1>0 DEF DeskRows
  <2>3. P \in SUBSET ContentRows /\ P \subseteq (IF desk[d].kind = "questions" THEN BankItems ELSE BankPapers)
    BY <1>0, <1>1, <2>2 DEF Pick, ShownRows, PicksItsRows
  <2>4. desk' = [desk EXCEPT ![d] = row] /\ UNCHANGED <<bank, shelf, overlap, asked>>
    BY <1>1 DEF Pick
  <2>. HIDE DEF P
  <2>5. row \in DeskRows /\ row.req = desk[d].req /\ PicksItsRows(row)
    BY <1>0, <2>3 DEF DeskRows, PicksItsRows
  <2>6. QED
    BY <1>0, <2>1, <2>4, <2>5, DeskMoves
<1>2. ASSUME NEW q \in BankItems, ToggleQuestion(d, q) \/ DeleteQuestionRow(d, q) \/ EditQuestion(d, q)
      PROVE  ListsInv'
  BY <1>2, DemandKeeps
     DEF ToggleQuestion, DeleteQuestionRow, EditQuestion, Demands, OnItems, OnPapers, ContentRows
<1>3. ASSUME NEW p \in BankPapers, DeletePaperRow(d, p) \/ PublishPaper(d, p)
      PROVE  ListsInv'
  BY <1>3, DemandKeeps DEF DeletePaperRow, PublishPaper, Demands, OnItems, OnPapers, ContentRows
<1>4. ASSUME NEW p \in BankPapers, NEW items \in SUBSET BankItems, EditOutline(d, p, items)
      PROVE  ListsInv'
  BY <1>4, DemandKeeps DEF EditOutline, Demands, OnItems, OnPapers, ContentRows
<1>5. ASSUME NEW op \in {"publish", "unpublish"}, BatchStatus(d, op)
      PROVE  ListsInv'
  <2>1. desk[d].picked \subseteq BankItems /\ desk[d].picked \subseteq ContentRows
    BY <1>0, <1>5 DEF BatchStatus, PicksItsRows, ContentRows
  <2>2. QED
    BY <1>5, <2>1, DemandKeeps DEF BatchStatus, Demands, OnItems, OnPapers
<1>6. CASE BatchDeleteQuestions(d)
  <2>1. desk[d].picked \subseteq BankItems /\ desk[d].picked \subseteq ContentRows
    BY <1>0, <1>6 DEF BatchDeleteQuestions, PicksItsRows, ContentRows
  <2>2. QED
    BY <1>6, <2>1, DemandKeeps DEF BatchDeleteQuestions, Demands, OnItems, OnPapers
<1>7. CASE BatchDeletePapers(d)
  <2>1. desk[d].picked \subseteq BankPapers /\ desk[d].picked \subseteq ContentRows
    BY <1>0, <1>7 DEF BatchDeletePapers, PicksItsRows, ContentRows
  <2>2. QED
    BY <1>7, <2>1, DemandKeeps DEF BatchDeletePapers, Demands, OnItems, OnPapers
<1>8. CASE ReloadTable(d)
  BY <1>8, DemandKeeps DEF ReloadTable, Demands, OnItems, OnPapers
<1>9. QED
  BY <1>1, <1>2, <1>3, <1>4, <1>5, <1>6, <1>7, <1>8 DEF DeskActs, ContentRows

-----------------------------------------------------------------------------
(* The server.                                                             *)

(* A request that takes a row has checked it, and is alone or has          *)
(* overlapped.                                                             *)
LEMMA TakeKeeps ==
  ASSUME ListsInv, NEW d \in Desks, NEW x \in ContentRows, TakeItem(d, x)
  PROVE  ListsInv'
<1>0. RowsTyped /\ DesksAgree /\ ChecksHold /\ SerialContentSound
  BY DEF ListsInv
<1>1. desk[d] \in DeskRows /\ desk[d].req \in RequestRows /\ Sorted(desk[d].req) /\ Deleted(desk[d].req)
        /\ desk[d].req.item = "none" /\ x \in desk[d].req.left /\ PicksItsRows(desk[d])
  BY <1>0 DEF RowsTyped, DesksAgree, TakeItem, Between, DeskRows
<1>2. PICK r \in RequestRows :
        /\ r = [desk[d].req EXCEPT !.left = desk[d].req.left \ {x}, !.item = x]
        /\ r.op = desk[d].req.op /\ r.ids = desk[d].req.ids /\ r.ok = desk[d].req.ok
        /\ r.bad = desk[d].req.bad /\ r.left = desk[d].req.left \ {x} /\ r.item = x
        /\ r.with = desk[d].req.with
  <2> DEFINE s == [desk[d].req EXCEPT !.left = desk[d].req.left \ {x}, !.item = x]
  <2>1. /\ s \in RequestRows /\ s.op = desk[d].req.op /\ s.ids = desk[d].req.ids /\ s.ok = desk[d].req.ok
        /\ s.bad = desk[d].req.bad /\ s.left = desk[d].req.left \ {x} /\ s.item = x
        /\ s.with = desk[d].req.with
    BY <1>1 DEF RequestRows
  <2>2. QED
    BY <2>1
<1>3. PICK row \in DeskRows : row = [desk[d] EXCEPT !.req = r] /\ row.req = r /\ PicksItsRows(row)
  <2> DEFINE s == [desk[d] EXCEPT !.req = r]
  <2>1. s \in DeskRows /\ s.req = r /\ PicksItsRows(s)
    BY <1>1 DEF DeskRows, PicksItsRows
  <2>2. QED
    BY <2>1
<1>4. desk' = [desk EXCEPT ![d] = row]
  BY <1>0, <1>2, <1>3 DEF TakeItem, RowsTyped, DeskRows
<1>5. UNCHANGED <<bank, shelf, asked>> /\ overlap' = (overlap \/ \E e \in Desks \ {d} : Between(e))
        /\ Allowed(r.op, x, r.with)
  BY <1>2 DEF TakeItem
<1>6. Sorted(r) /\ Deleted(r)' /\ x # "none"
  BY <1>1, <1>2, <1>5, ListsAssumption DEF Sorted, Deleted, ContentRows
<1>7. /\ desk' \in [Desks -> DeskRows] /\ desk'[d] = row
      /\ \A e \in Desks \ {d} : desk'[e] = desk[e]
      /\ DesksAgree'
  BY <1>0, <1>3, <1>4, <1>5, <1>6, OneDesk DEF StaysDeleted
<1>8. RowsTyped'
  <2>1. overlap' \in BOOLEAN
    BY <1>5
  <2>2. QED
    BY <1>0, <1>5, <1>7, <2>1 DEF RowsTyped
<1>9. ASSUME ~overlap'
      PROVE  /\ ~overlap /\ \A e \in Desks : Between(e)' => e = d
             /\ Allowed(desk[d].req.op, desk[d].req.item, desk[d].req.with)'
  <2>1. ~overlap /\ \A e \in Desks \ {d} : ~Between(e)
    BY <1>5, <1>9
  <2>2. \A e \in Desks : Between(e)' => e = d
    BY <1>7, <2>1 DEF Between
  <2>3. desk'[d].req.op = r.op /\ desk'[d].req.with = r.with /\ desk'[d].req.item = x
    BY <1>2, <1>3, <1>7
  <2>4. Allowed(desk[d].req.op, desk[d].req.item, desk[d].req.with)'
    BY <1>5, <2>3 DEF Allowed, PatchAllowed, DeleteAllowed, UpdateAllowed, OutlineAllowed,
         PublishAllowed, Held, HeldPublic, Holds
  <2>5. QED
    BY <2>1, <2>2, <2>4
<1>10. ChecksHold'
  BY <1>0, <1>5, <1>9 DEF ChecksHold
<1>11. SerialContentSound'
  BY <1>0, <1>5, <1>9 DEF SerialContentSound, PaperSound
<1>12. QED
  BY <1>7, <1>8, <1>10, <1>11 DEF ListsInv

(* A row that was between check and write is recorded, as done or as       *)
(* failed, and what the request deleted is deleted now.                    *)
LEMMA RecordKeeps ==
  ASSUME RowsTyped, DesksAgree, NEW d \in Desks, Between(d), StaysDeleted, NEW r \in RequestRows,
         desk' = [desk EXCEPT ![d].req = r],
         \/ r = [desk[d].req EXCEPT !.item = "none", !.bad = @ \cup {desk[d].req.item}]
         \/ /\ r = [desk[d].req EXCEPT !.item = "none", !.ok = @ \cup {desk[d].req.item}]
            /\ r.op = "delete" => bank'[desk[d].req.item].status = "none"
            /\ r.op = "deletePapers" => shelf'[desk[d].req.item].status = "none"
  PROVE  /\ desk' \in [Desks -> DeskRows] /\ desk'[d].req.item = "none"
         /\ \A e \in Desks \ {d} : desk'[e] = desk[e]
         /\ DesksAgree'
<1>1. /\ desk[d] \in DeskRows /\ desk[d].req \in RequestRows
      /\ Sorted(desk[d].req) /\ Deleted(desk[d].req) /\ PicksItsRows(desk[d])
  BY DEF RowsTyped, DesksAgree, DeskRows
<1>2. /\ r.op = desk[d].req.op /\ r.ids = desk[d].req.ids /\ r.left = desk[d].req.left /\ r.item = "none"
      /\ \/ r.ok = desk[d].req.ok /\ r.bad = desk[d].req.bad \cup {desk[d].req.item}
         \/ /\ r.bad = desk[d].req.bad /\ r.ok = desk[d].req.ok \cup {desk[d].req.item}
            /\ r.op = "delete" => bank'[desk[d].req.item].status = "none"
            /\ r.op = "deletePapers" => shelf'[desk[d].req.item].status = "none"
  BY <1>1 DEF RequestRows
<1>3. desk[d].req.item \in ContentRows /\ desk[d].req.item # "none"
  BY <1>1 DEF Between, RequestRows
<1>4. Sorted(r)
  <2>1. r.ids = r.left \cup r.ok \cup r.bad \cup ({r.item} \ {"none"})
    BY <1>1, <1>2, <1>3 DEF Sorted
  <2>2. r.ok \cap r.bad = {} /\ r.left \cap (r.ok \cup r.bad) = {}
    BY <1>1, <1>2 DEF Sorted
  <2>3. r.item \notin r.left \cup r.ok \cup r.bad
    BY <1>2, ListsAssumption DEF ContentRows, RequestRows
  <2>4. QED
    BY <1>1, <1>2, <2>1, <2>2, <2>3 DEF Sorted
<1>5. Deleted(r)'
  BY <1>1, <1>2, <1>4 DEF Deleted, StaysDeleted, Sorted, OnItems, OnPapers
<1>6. PICK row \in DeskRows : row = [desk[d] EXCEPT !.req = r] /\ row.req = r /\ PicksItsRows(row)
  <2> DEFINE s == [desk[d] EXCEPT !.req = r]
  <2>1. s \in DeskRows /\ s.req = r /\ PicksItsRows(s)
    BY <1>1 DEF DeskRows, PicksItsRows
  <2>2. QED
    BY <2>1
<1>7. desk' = [desk EXCEPT ![d] = row]
  BY <1>6
<1>8. QED
  BY <1>2, <1>4, <1>5, <1>6, <1>7, OneDesk

-----------------------------------------------------------------------------
(* Writes.                                                                 *)

(* What SerialContentSound asks of the rows, and that no paper that is     *)
(* gone has an outline.                                                    *)
RowsSound ==
  /\ \A p \in BankPapers : PaperSound(p)
  /\ \A q \in BankItems : bank[q].status = "PUBLISHED" => bank[q].cases
  /\ \A p \in BankPapers : shelf[p].status = "none" => shelf[p].items = {}

(* The write of a question brings back nothing, and of one that would      *)
(* still pass its check it spoils nothing.                                 *)
LEMMA BankWrite ==
  ASSUME RowsTyped, NEW op \in OnItems, NEW x \in BankItems, NEW with, WriteBank(op, x), shelf' = shelf
  PROVE  /\ bank' \in [BankItems -> BankRows] /\ StaysDeleted
         /\ op = "delete" => bank'[x].status = "none"
         /\ RowsSound /\ Allowed(op, x, with) => RowsSound'
<1> USE DEF BankRows, ShelfRows
<1>1. bank \in [BankItems -> BankRows] /\ shelf \in [BankPapers -> ShelfRows] /\ bank[x] \in BankRows
  BY DEF RowsTyped
<1>2. PICK row \in BankRows :
        /\ bank' = [bank EXCEPT ![x] = row]
        /\ bank[x].status = "none" => row.status = "none"
        /\ op = "publish" /\ bank[x].status # "none" => row.status = "PUBLISHED" /\ row.cases = bank[x].cases
        /\ op \in {"unpublish", "edit"} /\ bank[x].status # "none" => row.status = "DRAFT"
        /\ op = "delete" => row.status = "none"
  <2>1. CASE op = "publish" /\ bank[x].status # "none"
    <3> DEFINE row == [bank[x] EXCEPT !.status = "PUBLISHED"]
    <3>1. row \in BankRows /\ row.status = "PUBLISHED" /\ row.cases = bank[x].cases
      BY <1>1 DEF Publicity
    <3>2. bank' = [bank EXCEPT ![x] = row]
      BY <1>1, <2>1 DEF WriteBank, Restated
    <3>3. QED
      BY <2>1, <3>1, <3>2
  <2>2. CASE op = "unpublish" /\ bank[x].status # "none"
    <3> DEFINE row == [bank[x] EXCEPT !.status = "DRAFT"]
    <3>1. row \in BankRows /\ row.status = "DRAFT"
      BY <1>1 DEF Publicity
    <3>2. bank' = [bank EXCEPT ![x] = row]
      BY <1>1, <2>2 DEF WriteBank, Restated
    <3>3. QED
      BY <2>2, <3>1, <3>2
  <2>3. CASE op \in {"publish", "unpublish"} /\ bank[x].status = "none"
    <3>1. bank' = [bank EXCEPT ![x] = bank[x]]
      BY <1>1, <2>3 DEF WriteBank, Restated
    <3>2. QED
      BY <1>1, <2>3, <3>1
  <2>4. CASE op = "edit"
    <3> DEFINE row == [Restated(bank[x], "DRAFT") EXCEPT !.cases = FALSE]
    <3>1. row \in BankRows /\ row.status = (IF bank[x].status = "none" THEN "none" ELSE "DRAFT")
      BY <1>1 DEF Publicity, Restated
    <3>2. bank' = [bank EXCEPT ![x] = row]
      BY <1>1, <2>4 DEF WriteBank
    <3>. HIDE DEF row
    <3>3. QED
      BY <2>4, <3>1, <3>2
  <2>5. CASE op = "delete"
    <3> DEFINE row == [status |-> "none", cases |-> FALSE]
    <3>1. row \in BankRows /\ row.status = "none"
      BY DEF Publicity
    <3>2. bank' = [bank EXCEPT ![x] = row]
      BY <1>1, <2>5 DEF WriteBank
    <3>. HIDE DEF row
    <3>3. QED
      BY <2>5, <3>1, <3>2
  <2>6. QED
    BY <2>1, <2>2, <2>3, <2>4, <2>5 DEF OnItems
<1>3. bank'[x] = row /\ \A q \in BankItems \ {x} : bank'[q] = bank[q]
  BY <1>1, <1>2
<1>4. bank' \in [BankItems -> BankRows] /\ StaysDeleted
  BY <1>1, <1>2, <1>3 DEF StaysDeleted
<1>5. ASSUME RowsSound, Allowed(op, x, with)
      PROVE  RowsSound'
  <2>1. bank[x].status # "none"
    BY <1>5 DEF Allowed, PatchAllowed, DeleteAllowed, UpdateAllowed, OnItems
  <2>2. \A q \in BankItems : bank'[q].status = "PUBLISHED" => bank'[q].cases
    BY <1>2, <1>3, <1>5, <2>1 DEF RowsSound, Allowed, PatchAllowed, OnItems
  <2>3. ASSUME NEW p \in BankPapers, x \in shelf[p].items
        PROVE  /\ bank'[x].status # "none"
               /\ shelf[p].status = "PUBLISHED" => bank'[x].status = "PUBLISHED"
    <3>1. shelf[p].status # "none"
      BY <1>5, <2>3 DEF RowsSound
    <3>2. op # "delete"
      BY <1>5, <2>3, <3>1 DEF Allowed, DeleteAllowed, Held, Holds
    <3>3. shelf[p].status = "PUBLISHED" => bank[x].status = "PUBLISHED"
      BY <1>5, <2>3 DEF RowsSound, PaperSound
    <3>4. shelf[p].status = "PUBLISHED" => op = "publish"
      BY <1>5, <2>3, <3>2, <3>3
         DEF Allowed, PatchAllowed, UpdateAllowed, HeldPublic, Holds, OnItems
    <3>5. QED
      BY <1>2, <1>3, <2>1, <3>2, <3>4 DEF OnItems
  <2>4. \A p \in BankPapers : PaperSound(p)'
    BY <1>1, <1>3, <1>5, <2>3 DEF RowsSound, PaperSound
  <2>5. QED
    BY <1>5, <2>2, <2>4 DEF RowsSound
<1>6. QED
  BY <1>2, <1>3, <1>4, <1>5

(* The same of a paper.                                                    *)
LEMMA ShelfWrite ==
  ASSUME RowsTyped, NEW op \in OnPapers, NEW x \in BankPapers, NEW with \in SUBSET BankItems,
         WriteShelf(op, x, with), bank' = bank
  PROVE  /\ shelf' \in [BankPapers -> ShelfRows] /\ StaysDeleted
         /\ op = "deletePapers" => shelf'[x].status = "none"
         /\ RowsSound /\ Allowed(op, x, with) => RowsSound'
<1> USE DEF BankRows, ShelfRows
<1>1. bank \in [BankItems -> BankRows] /\ shelf \in [BankPapers -> ShelfRows] /\ shelf[x] \in ShelfRows
  BY DEF RowsTyped
<1>2. PICK row \in ShelfRows :
        /\ shelf' = [shelf EXCEPT ![x] = row]
        /\ shelf[x].status = "none" => row.status = "none"
        /\ op = "outline" => row.status = shelf[x].status /\ row.items = with
        /\ op = "publishPaper" => row.items = shelf[x].items
        /\ op = "publishPaper" /\ shelf[x].status # "none" => row.status = "PUBLISHED"
        /\ op = "deletePapers" => row.status = "none" /\ row.items = {}
  <2>1. CASE op = "outline"
    <3> DEFINE row == [shelf[x] EXCEPT !.items = with]
    <3>1. row \in ShelfRows /\ row.status = shelf[x].status /\ row.items = with
      BY <1>1
    <3>2. shelf' = [shelf EXCEPT ![x] = row]
      BY <1>1, <2>1 DEF WriteShelf
    <3>3. QED
      BY <2>1, <3>1, <3>2
  <2>2. CASE op = "publishPaper"
    <3> DEFINE row == Restated(shelf[x], "PUBLISHED")
    <3>1. row \in ShelfRows /\ row.items = shelf[x].items
            /\ row.status = (IF shelf[x].status = "none" THEN "none" ELSE "PUBLISHED")
      BY <1>1 DEF Publicity, Restated
    <3>2. shelf' = [shelf EXCEPT ![x] = row]
      BY <1>1, <2>2 DEF WriteShelf
    <3>3. QED
      BY <2>2, <3>1, <3>2
  <2>3. CASE op = "deletePapers"
    <3> DEFINE row == [status |-> "none", items |-> {}]
    <3>1. row \in ShelfRows /\ row.status = "none" /\ row.items = {}
      BY DEF Publicity
    <3>2. shelf' = [shelf EXCEPT ![x] = row]
      BY <1>1, <2>3 DEF WriteShelf
    <3>. HIDE DEF row
    <3>3. QED
      BY <2>3, <3>1, <3>2
  <2>4. QED
    BY <2>1, <2>2, <2>3 DEF OnPapers
<1>3. shelf'[x] = row /\ \A p \in BankPapers \ {x} : shelf'[p] = shelf[p]
  BY <1>1, <1>2
<1>4. shelf' \in [BankPapers -> ShelfRows] /\ StaysDeleted
  BY <1>1, <1>2, <1>3 DEF StaysDeleted
<1>5. ASSUME RowsSound, Allowed(op, x, with)
      PROVE  RowsSound'
  <2>1. shelf[x].status # "none"
    BY <1>5 DEF Allowed, OutlineAllowed, PublishAllowed, OnPapers
  <2>2. \A q \in row.items :
          bank[q].status # "none" /\ (row.status = "PUBLISHED" => bank[q].status = "PUBLISHED")
    BY <1>2, <1>5 DEF Allowed, OutlineAllowed, PublishAllowed, OnPapers
  <2>3. row.status = "none" => row.items = {}
    BY <1>2, <1>5, <2>1 DEF OnPapers, Allowed, PublishAllowed
  <2>4. QED
    BY <1>3, <1>5, <2>2, <2>3 DEF RowsSound, PaperSound
<1>6. QED
  BY <1>2, <1>3, <1>4, <1>5

-----------------------------------------------------------------------------
(* The steps of a request, and its answer.                                 *)

(* A write keeps the invariant: alone, it writes what it checked.          *)
LEMMA WriteKeeps ==
  ASSUME ListsInv, NEW d \in Desks, WriteItem(d)
  PROVE  ListsInv'
<1>0. RowsTyped /\ DesksAgree /\ ChecksHold /\ SerialContentSound
  BY DEF ListsInv
<1>1. /\ desk[d].req \in RequestRows /\ Sorted(desk[d].req)
      /\ desk[d] \in DeskRows
  BY <1>0 DEF RowsTyped, DesksAgree, DeskRows
<1>2. PICK op \in Demands, x \in ContentRows, with \in SUBSET BankItems :
        op = desk[d].req.op /\ x = desk[d].req.item /\ with = desk[d].req.with
  BY <1>1 DEF WriteItem, Between, RequestRows
<1>3. /\ x \in desk[d].req.ids
      /\ \/ op \in OnItems /\ x \in BankItems
         \/ op \in OnPapers /\ x \in BankPapers /\ x \notin BankItems
  BY <1>1, <1>2, ListsAssumption DEF Sorted, Demands, OnItems, OnPapers, ContentRows
<1>4. UNCHANGED <<overlap, asked>> /\ Between(d)
  BY DEF WriteItem
<1>5. /\ bank' \in [BankItems -> BankRows] /\ shelf' \in [BankPapers -> ShelfRows] /\ StaysDeleted
      /\ op = "delete" => bank'[x].status = "none"
      /\ op = "deletePapers" => shelf'[x].status = "none"
      /\ RowsSound /\ Allowed(op, x, with) => RowsSound'
  <2>1. CASE op \in OnItems /\ x \in BankItems
    <3>1. WriteBank(op, x) /\ shelf' = shelf
      BY <1>2, <2>1 DEF WriteItem
    <3>2. QED
      BY <1>0, <2>1, <3>1, BankWrite DEF RowsTyped, OnItems
  <2>2. CASE op \in OnPapers /\ x \in BankPapers /\ x \notin BankItems
    <3>1. WriteShelf(op, x, with) /\ bank' = bank
      BY <1>2, <2>2 DEF WriteItem
    <3>2. QED
      BY <1>0, <2>2, <3>1, ShelfWrite DEF RowsTyped, OnPapers
  <2>3. QED
    BY <1>3, <2>1, <2>2
<1>6. PICK r \in RequestRows :
        /\ r = [desk[d].req EXCEPT !.item = "none", !.ok = desk[d].req.ok \cup {x}]
        /\ r.op = op
  <2> DEFINE s == [desk[d].req EXCEPT !.item = "none", !.ok = desk[d].req.ok \cup {x}]
  <2>1. s \in RequestRows /\ s.op = op
    BY <1>1, <1>2 DEF RequestRows
  <2>2. QED
    BY <2>1
<1>7. desk' = [desk EXCEPT ![d].req = r]
  BY <1>0, <1>2, <1>6 DEF WriteItem, RowsTyped, DeskRows
<1>8. /\ desk' \in [Desks -> DeskRows] /\ desk'[d].req.item = "none"
      /\ \A e \in Desks \ {d} : desk'[e] = desk[e]
      /\ DesksAgree'
  <2>1. /\ r = [desk[d].req EXCEPT !.item = "none", !.ok = @ \cup {desk[d].req.item}]
        /\ r.op = "delete" => bank'[desk[d].req.item].status = "none"
        /\ r.op = "deletePapers" => shelf'[desk[d].req.item].status = "none"
    BY <1>2, <1>5, <1>6
  <2>2. QED
    BY <1>0, <1>4, <1>5, <1>7, <2>1, RecordKeeps
<1>9. ASSUME ~overlap'
      PROVE  RowsSound' /\ \A e \in Desks : ~Between(e)'
  <2>1. RowsSound /\ Allowed(op, x, with)
    BY <1>0, <1>2, <1>4, <1>9 DEF RowsSound, ChecksHold, SerialContentSound
  <2>2. \A e \in Desks \ {d} : ~Between(e)
    BY <1>0, <1>4, <1>9 DEF ChecksHold
  <2>3. \A e \in Desks : ~Between(e)'
    BY <1>8, <2>2 DEF Between
  <2>4. QED
    BY <1>5, <2>1, <2>3
<1>10. RowsTyped'
  BY <1>0, <1>4, <1>5, <1>8 DEF RowsTyped
<1>11. ChecksHold' /\ SerialContentSound'
  BY <1>9 DEF ChecksHold, SerialContentSound, RowsSound
<1>12. QED
  BY <1>8, <1>10, <1>11 DEF ListsInv

(* A failed write leaves the rows as they were, or a paper without its     *)
(* questions.                                                              *)
LEMMA FailKeeps ==
  ASSUME ListsInv, NEW d \in Desks, FailItem(d)
  PROVE  ListsInv'
<1>0. RowsTyped /\ DesksAgree /\ ChecksHold /\ SerialContentSound
  BY DEF ListsInv
<1>1. desk[d].req \in RequestRows /\ Sorted(desk[d].req) /\ desk[d] \in DeskRows
  BY <1>0 DEF RowsTyped, DesksAgree, DeskRows
<1>2. /\ Between(d) /\ UNCHANGED <<bank, overlap, asked>>
      /\ \/ shelf' = shelf
         \/ /\ desk[d].req.op = "deletePapers"
            /\ shelf' = [shelf EXCEPT ![desk[d].req.item].items = {}]
  BY DEF FailItem, LeftByFailure
<1>3. PICK x \in ContentRows : x = desk[d].req.item /\ x \in desk[d].req.ids
  BY <1>1, <1>2 DEF Between, RequestRows, Sorted
<1>4. /\ shelf' \in [BankPapers -> ShelfRows] /\ StaysDeleted
      /\ \A p \in BankPapers : shelf'[p].status = shelf[p].status /\ shelf'[p].items \subseteq shelf[p].items
  <2>1. CASE shelf' = shelf
    BY <1>0, <1>2, <2>1 DEF RowsTyped, StaysDeleted
  <2>2. CASE desk[d].req.op = "deletePapers" /\ shelf' = [shelf EXCEPT ![desk[d].req.item].items = {}]
    <3>1. x \in BankPapers /\ shelf' = [shelf EXCEPT ![x].items = {}]
      BY <1>1, <1>3, <2>2 DEF Sorted, OnPapers
    <3>2. shelf \in [BankPapers -> ShelfRows] /\ shelf[x] \in ShelfRows
      BY <1>0, <3>1 DEF RowsTyped
    <3> DEFINE row == [shelf[x] EXCEPT !.items = {}]
    <3>3. row \in ShelfRows /\ row.status = shelf[x].status /\ row.items = {}
      BY <3>2 DEF ShelfRows
    <3>4. shelf' = [shelf EXCEPT ![x] = row]
      BY <3>1, <3>2
    <3>. HIDE DEF row
    <3>5. shelf' \in [BankPapers -> ShelfRows] /\ shelf'[x] = row
            /\ \A p \in BankPapers \ {x} : shelf'[p] = shelf[p]
      BY <3>1, <3>2, <3>3, <3>4
    <3>6. QED
      BY <1>2, <3>3, <3>5 DEF StaysDeleted
  <2>3. QED
    BY <1>2, <2>1, <2>2
<1>5. PICK r \in RequestRows :
        r = [desk[d].req EXCEPT !.item = "none", !.bad = desk[d].req.bad \cup {x}]
  <2> DEFINE s == [desk[d].req EXCEPT !.item = "none", !.bad = desk[d].req.bad \cup {x}]
  <2>1. s \in RequestRows
    BY <1>1 DEF RequestRows
  <2>2. QED
    BY <2>1
<1>6. desk' = [desk EXCEPT ![d].req = r]
  BY <1>0, <1>3, <1>5 DEF FailItem, RowsTyped, DeskRows
<1>7. /\ desk' \in [Desks -> DeskRows] /\ desk'[d].req.item = "none"
      /\ \A e \in Desks \ {d} : desk'[e] = desk[e]
      /\ DesksAgree'
  <2>1. r = [desk[d].req EXCEPT !.item = "none", !.bad = @ \cup {desk[d].req.item}]
    BY <1>3, <1>5
  <2>2. QED
    BY <1>0, <1>2, <1>4, <1>6, <2>1, RecordKeeps
<1>8. RowsTyped'
  BY <1>0, <1>2, <1>4, <1>7 DEF RowsTyped
<1>9. ASSUME ~overlap'
      PROVE  \A e \in Desks : ~Between(e)'
  <2>1. \A e \in Desks \ {d} : ~Between(e)
    BY <1>0, <1>2, <1>9 DEF ChecksHold
  <2>2. QED
    BY <1>7, <2>1 DEF Between
<1>10. ChecksHold'
  BY <1>0, <1>2, <1>4, <1>9 DEF ChecksHold
<1>11. SerialContentSound'
  BY <1>0, <1>2, <1>4 DEF SerialContentSound, PaperSound
<1>12. QED
  BY <1>7, <1>8, <1>10, <1>11 DEF ListsInv

(* Requests that write nothing, and pages that take an answer.             *)
LEMMA DeskGoesOnKeeps ==
  ASSUME ListsInv, NEW d \in Desks, DeskGoesOn(d)
  PROVE  ListsInv'
<1>0. /\ RowsTyped /\ DesksAgree /\ ChecksHold /\ SerialContentSound
      /\ desk[d] \in DeskRows /\ desk[d].req \in RequestRows /\ asked \in 0..MaxAsked
      /\ Sorted(desk[d].req) /\ Deleted(desk[d].req) /\ PicksItsRows(desk[d])
  BY DEF ListsInv, RowsTyped, DesksAgree, DeskRows
<1>1. Quiet \in RequestRows /\ Quiet.item = "none" /\ Sorted(Quiet) /\ Deleted(Quiet)
  BY DEF Quiet, RequestRows, Demands, Sorted, Deleted, OnItems, OnPapers
<1>2. ASSUME NEW x \in ContentRows, TakeItem(d, x)
      PROVE  ListsInv'
  BY <1>2, TakeKeeps
<1>3. ASSUME NEW x \in ContentRows, RefuseItem(d, x)
      PROVE  ListsInv'
  <2> DEFINE r   == [desk[d].req EXCEPT !.left = desk[d].req.left \ {x}, !.bad = desk[d].req.bad \cup {x}]
             row == [desk[d] EXCEPT !.req = r]
  <2>1. desk' = [desk EXCEPT ![d] = row] /\ UNCHANGED <<bank, shelf, overlap, asked>>
    BY <1>0, <1>3 DEF RefuseItem, RowsTyped, DeskRows
  <2>2. /\ r \in RequestRows /\ r.op = desk[d].req.op /\ r.ids = desk[d].req.ids /\ r.ok = desk[d].req.ok
        /\ r.bad = desk[d].req.bad \cup {x} /\ r.left = desk[d].req.left \ {x} /\ r.item = "none"
    BY <1>0, <1>3 DEF RequestRows, RefuseItem, Between
  <2>. HIDE DEF r
  <2>3. Sorted(r) /\ Deleted(r)
    <3>1. x \in desk[d].req.left /\ desk[d].req.item = "none"
      BY <1>3 DEF RefuseItem, Between
    <3>2. r.item \notin r.left \cup r.ok \cup r.bad
      BY <2>2, ListsAssumption DEF ContentRows, RequestRows
    <3>3. QED
      BY <1>0, <2>2, <3>1, <3>2 DEF Sorted, Deleted
  <2>4. row \in DeskRows /\ row.req = r /\ PicksItsRows(row)
    BY <1>0, <2>2 DEF DeskRows, PicksItsRows
  <2>. HIDE DEF row
  <2>5. QED
    BY <1>0, <2>1, <2>2, <2>3, <2>4, DeskMoves
<1>4. CASE WriteItem(d)
  BY <1>4, WriteKeeps
<1>5. CASE FailItem(d)
  BY <1>5, FailKeeps
<1>6. ASSUME Loads(d) \/ LoadFails(d)
      PROVE  ListsInv'
  <2>1. PICK copy \in [BankItems -> Publicity], pcopy \in [BankPapers -> Publicity] :
          desk' = [desk EXCEPT ![d].req = Quiet, ![d].copy = copy, ![d].pcopy = pcopy]
    <3>1. StatusOf(bank) \in [BankItems -> Publicity] /\ StatusOf(shelf) \in [BankPapers -> Publicity]
      BY <1>0 DEF StatusOf, RowsTyped, BankRows, ShelfRows
    <3>2. [q \in BankItems |-> "none"] \in [BankItems -> Publicity]
            /\ [p \in BankPapers |-> "none"] \in [BankPapers -> Publicity]
      BY DEF Publicity
    <3>3. QED
      BY <1>6, <3>1, <3>2 DEF Loads, LoadFails
  <2> DEFINE row == [desk[d] EXCEPT !.req = Quiet, !.copy = copy, !.pcopy = pcopy]
  <2>2. row \in DeskRows /\ row.req = Quiet /\ PicksItsRows(row)
    BY <1>0, <1>1 DEF DeskRows, PicksItsRows
  <2>3. desk' = [desk EXCEPT ![d] = row] /\ UNCHANGED <<bank, shelf, overlap, asked>>
    BY <1>0, <1>6, <2>1 DEF Loads, LoadFails, RowsTyped, DeskRows
  <2>. HIDE DEF row
  <2>4. QED
    BY <1>0, <1>1, <2>2, <2>3, DeskMoves
<1>7. CASE Reports(d)
  <2> DEFINE r   == [Quiet EXCEPT !.op = "load"]
             row == [desk[d] EXCEPT !.picked = {}, !.req = r]
  <2>1. r \in RequestRows /\ r.item = "none" /\ Sorted(r) /\ Deleted(r)
    BY DEF Quiet, RequestRows, Demands, Sorted, Deleted, OnItems, OnPapers
  <2>2. row \in DeskRows /\ row.req = r /\ PicksItsRows(row)
    BY <1>0, <2>1 DEF DeskRows, PicksItsRows
  <2>3. desk' = [desk EXCEPT ![d] = row] /\ UNCHANGED <<bank, shelf, overlap, asked>>
    BY <1>0, <1>7 DEF Reports, RowsTyped, DeskRows
  <2>. HIDE DEF row, r
  <2>4. QED
    BY <1>0, <2>1, <2>2, <2>3, DeskMoves
<1>8. CASE AnswerLost(d)
  <2> DEFINE row == [desk[d] EXCEPT !.req = Quiet]
  <2>1. row \in DeskRows /\ row.req = Quiet /\ PicksItsRows(row)
    BY <1>0, <1>1 DEF DeskRows, PicksItsRows
  <2>2. desk' = [desk EXCEPT ![d] = row] /\ UNCHANGED <<bank, shelf, overlap, asked>>
    BY <1>0, <1>8 DEF AnswerLost, RowsTyped, DeskRows
  <2>. HIDE DEF row
  <2>3. QED
    BY <1>0, <1>1, <2>1, <2>2, DeskMoves
<1>9. QED
  BY <1>2, <1>3, <1>4, <1>5, <1>6, <1>7, <1>8 DEF DeskGoesOn, ContentRows

-----------------------------------------------------------------------------
(* What holds of the lists.                                                *)

LEMMA ListsStart == ListsInit => ListsInv
<1> SUFFICES ASSUME ListsInit PROVE ListsInv
  OBVIOUS
<1>1. \A q \in BankItems : bank[q] \in {[status |-> "PUBLISHED", cases |-> TRUE], [status |-> "DRAFT", cases |-> TRUE]}
  BY DEF ListsInit
<1>2. bank \in [BankItems -> BankRows]
  <2> DEFINE R == {[status |-> "PUBLISHED", cases |-> TRUE], [status |-> "DRAFT", cases |-> TRUE]}
  <2>1. R \subseteq BankRows
    BY DEF BankRows, Publicity
  <2>2. bank \in [BankItems -> R]
    BY DEF ListsInit
  <2>. HIDE DEF R
  <2>3. QED
    BY <2>1, <2>2
<1>3. PICK items \in SUBSET {q \in BankItems : bank[q].status = "PUBLISHED"} :
        shelf = [p \in BankPapers |-> [status |-> "DRAFT", items |-> items]]
  BY DEF ListsInit
<1>4. /\ shelf \in [BankPapers -> ShelfRows]
      /\ \A p \in BankPapers : shelf[p].status = "DRAFT" /\ shelf[p].items = items
  BY <1>3 DEF ShelfRows, Publicity
<1>5. SerialContentSound /\ \A p \in BankPapers : shelf[p].status = "none" => shelf[p].items = {}
  BY <1>1, <1>4 DEF SerialContentSound, PaperSound
<1>6. PICK k \in [Desks -> Kinds] :
        desk = [d \in Desks |->
          [kind |-> k[d], copy |-> StatusOf(bank), pcopy |-> StatusOf(shelf), picked |-> {}, req |-> Quiet]]
  BY DEF ListsInit
<1>7. Quiet \in RequestRows /\ Quiet.item = "none" /\ Sorted(Quiet) /\ Deleted(Quiet)
  BY DEF Quiet, RequestRows, Demands, Sorted, Deleted, OnItems, OnPapers
<1>8. StatusOf(bank) \in [BankItems -> Publicity] /\ StatusOf(shelf) \in [BankPapers -> Publicity]
  BY <1>2, <1>4 DEF StatusOf, BankRows, ShelfRows
<1>9. /\ desk \in [Desks -> DeskRows]
      /\ \A d \in Desks : desk[d].req = Quiet /\ desk[d].picked = {}
  BY <1>6, <1>7, <1>8 DEF DeskRows
<1>10. DesksAgree /\ \A d \in Desks : ~Between(d)
  BY <1>7, <1>9 DEF DesksAgree, PicksItsRows, Between
<1>11. RowsTyped
  <2>1. overlap \in BOOLEAN /\ asked = 0
    BY DEF ListsInit
  <2>2. asked \in 0..MaxAsked
    BY <2>1, ListsAssumption
  <2>3. QED
    BY <1>2, <1>4, <1>9, <2>1, <2>2 DEF RowsTyped
<1>12. ChecksHold
  BY <1>5, <1>10 DEF ChecksHold
<1>13. QED
  BY <1>5, <1>10, <1>11, <1>12 DEF ListsInv

LEMMA ListsStep == ListsInv /\ [ListsNext]_listVars => ListsInv'
<1> SUFFICES ASSUME ListsInv, [ListsNext]_listVars PROVE ListsInv'
  OBVIOUS
<1>1. CASE UNCHANGED listVars
  BY <1>1 DEF listVars, ListsInv, RowsTyped, DesksAgree, Sorted, Deleted, PicksItsRows, ChecksHold,
       Between, Allowed, PatchAllowed, DeleteAllowed, UpdateAllowed, OutlineAllowed, PublishAllowed,
       Held, HeldPublic, Holds, SerialContentSound, PaperSound
<1>2. QED
  BY <1>1, DeskActsKeeps, DeskGoesOnKeeps DEF ListsNext

(* Whatever desks ask for, in any order: rows, requests and selections     *)
(* keep their types, reports their accounts, and a request that nothing    *)
(* overlapped the check it passed.                                         *)
THEOREM ListsInvariant == ListsSpec => []ListsInv
BY ListsStart, ListsStep, PTL DEF ListsSpec

LEMMA ListsTyped == ListsInv => ListsTypeOK
BY DEF ListsInv, RowsTyped, DesksAgree, Sorted, DeskRows, RequestRows, ContentRows, BankRows, ShelfRows,
   ListsTypeOK

(* The types of the lists, of their requests and of the rows.              *)
THEOREM ListsTypes == ListsSpec => []ListsTypeOK
BY ListsTyped, ListsInvariant, PTL

(* However many lists and editors are open and however old the rows they   *)
(* act on: while no two requests overlap, a published paper has published  *)
(* questions, no paper a deleted one, no published question is without     *)
(* test cases.                                                             *)
THEOREM SerialRequestsAreSafe == ListsSpec => []SerialContentSound
<1>1. ListsInv => SerialContentSound
  BY DEF ListsInv
<1>2. QED
  BY <1>1, ListsInvariant, PTL

(* A batch report accounts for every row that was selected, and what it    *)
(* says was deleted is gone for good, however requests interleave.         *)
THEOREM ReportsAreTrue == ListsSpec => []ReportsHold
<1>1. ListsInv => ReportsHold
  BY DEF ListsInv, DesksAgree, Sorted, Deleted, ReportsHold, Finished, Between
<1>2. QED
  BY <1>1, ListsInvariant, PTL
=============================================================================
