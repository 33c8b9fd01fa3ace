-------------------------- MODULE OptionsEditorProofs --------------------------
(***************************************************************************)
(* The options of a choice question, for any number of them, and what the  *)
(* sequence operators of the pages return.  An edit changes the list at    *)
(* once and the marks later: the invariant says whose the marks are in     *)
(* between, those of the letters or of the timer that waits (MarksAgree),  *)
(* and that the last timer leaves letters and answer in order however      *)
(* edits raced with those before it (LettersSettle).                       *)
(***************************************************************************)
EXTENDS OptionsEditor, SequenceTheorems, TLAPS

(* What the sequence operators of the pages return.                        *)
LEMMA RemovedAt ==
  ASSUME NEW S, NEW s \in Seq(S), NEW i \in 1..Len(s)
  PROVE  /\ RemoveAt(s, i) \in Seq(S) /\ Len(RemoveAt(s, i)) = Len(s) - 1
         /\ \A k \in 1..(Len(s) - 1) : RemoveAt(s, i)[k] = IF k < i THEN s[k] ELSE s[k + 1]
<1> DEFINE a == SubSeq(s, 1, i - 1)
           b == SubSeq(s, i + 1, Len(s))
<1>1. Len(s) \in Nat /\ \A k \in 1..Len(s) : s[k] \in S
  BY LenProperties, ElementOfSeq
<1>2. a \in Seq(S) /\ Len(a) = i - 1 /\ \A k \in 1..(i - 1) : a[k] = s[k]
  <2>1. /\ a \in Seq(S) /\ Len(a) = IF 1 <= i - 1 THEN i - 1 - 1 + 1 ELSE 0
        /\ \A k \in 1..(i - 1 - 1 + 1) : a[k] = s[1 + k - 1]
    BY <1>1, SubSeqProperties
  <2> HIDE DEF a
  <2> QED  BY <1>1, <2>1
<1>3. b \in Seq(S) /\ Len(b) = Len(s) - i /\ \A k \in 1..(Len(s) - i) : b[k] = s[k + i]
  <2>1. /\ b \in Seq(S) /\ Len(b) = IF i + 1 <= Len(s) THEN Len(s) - (i + 1) + 1 ELSE 0
        /\ \A k \in 1..(Len(s) - (i + 1) + 1) : b[k] = s[i + 1 + k - 1]
    BY <1>1, SubSeqProperties
  <2> HIDE DEF b
  <2> QED  BY <1>1, <2>1
<1>4. RemoveAt(s, i) = a \o b  BY DEF RemoveAt
<1>5. /\ a \o b \in Seq(S) /\ Len(a \o b) = Len(a) + Len(b)
      /\ \A k \in 1..(Len(a) + Len(b)) : (a \o b)[k] = IF k <= Len(a) THEN a[k] ELSE b[k - Len(a)]
  <2> HIDE DEF a, b
  <2> QED  BY <1>2, <1>3, ConcatProperties
<1> HIDE DEF a, b
<1>6. Len(a) + Len(b) = Len(s) - 1  BY <1>1, <1>2, <1>3
<1>7. ASSUME NEW k \in 1..(Len(s) - 1)
      PROVE  (a \o b)[k] = IF k < i THEN s[k] ELSE s[k + 1]
  <2>1. CASE k < i  BY <2>1, <1>1, <1>2, <1>5, <1>6
  <2>2. CASE k >= i
    <3>1. k - Len(a) \in 1..(Len(s) - i) /\ k - Len(a) + i = k + 1  BY <2>2, <1>1, <1>2
    <3>2. (a \o b)[k] = b[k - Len(a)]  BY <2>2, <1>1, <1>2, <1>5, <1>6
    <3>3. b[k - Len(a)] = s[k - Len(a) + i]  BY <3>1, <1>3
    <3>4. ~(k < i)  BY <2>2, <1>1
    <3> QED  BY <3>1, <3>2, <3>3, <3>4
  <2>3. k < i \/ k >= i  BY <1>1
  <2> QED  BY <2>1, <2>2, <2>3
<1> QED  BY <1>4, <1>5, <1>6, <1>7

(* And an insertion.                                                       *)
LEMMA InsertedAt ==
  ASSUME NEW S, NEW s \in Seq(S), NEW i \in 1..(Len(s) + 1), NEW e \in S
  PROVE  /\ InsertAt(s, i, e) \in Seq(S) /\ Len(InsertAt(s, i, e)) = Len(s) + 1
         /\ \A k \in 1..(Len(s) + 1) :
              InsertAt(s, i, e)[k] = IF k < i THEN s[k] ELSE IF k = i THEN e ELSE s[k - 1]
<1> DEFINE a == SubSeq(s, 1, i - 1)
           b == SubSeq(s, i, Len(s))
<1>1. Len(s) \in Nat /\ \A k \in 1..Len(s) : s[k] \in S
  BY LenProperties, ElementOfSeq
<1>2. a \in Seq(S) /\ Len(a) = i - 1 /\ \A k \in 1..(i - 1) : a[k] = s[k]
  <2>1. /\ a \in Seq(S) /\ Len(a) = IF 1 <= i - 1 THEN i - 1 - 1 + 1 ELSE 0
        /\ \A k \in 1..(i - 1 - 1 + 1) : a[k] = s[1 + k - 1]
    BY <1>1, SubSeqProperties
  <2> HIDE DEF a
  <2> QED  BY <1>1, <2>1
<1>3. b \in Seq(S) /\ Len(b) = Len(s) - i + 1 /\ \A k \in 1..(Len(s) - i + 1) : b[k] = s[k + i - 1]
  <2>1. /\ b \in Seq(S) /\ Len(b) = IF i <= Len(s) THEN Len(s) - i + 1 ELSE 0
        /\ \A k \in 1..(Len(s) - i + 1) : b[k] = s[i + k - 1]
    BY <1>1, SubSeqProperties
  <2> HIDE DEF b
  <2> QED  BY <1>1, <2>1
<1> DEFINE c == a \o <<e>>
<1>4. c \in Seq(S) /\ Len(c) = i /\ \A k \in 1..i : c[k] = IF k < i THEN s[k] ELSE e
  <2> HIDE DEF a
  <2> QED  BY <1>1, <1>2, ConcatProperties
<1>5. InsertAt(s, i, e) = c \o b  BY DEF InsertAt
<1> HIDE DEF a, b, c
<1>6. /\ c \o b \in Seq(S) /\ Len(c \o b) = Len(c) + Len(b)
      /\ \A k \in 1..(Len(c) + Len(b)) : (c \o b)[k] = IF k <= Len(c) THEN c[k] ELSE b[k - Len(c)]
  BY <1>3, <1>4, ConcatProperties
<1>7. Len(c) + Len(b) = Len(s) + 1  BY <1>1, <1>3, <1>4
<1>8. ASSUME NEW k \in 1..(Len(s) + 1)
      PROVE  (c \o b)[k] = IF k < i THEN s[k] ELSE IF k = i THEN e ELSE s[k - 1]
  <2>1. CASE k <= i  BY <2>1, <1>1, <1>4, <1>6, <1>7
  <2>2. CASE k > i
    <3>1. k - i \in 1..(Len(s) - i + 1) /\ k - i + i - 1 = k - 1  BY <2>2, <1>1
    <3>2. (c \o b)[k] = b[k - i]  BY <2>2, <1>1, <1>4, <1>6, <1>7
    <3>3. b[k - i] = s[i + (k - i) - 1]  BY <3>1, <1>3
    <3>4. i + (k - i) - 1 = k - 1 /\ ~(k < i) /\ k # i  BY <2>2, <1>1
    <3> QED  BY <3>2, <3>3, <3>4
  <2>3. k <= i \/ k > i  BY <1>1
  <2> QED  BY <2>1, <2>2, <2>3
<1> QED  BY <1>5, <1>6, <1>7, <1>8

-----------------------------------------------------------------------------
(***************************************************************************)
(* The options of a question.                                              *)
(***************************************************************************)

(* Where the element comes from that a move from one position to another   *)
(* leaves at position k.                                                   *)
Whence(from, to, k) ==
  IF k = to THEN from
  ELSE IF from <= k /\ k < to THEN k + 1
  ELSE IF to < k /\ k <= from THEN k - 1 ELSE k

(* What moveArrayItem returns.                                             *)
LEMMA MovedElements ==
  ASSUME NEW S, NEW s \in Seq(S), NEW from \in 1..Len(s), NEW to \in 1..Len(s)
  PROVE  /\ Moved(s, from, to) \in Seq(S) /\ Len(Moved(s, from, to)) = Len(s)
         /\ \A k \in 1..Len(s) : /\ Whence(from, to, k) \in 1..Len(s)
                                 /\ Moved(s, from, to)[k] = s[Whence(from, to, k)]
<1> DEFINE r == RemoveAt(s, from)
           t == InsertAt(r, to, s[from])
<1>1. Len(s) \in Nat /\ s[from] \in S  BY LenProperties, ElementOfSeq
<1>2. /\ r \in Seq(S) /\ Len(r) = Len(s) - 1
      /\ \A k \in 1..(Len(s) - 1) : r[k] = IF k < from THEN s[k] ELSE s[k + 1]
  BY RemovedAt
<1>3. /\ t \in Seq(S) /\ Len(t) = Len(s)
      /\ \A k \in 1..Len(s) : t[k] = IF k < to THEN r[k] ELSE IF k = to THEN s[from] ELSE r[k - 1]
  <2> HIDE DEF r
  <2>1. r \in Seq(S) /\ to \in 1..(Len(r) + 1) /\ Len(r) + 1 = Len(s)  BY <1>1, <1>2
  <2> DEFINE e == s[from]
  <2>2. e \in S /\ t = InsertAt(r, to, e)  BY <1>1
  <2> HIDE DEF e, t
  <2>a. InsertAt(r, to, e) \in Seq(S) /\ Len(InsertAt(r, to, e)) = Len(r) + 1
    BY ONLY <2>1, <2>2, InsertedAt
  <2>b. \A k \in 1..(Len(r) + 1) :
          InsertAt(r, to, e)[k] = IF k < to THEN r[k] ELSE IF k = to THEN e ELSE r[k - 1]
    <3>1. r \in Seq(S) /\ to \in 1..(Len(r) + 1) /\ e \in S  BY <2>1, <2>2
    <3>2. ASSUME NEW q \in Seq(S), NEW i \in 1..(Len(q) + 1), NEW d \in S
          PROVE  \A k \in 1..(Len(q) + 1) :
                   InsertAt(q, i, d)[k] = IF k < i THEN q[k] ELSE IF k = i THEN d ELSE q[k - 1]
      BY InsertedAt
    <3> QED  BY <3>1, <3>2
  <2>3. /\ t \in Seq(S) /\ Len(t) = Len(r) + 1
        /\ \A k \in 1..(Len(r) + 1) : t[k] = IF k < to THEN r[k] ELSE IF k = to THEN s[from] ELSE r[k - 1]
    <3>1. t \in Seq(S) /\ Len(t) = Len(r) + 1  BY <2>2, <2>a
    <3>2. \A k \in 1..(Len(r) + 1) : t[k] = IF k < to THEN r[k] ELSE IF k = to THEN e ELSE r[k - 1]
      BY ONLY <2>2, <2>b, Zenon
    <3> QED  BY ONLY <3>1, <3>2 DEF e
  <2> HIDE DEF t
  <2> QED  BY <2>1, <2>3
<1>4. ASSUME NEW k \in 1..Len(s)
      PROVE  Whence(from, to, k) \in 1..Len(s) /\ t[k] = s[Whence(from, to, k)]
  <2> HIDE DEF r, t
  <2>1. Whence(from, to, k) \in 1..Len(s)  BY <1>1 DEF Whence
  <2>2. CASE k = to  BY <2>1, <2>2, <1>1, <1>3 DEF Whence
  <2>3. CASE k < to
    <3>1. t[k] = r[k] /\ k \in 1..(Len(s) - 1)  BY <2>3, <1>1, <1>3
    <3>2. r[k] = IF k < from THEN s[k] ELSE s[k + 1]  BY <3>1, <1>2
    <3>3. Whence(from, to, k) = IF k < from THEN k ELSE k + 1  BY <2>3, <1>1 DEF Whence
    <3> QED  BY <2>1, <3>1, <3>2, <3>3
  <2>4. CASE k > to
    <3>1. t[k] = r[k - 1] /\ k - 1 \in 1..(Len(s) - 1)  BY <2>4, <1>1, <1>3
    <3>2. r[k - 1] = IF k - 1 < from THEN s[k - 1] ELSE s[k - 1 + 1]  BY <3>1, <1>2
    <3>3. k - 1 + 1 = k  BY <1>1
    <3>4. Whence(from, to, k) = IF k - 1 < from THEN k - 1 ELSE k  BY <2>4, <1>1 DEF Whence
    <3> QED  BY <2>1, <3>1, <3>2, <3>3, <3>4
  <2>5. k = to \/ k < to \/ k > to  BY <1>1
  <2> QED  BY <2>2, <2>3, <2>4, <2>5
<1>5. Moved(s, from, to) = t  BY DEF Moved
<1> HIDE DEF r, t
<1> QED  BY <1>3, <1>4, <1>5

(* No option is twice in the list, and none is one that is yet to come.    *)
OptionsDistinct ==
  /\ \A i \in Positions : options[i].who <= made
  /\ \A i, k \in Positions : options[i].who = options[k].who => i = k

(* An edit at a time, the marks are those of the letters, or of the timer  *)
(* that waits.                                                             *)
MarksAgree ==
  calm => IF timers = <<>>
          THEN Lettered /\ answer \subseteq Positions /\ MarkedOptions = correct
          ELSE Len(timers) = 1 /\ {options[i].who : i \in timers[1] \cap Positions} = correct

(* Once the timers have fired, the letters are those of the positions.     *)
LettersSettle == (timers = <<>> /\ relettered) => (Lettered /\ answer \subseteq Positions)

OptionsInv == OptionsTypeOK /\ OptionsDistinct /\ MarksAgree /\ LettersSettle

(* With a letter each, the first option of a letter is the only one.       *)
LEMMA FirstIsOnly ==
  ASSUME Lettered, Len(options) \in Nat
  PROVE  SelectedIndexes = ShownIndexes
BY DEF SelectedIndexes, ShownIndexes, Lettered, Positions

(* A question just opened: nothing waits, and the marks are those stored.  *)
LEMMA OptionsStart == OptionsInit => OptionsInv
<1> SUFFICES ASSUME OptionsInit PROVE OptionsInv  OBVIOUS
<1>0. OptionsAssumption  BY OptionsAssumption
<1>1. /\ kind \in {"SINGLE_CHOICE", "MULTIPLE_CHOICE"} /\ timers = <<>> /\ made = Len(options)
      /\ correct = MarkedOptions /\ calm = Lettered /\ relettered = Lettered
  BY DEF OptionsInit
<1>a. PICK n \in 2..MaxOptions :
        \E letters \in [1..n -> Keys], b \in BOOLEAN :
          /\ n <= MaxAdded /\ answer \subseteq Range(letters)
          /\ options = [i \in 1..n |-> [who |-> i, key |-> letters[i], blank |-> b]]
  <2>1. CASE /\ options = [i \in 1..2 |-> [who |-> i, key |-> i, blank |-> TRUE]]
             /\ answer = {}
    <3>1. [i \in 1..2 |-> i] \in [1..2 -> Keys] /\ 2 \in 2..MaxOptions /\ 2 <= MaxAdded
      BY <1>0 DEF OptionsAssumption, Keys
    <3>2. options = [i \in 1..2 |-> [who |-> i, key |-> [j \in 1..2 |-> j][i], blank |-> TRUE]]
      BY <2>1
    <3> QED  BY <2>1, <3>1, <3>2
  <2>2. CASE ~(/\ options = [i \in 1..2 |-> [who |-> i, key |-> i, blank |-> TRUE]]
               /\ answer = {})
    BY <2>2 DEF OptionsInit
  <2> QED  BY <2>1, <2>2
<1>b. PICK letters \in [1..n -> Keys], b \in BOOLEAN :
        /\ n <= MaxAdded /\ answer \subseteq Range(letters)
        /\ options = [i \in 1..n |-> [who |-> i, key |-> letters[i], blank |-> b]]
  BY <1>a
<1>2. n <= MaxAdded /\ answer \subseteq Range(letters)  BY <1>b
<1>3. options = [i \in 1..n |-> [who |-> i, key |-> letters[i], blank |-> b]]  BY <1>b
<1>4. n \in Nat /\ MaxOptions \in Nat /\ MaxAdded \in Nat  BY <1>0 DEF OptionsAssumption
<1>5. \A i \in 1..n : [who |-> i, key |-> letters[i], blank |-> b] \in Options
  BY <1>2, <1>4 DEF Options
<1>6. options \in Seq(Options) /\ Len(options) = n  BY <1>3, <1>4, <1>5
<1>7. answer \subseteq Keys  BY <1>2 DEF Range
<1>8. correct \subseteq 1..MaxAdded
  BY <1>1, <1>2, <1>3, <1>4, <1>6 DEF MarkedOptions, ShownIndexes, Positions
<1>9. calm \in BOOLEAN /\ relettered \in BOOLEAN  BY <1>1 DEF Lettered
<1>10. OptionsTypeOK
  BY <1>1, <1>2, <1>4, <1>6, <1>7, <1>8, <1>9 DEF OptionsTypeOK
<1>11. OptionsDistinct  BY <1>1, <1>3, <1>4, <1>6 DEF OptionsDistinct, Positions
<1>12. ASSUME Lettered PROVE answer \subseteq Positions
  <2>1. \A i \in 1..n : letters[i] = i  BY <1>3, <1>6, <1>12 DEF Lettered, Positions
  <2> QED  BY <1>2, <1>6, <2>1 DEF Range, Positions
<1>13. MarksAgree  BY <1>1, <1>12 DEF MarksAgree
<1>14. LettersSettle  BY <1>1, <1>12 DEF LettersSettle
<1> QED  BY <1>10, <1>11, <1>13, <1>14 DEF OptionsInv

(* The element at position i goes to a position of MovedIndexes, and every *)
(* position there is one's that was selected.                              *)
LEMMA MovesBackAndForth ==
  ASSUME NEW n \in Nat, NEW from \in 1..n, NEW to \in 1..n, NEW selected \in SUBSET (1..n)
  PROVE  /\ MovedIndexes(selected, from, to) \subseteq 1..n
         /\ \A k \in 1..n : k \in MovedIndexes(selected, from, to) <=> Whence(from, to, k) \in selected
         /\ \A i \in 1..n : \E k \in 1..n : Whence(from, to, k) = i
         /\ \A i, k \in 1..n : Whence(from, to, i) = Whence(from, to, k) => i = k
<1> DEFINE Lands(i) == IF i = from THEN to
                       ELSE IF from < i /\ i <= to THEN i - 1
                       ELSE IF to <= i /\ i < from THEN i + 1 ELSE i
<1>1. MovedIndexes(selected, from, to) = {Lands(i) : i \in selected}  BY DEF MovedIndexes
<1>2. ASSUME NEW i \in 1..n PROVE Lands(i) \in 1..n /\ Whence(from, to, Lands(i)) = i
  BY DEF Whence
<1>3. ASSUME NEW k \in 1..n
      PROVE  Whence(from, to, k) \in 1..n /\ Lands(Whence(from, to, k)) = k
  BY DEF Whence
<1> HIDE DEF Lands
<1> QED  BY <1>1, <1>2, <1>3

(* Dropping an option on another.                                          *)
LEMMA DragKeeps ==
  ASSUME OptionsInv, NEW from \in Positions, NEW to \in Positions, DragOption(from, to)
  PROVE  OptionsInv'
<1> DEFINE n == Len(options)
           sel == MovedIndexes(SelectedIndexes, from, to)
<1>0. OptionsTypeOK /\ OptionsAssumption /\ n \in Nat /\ MaxOptions \in Nat
  BY OptionsAssumption, LenProperties DEF OptionsInv, OptionsTypeOK, OptionsAssumption
<1>1. /\ options' \in Seq(Options) /\ Len(options') = n
      /\ \A k \in 1..n : Whence(from, to, k) \in 1..n /\ options'[k] = options[Whence(from, to, k)]
  <2>1. options' = Moved(options, from, to)  BY DEF DragOption
  <2>2. options \in Seq(Options) /\ from \in 1..Len(options) /\ to \in 1..Len(options)
    BY <1>0 DEF OptionsTypeOK, Positions
  <2>3. /\ Moved(options, from, to) \in Seq(Options) /\ Len(Moved(options, from, to)) = Len(options)
        /\ \A k \in 1..Len(options) : /\ Whence(from, to, k) \in 1..Len(options)
                                     /\ Moved(options, from, to)[k] = options[Whence(from, to, k)]
    BY ONLY <2>2, MovedElements
  <2> QED  BY <2>1, <2>3
<1>2. /\ timers' = Append(timers, sel) /\ calm' = (calm /\ timers = <<>>)
      /\ UNCHANGED <<kind, answer, made, correct, relettered>>
  BY DEF DragOption, Later, Edits
<1>3. SelectedIndexes \subseteq 1..n  BY DEF SelectedIndexes, ShownIndexes, Positions
<1>4. /\ sel \subseteq 1..n
      /\ \A k \in 1..n : k \in sel <=> Whence(from, to, k) \in SelectedIndexes
      /\ \A i \in 1..n : \E k \in 1..n : Whence(from, to, k) = i
      /\ \A i, k \in 1..n : Whence(from, to, i) = Whence(from, to, k) => i = k
  BY <1>0, <1>3, MovesBackAndForth DEF Positions
<1>5. sel \in SUBSET Keys  BY <1>0, <1>4 DEF OptionsTypeOK, Keys
<1> HIDE DEF sel
<1>6. timers' \in Seq(SUBSET Keys) /\ timers' # <<>>
  BY <1>0, <1>2, <1>5, AppendProperties DEF OptionsTypeOK
<1>7. OptionsTypeOK'
  BY <1>0, <1>1, <1>2, <1>6 DEF OptionsTypeOK, Keys
<1>8. OptionsDistinct'
  <2>1. Positions' = 1..n  BY <1>1 DEF Positions
  <2>2. made' = made  BY <1>2
  <2>3. /\ \A k \in 1..n : options[k].who <= made
        /\ \A k, j \in 1..n : options[k].who = options[j].who => k = j
    BY DEF OptionsInv, OptionsDistinct, Positions
  <2>4. \A k \in 1..n : options'[k].who <= made  BY <1>1, <2>3
  <2>5. ASSUME NEW k \in 1..n, NEW j \in 1..n, options'[k].who = options'[j].who PROVE k = j
    <3>1. Whence(from, to, k) = Whence(from, to, j)  BY <1>1, <2>3, <2>5
    <3> QED  BY <3>1, <1>4
  <2> QED  BY <2>1, <2>2, <2>4, <2>5 DEF OptionsDistinct
<1>9. MarksAgree'
  <2> SUFFICES ASSUME calm, timers = <<>>
               PROVE  Len(timers') = 1 /\ {options'[i].who : i \in timers'[1] \cap Positions'} = correct
    BY <1>2, <1>6 DEF MarksAgree
  <2>1. timers' = <<sel>>  BY <1>2
  <2>2. {options[i].who : i \in SelectedIndexes} = correct
    BY <1>0, FirstIsOnly DEF OptionsInv, MarksAgree, MarkedOptions
  <2>3. Positions' = 1..n  BY <1>1 DEF Positions
  <2>4. {options'[k].who : k \in sel} = {options[i].who : i \in SelectedIndexes}
    <3>1. \A k \in sel : options'[k].who = options[Whence(from, to, k)].who /\ Whence(from, to, k) \in SelectedIndexes
      BY <1>1, <1>4
    <3>2. \A i \in SelectedIndexes : \E k \in sel : Whence(from, to, k) = i
      BY <1>3, <1>4
    <3> QED  BY <3>1, <3>2
  <2>5. timers'[1] \cap Positions' = sel /\ Len(timers') = 1  BY <2>1, <2>3, <1>4
  <2> QED  BY <2>2, <2>4, <2>5
<1>10. LettersSettle'  BY <1>6 DEF LettersSettle
<1> QED  BY <1>7, <1>8, <1>9, <1>10 DEF OptionsInv

(* Removing an option.                                                     *)
LEMMA RemovalKeeps ==
  ASSUME OptionsInv, NEW i \in Positions, RemoveOption(i)
  PROVE  OptionsInv'
<1> DEFINE n == Len(options)
           From(k) == IF k < i THEN k ELSE k + 1
           sel == DeletedIndexes(SelectedIndexes, i)
<1>0. OptionsTypeOK /\ OptionsAssumption /\ n \in Nat /\ MaxOptions \in Nat /\ i \in 1..n
  BY OptionsAssumption, LenProperties DEF OptionsInv, OptionsTypeOK, OptionsAssumption, Positions
<1>1. /\ options' \in Seq(Options) /\ Len(options') = n - 1
      /\ \A k \in 1..(n - 1) : options'[k] = options[From(k)]
  BY <1>0, RemovedAt DEF RemoveOption, OptionsTypeOK
<1>2. /\ timers' = Append(timers, sel) /\ calm' = (calm /\ timers = <<>>)
      /\ correct' = correct \ {options[i].who} /\ UNCHANGED <<kind, answer, made, relettered>>
  BY DEF RemoveOption, Later, Edits
<1>3. SelectedIndexes \subseteq 1..n  BY DEF SelectedIndexes, ShownIndexes, Positions
<1>4. /\ \A k \in 1..(n - 1) : From(k) \in 1..n /\ From(k) # i
      /\ \A j \in (1..n) \ {i} : \E k \in 1..(n - 1) : From(k) = j
      /\ \A j, k \in 1..(n - 1) : From(j) = From(k) => j = k
  <2>1. ASSUME NEW j \in (1..n) \ {i} PROVE \E k \in 1..(n - 1) : From(k) = j
    <3>1. CASE j < i  BY <3>1, <1>0
    <3>2. CASE j > i
      <4>1. j - 1 \in 1..(n - 1) /\ From(j - 1) = j  BY <3>2, <1>0
      <4> QED  BY <4>1
    <3> QED  BY <3>1, <3>2, <1>0
  <2> QED  BY <1>0, <2>1
<1>5. sel \subseteq 1..(n - 1) /\ \A k \in 1..(n - 1) : k \in sel <=> From(k) \in SelectedIndexes
  <2> DEFINE To(j) == IF j > i THEN j - 1 ELSE j
  <2>1. sel = {To(j) : j \in SelectedIndexes \ {i}}  BY DEF DeletedIndexes
  <2>2. ASSUME NEW j \in (1..n) \ {i} PROVE To(j) \in 1..(n - 1) /\ From(To(j)) = j
    BY <1>0
  <2>3. ASSUME NEW k \in 1..(n - 1) PROVE To(From(k)) = k /\ From(k) # i
    BY <1>0
  <2> HIDE DEF To, From, sel
  <2> QED  BY <1>3, <2>1, <2>2, <2>3
<1>6. sel \in SUBSET Keys  BY <1>0, <1>5 DEF OptionsTypeOK, Keys
<1> HIDE DEF sel, From
<1>7. timers' \in Seq(SUBSET Keys) /\ timers' # <<>>
  BY <1>0, <1>2, <1>6, AppendProperties DEF OptionsTypeOK
<1>8. OptionsTypeOK'
  <2>0. Len(options) <= MaxOptions /\ correct \subseteq 1..MaxAdded  BY <1>0 DEF OptionsTypeOK
  <2>4. Len(options') <= MaxOptions  BY <1>0, <1>1, <2>0
  <2>5. correct' \subseteq 1..MaxAdded  BY <1>2, <2>0
  <2>3. calm' \in BOOLEAN  BY <1>2
  <2>2. UNCHANGED <<kind, answer, made, relettered>>  BY <1>2
  <2> QED  BY <1>0, <1>1, <1>7, <2>2, <2>3, <2>4, <2>5 DEF OptionsTypeOK, Keys
<1>9. OptionsDistinct'
  <2>1. Positions' = 1..(n - 1)  BY <1>1 DEF Positions
  <2>2. made' = made  BY <1>2
  <2>3. /\ \A k \in 1..n : options[k].who <= made
        /\ \A k, j \in 1..n : options[k].who = options[j].who => k = j
    BY DEF OptionsInv, OptionsDistinct, Positions
  <2>4. \A k \in 1..(n - 1) : options'[k].who <= made  BY <1>1, <1>4, <2>3
  <2>5. ASSUME NEW k \in 1..(n - 1), NEW j \in 1..(n - 1), options'[k].who = options'[j].who
        PROVE  k = j
    <3>1. From(k) = From(j)  BY <1>1, <1>4, <2>3, <2>5
    <3> QED  BY <3>1, <1>4
  <2> QED  BY <2>1, <2>2, <2>4, <2>5 DEF OptionsDistinct
<1>10. MarksAgree'
  <2> SUFFICES ASSUME calm, timers = <<>>
               PROVE  Len(timers') = 1 /\ {options'[k].who : k \in timers'[1] \cap Positions'} = correct'
    BY <1>2, <1>7 DEF MarksAgree
  <2>1. timers' = <<sel>>  BY <1>2
  <2>2. {options[j].who : j \in SelectedIndexes} = correct
    BY <1>0, FirstIsOnly DEF OptionsInv, MarksAgree, MarkedOptions
  <2>3. Positions' = 1..(n - 1)  BY <1>1 DEF Positions
  <2>4. {options'[k].who : k \in sel} = {options[j].who : j \in SelectedIndexes \ {i}}
    BY <1>1, <1>3, <1>4, <1>5
  <2>5. {options[j].who : j \in SelectedIndexes \ {i}} = correct'
    BY <1>0, <1>2, <1>3, <2>2 DEF OptionsInv, OptionsDistinct, Positions
  <2>6. timers'[1] \cap Positions' = sel /\ Len(timers') = 1  BY <2>1, <2>3, <1>5
  <2> QED  BY <2>4, <2>5, <2>6
<1>11. LettersSettle'  BY <1>7 DEF LettersSettle
<1> QED  BY <1>8, <1>9, <1>10, <1>11 DEF OptionsInv

(* Every handler of the options, and the timer they leave behind.          *)
LEMMA OptionsStep == OptionsInv /\ [OptionsNext]_optionVars => OptionsInv'
<1> SUFFICES ASSUME OptionsInv, [OptionsNext]_optionVars PROVE OptionsInv'  OBVIOUS
<1>0. OptionsTypeOK /\ OptionsAssumption /\ Len(options) \in Nat /\ MaxOptions \in Nat
      /\ MaxAdded \in Nat /\ made \in Nat /\ DOMAIN options = 1..Len(options)
  BY OptionsAssumption, LenProperties DEF OptionsInv, OptionsTypeOK, OptionsAssumption
<1>p. \A i \in Positions : options[i] \in Options /\ i \in Keys
  BY <1>0, ElementOfSeq DEF Positions, OptionsTypeOK, Keys
<1>1. ASSUME AddOption PROVE OptionsInv'
  <2> DEFINE new == [who |-> made + 1, key |-> Len(options) + 1, blank |-> TRUE]
  <2>1. /\ Len(options) < MaxOptions /\ made < MaxAdded /\ made' = made + 1
        /\ options' = Append(options, new) /\ calm' = (calm /\ timers = <<>>)
        /\ UNCHANGED <<kind, answer, timers, correct, relettered>>
    BY <1>1 DEF AddOption, Edits
  <2>2. new \in Options /\ made + 1 \in 0..MaxAdded
    BY <1>0, <2>1 DEF Options, Keys
  <2>3. /\ options' \in Seq(Options) /\ Len(options') = Len(options) + 1
        /\ \A i \in 1..Len(options) : options'[i] = options[i]
        /\ options'[Len(options) + 1] = new
    BY <1>0, <2>1, <2>2, AppendProperties DEF OptionsTypeOK
  <2>4. Positions' = Positions \cup {Len(options) + 1} /\ Len(options) + 1 \notin Positions
    BY <1>0, <2>3 DEF Positions
  <2>5. calm' \in BOOLEAN  BY <2>1
  <2>6. OptionsTypeOK'  BY <1>0, <2>1, <2>2, <2>3, <2>5 DEF OptionsTypeOK, Keys
  <2>7. /\ \A i \in Positions : options'[i] = options[i]
        /\ options'[Len(options) + 1].who = made + 1 /\ options'[Len(options) + 1].key = Len(options) + 1
    BY <2>3 DEF Positions
  <2>8. OptionsDistinct'
    <3>1. \A i \in Positions : options[i].who \in Nat /\ options[i].who <= made
      BY <1>p, <1>0 DEF OptionsInv, OptionsDistinct, Options
    <3> DEFINE last == Len(options) + 1
    <3>2. options'[last].who = made + 1 /\ made' = made + 1  BY <2>1, <2>7
    <3>3. Positions' = Positions \cup {last} /\ last \notin Positions  BY <2>4
    <3>4. \A i \in Positions : options'[i].who = options[i].who  BY <2>7
    <3>5. \A i, k \in Positions : options[i].who = options[k].who => i = k
      BY DEF OptionsInv, OptionsDistinct
    <3> HIDE DEF last
    <3>6. \A i \in Positions' : options'[i].who <= made'  BY <1>0, <3>1, <3>2, <3>3, <3>4
    <3>7. \A i, k \in Positions' : options'[i].who = options'[k].who => i = k
      BY <1>0, <3>1, <3>2, <3>3, <3>4, <3>5
    <3> QED  BY <3>6, <3>7 DEF OptionsDistinct
  <2>9. MarksAgree'
    <3> SUFFICES ASSUME calm, timers = <<>>
                 PROVE  Lettered' /\ answer \subseteq Positions' /\ MarkedOptions' = correct
      BY <2>1 DEF MarksAgree
    <3>1. Lettered /\ answer \subseteq Positions /\ MarkedOptions = correct
      BY DEF OptionsInv, MarksAgree
    <3>2. Lettered'  BY <2>4, <2>7, <3>1 DEF Lettered
    <3>3. ShownIndexes' = ShownIndexes
      BY <2>1, <2>4, <2>7, <3>1 DEF ShownIndexes
    <3>4. MarkedOptions' = MarkedOptions
      BY <2>7, <3>3 DEF MarkedOptions, ShownIndexes
    <3> QED  BY <2>4, <3>1, <3>2, <3>4
  <2>10. LettersSettle'
    <3> SUFFICES ASSUME timers = <<>>, relettered PROVE Lettered' /\ answer \subseteq Positions'
      BY <2>1 DEF LettersSettle
    <3>1. Lettered /\ answer \subseteq Positions  BY DEF OptionsInv, LettersSettle
    <3> QED  BY <2>4, <2>7, <3>1 DEF Lettered
  <2> QED  BY <2>6, <2>8, <2>9, <2>10 DEF OptionsInv
<1>2. ASSUME NEW i \in Positions, TypeText(i) PROVE OptionsInv'
  <2>1. /\ options' = [options EXCEPT ![i].blank = ~@] /\ calm' = (calm /\ timers = <<>>)
        /\ UNCHANGED <<kind, answer, timers, made, correct, relettered>>
    BY <1>2 DEF TypeText, Edits
  <2> DEFINE new == [options[i] EXCEPT !.blank = ~@]
  <2>2. new \in Options /\ new.who = options[i].who /\ new.key = options[i].key
    BY <1>p, <1>2 DEF Options
  <2>3. options' = [options EXCEPT ![i] = new]  BY <2>1
  <2> HIDE DEF new
  <2>4. /\ options' \in Seq(Options) /\ Len(options') = Len(options)
        /\ \A k \in 1..Len(options) : options'[k] = IF k = i THEN new ELSE options[k]
    BY <1>0, <1>2, <2>2, <2>3, ExceptSeq DEF OptionsTypeOK, Positions
  <2>5. /\ Positions' = Positions
        /\ \A k \in Positions : options'[k].who = options[k].who /\ options'[k].key = options[k].key
    BY <2>2, <2>4 DEF Positions
  <2>6. calm' \in BOOLEAN  BY <2>1
  <2>7. OptionsTypeOK'  BY <1>0, <2>1, <2>4, <2>6 DEF OptionsTypeOK, Keys
  <2>8. OptionsDistinct'  BY <2>1, <2>5 DEF OptionsInv, OptionsDistinct
  <2>9. MarksAgree'
    <3> SUFFICES ASSUME calm, timers = <<>>
                 PROVE  Lettered' /\ answer \subseteq Positions' /\ MarkedOptions' = correct
      BY <2>1 DEF MarksAgree
    <3>1. Lettered /\ answer \subseteq Positions /\ MarkedOptions = correct
      BY DEF OptionsInv, MarksAgree
    <3>2. Lettered'  BY <2>5, <3>1 DEF Lettered
    <3>3. ShownIndexes' = ShownIndexes  BY <2>1, <2>5 DEF ShownIndexes
    <3>4. MarkedOptions' = MarkedOptions  BY <2>5, <3>3 DEF MarkedOptions, ShownIndexes
    <3> QED  BY <2>5, <3>1, <3>2, <3>4
  <2>10. LettersSettle'
    <3> SUFFICES ASSUME timers = <<>>, relettered PROVE Lettered' /\ answer \subseteq Positions'
      BY <2>1 DEF LettersSettle
    <3>1. Lettered /\ answer \subseteq Positions  BY DEF OptionsInv, LettersSettle
    <3> QED  BY <2>5, <3>1 DEF Lettered
  <2> QED  BY <2>7, <2>8, <2>9, <2>10 DEF OptionsInv
<1>3. ASSUME NEW i \in Positions, ToggleOption(i) PROVE OptionsInv'
  <2> DEFINE key == options[i].key
             who == options[i].who
  <2>1. UNCHANGED <<kind, options, timers, made, relettered>> /\ calm' = (calm /\ timers = <<>>)
    BY <1>3 DEF ToggleOption, Edits
  <2>2. \/ answer' = {key} /\ correct' = {who}
        \/ answer' = answer \cup {key} /\ correct' = correct \cup {who}
        \/ answer' = answer \ {key} /\ correct' = correct \ {who}
    BY <1>3 DEF ToggleOption
  <2>3. key \in Keys /\ who \in 1..MaxAdded  BY <1>3, <1>p DEF Options
  <2>4. answer' \subseteq Keys /\ correct' \subseteq 1..MaxAdded /\ calm' \in BOOLEAN
    <3>1. answer \subseteq Keys /\ correct \subseteq 1..MaxAdded  BY <1>0 DEF OptionsTypeOK
    <3>2. calm' \in BOOLEAN  BY <2>1
    <3> HIDE DEF key, who
    <3> QED  BY <2>2, <2>3, <3>1, <3>2
  <2>5. OptionsTypeOK'  BY <1>0, <2>1, <2>4 DEF OptionsTypeOK, Keys, Options
  <2>6. OptionsDistinct'  BY <2>1 DEF OptionsInv, OptionsDistinct, Positions
  <2>7. MarksAgree'
    <3> SUFFICES ASSUME calm, timers = <<>>
                 PROVE  Lettered' /\ answer' \subseteq Positions' /\ MarkedOptions' = correct'
      BY <2>1 DEF MarksAgree
    <3>1. Lettered /\ answer \subseteq Positions /\ MarkedOptions = correct
      BY DEF OptionsInv, MarksAgree
    <3>2. Lettered' /\ Positions' = Positions  BY <2>1, <3>1 DEF Lettered, Positions
    <3>3. key = i  BY <3>1, <1>3 DEF Lettered
    <3>4. answer' \subseteq Positions  BY <1>3, <2>2, <3>1, <3>3
    <3>5. ShownIndexes = answer /\ ShownIndexes' = answer'
      BY <2>1, <3>1, <3>2, <3>4 DEF ShownIndexes, Lettered
    <3>6. correct = {options[k].who : k \in answer} /\ MarkedOptions' = {options[k].who : k \in answer'}
      BY <2>1, <3>1, <3>5 DEF MarkedOptions
    <3>7. \A k \in answer : options[k].who = who => k = i
      BY <1>3, <3>1 DEF OptionsInv, OptionsDistinct
    <3>8. {options[k].who : k \in answer'} = correct'
      <4> HIDE DEF key
      <4>1. CASE answer' = {key} /\ correct' = {who}  BY <3>3, <4>1
      <4>2. CASE answer' = answer \cup {key} /\ correct' = correct \cup {who}
        BY <3>3, <3>6, <4>2
      <4>3. CASE answer' = answer \ {key} /\ correct' = correct \ {who}
        BY <3>3, <3>6, <3>7, <4>3
      <4> QED  BY <2>2, <4>1, <4>2, <4>3
    <3> QED  BY <3>2, <3>4, <3>6, <3>8
  <2>8. LettersSettle'
    <3> SUFFICES ASSUME timers = <<>>, relettered PROVE Lettered' /\ answer' \subseteq Positions'
      BY <2>1 DEF LettersSettle
    <3>1. Lettered /\ answer \subseteq Positions  BY DEF OptionsInv, LettersSettle
    <3>2. Lettered' /\ Positions' = Positions  BY <2>1, <3>1 DEF Lettered, Positions
    <3>3. key = i  BY <3>1, <1>3 DEF Lettered
    <3> QED  BY <1>3, <2>2, <3>1, <3>2, <3>3
  <2> QED  BY <2>5, <2>6, <2>7, <2>8 DEF OptionsInv
<1>4. ASSUME Timeout PROVE OptionsInv'
  <2> DEFINE sel == Head(timers)
  <2>1. /\ timers # <<>> /\ timers' = Tail(timers) /\ UNCHANGED <<kind, made, correct, calm>>
        /\ relettered' = TRUE
        /\ options' = [i \in Positions |-> [options[i] EXCEPT !.key = i]]
        /\ answer' = sel \cap Positions
    BY <1>4 DEF Timeout, ByIndexes
  <2>2. timers' \in Seq(SUBSET Keys) /\ Len(timers') = Len(timers) - 1 /\ Len(timers) \in Nat
    BY <1>0, <2>1, HeadTailProperties, LenProperties DEF OptionsTypeOK
  <2>3. \A i \in Positions : /\ [options[i] EXCEPT !.key = i] \in Options
                             /\ [options[i] EXCEPT !.key = i].key = i
                             /\ [options[i] EXCEPT !.key = i].who = options[i].who
    BY <1>p DEF Options
  <2>4. options' \in Seq(Options) /\ Len(options') = Len(options) /\ Positions' = Positions
    BY <1>0, <2>1, <2>3 DEF Positions
  <2>5. \A i \in Positions : options'[i].key = i /\ options'[i].who = options[i].who
    BY <2>1, <2>3
  <2>6. answer' \subseteq Keys  BY <1>p, <2>1
  <2>7. OptionsTypeOK'  BY <1>0, <2>1, <2>2, <2>4, <2>6 DEF OptionsTypeOK, Keys
  <2>8. OptionsDistinct'
    <3>1. made' = made /\ Positions' = Positions  BY <2>1, <2>4
    <3> QED  BY <3>1, <2>5 DEF OptionsInv, OptionsDistinct
  <2>9. MarksAgree'
    <3> SUFFICES ASSUME calm
                 PROVE  timers' = <<>> /\ Lettered' /\ answer' \subseteq Positions' /\ MarkedOptions' = correct
      BY <2>1 DEF MarksAgree
    <3>1. Len(timers) = 1 /\ {options[i].who : i \in timers[1] \cap Positions} = correct
      BY <2>1 DEF OptionsInv, MarksAgree
    <3>2. timers' = <<>>  BY <2>2, <3>1, EmptySeq
    <3>3. sel = timers[1]  BY <1>0, <2>1 DEF OptionsTypeOK
    <3> HIDE DEF sel
    <3>4. Lettered'  BY <2>4, <2>5 DEF Lettered
    <3>5. ShownIndexes' = sel \cap Positions
      <4>1. answer' = sel \cap Positions /\ Positions' = Positions  BY <2>1, <2>4, <3>3
      <4> QED  BY <4>1, <2>5 DEF ShownIndexes
    <3>6. MarkedOptions' = {options[i].who : i \in sel \cap Positions}
      BY <2>5, <3>5 DEF MarkedOptions
    <3> QED  BY <2>1, <2>4, <3>1, <3>2, <3>3, <3>4, <3>6
  <2>10. LettersSettle'
    <3>1. Lettered' /\ answer' \subseteq Positions'  BY <2>1, <2>4, <2>5 DEF Lettered
    <3> QED  BY <3>1 DEF LettersSettle
  <2> QED  BY <2>7, <2>8, <2>9, <2>10 DEF OptionsInv
<1>5. CASE UNCHANGED optionVars
  BY <1>5 DEF optionVars, OptionsInv, OptionsTypeOK, OptionsDistinct, MarksAgree, LettersSettle,
              Positions, Lettered, MarkedOptions, ShownIndexes, Keys, Options
<1> QED  BY <1>1, <1>2, <1>3, <1>4, <1>5, DragKeeps, RemovalKeeps DEF OptionsNext, EditOptions

(* For any number of options: edits of a question and their timers, in     *)
(* whatever order they come, keep every option once and, an edit at a      *)
(* time, the marks agreeing with the letters or with the timer that waits. *)
THEOREM OptionsInvariant == OptionsSpec => []OptionsInv
BY OptionsStart, OptionsStep, PTL DEF OptionsSpec

(* The options marked as correct stay the ones the administrator marked,   *)
(* through every move and removal, when each edit's timer has run before   *)
(* the next (setOptionAnswerByIndexes).                                    *)
THEOREM MarksStay == OptionsSpec => []MarksFollowOptions
<1>1. OptionsInv => MarksFollowOptions  BY DEF OptionsInv, MarksAgree, MarksFollowOptions
<1> QED  BY <1>1, OptionsInvariant, PTL

(* However edits race with timers, once these have fired every letter of   *)
(* the answer is an option's, and the save, which leaves blank options out *)
(* and letters the rest anew, marks the options the page shows as marked:  *)
(* a timer letters the whole list anew and keeps of the answer what exists,*)
(* and an option added later is given the letter of its position.          *)
THEOREM SavedAsShown == OptionsSpec => []SavedIsWhatIsShown
<1>1. OptionsInv => SavedIsWhatIsShown
  <2> SUFFICES ASSUME Lettered, answer \subseteq Positions
               PROVE  /\ answer \subseteq {options[i].key : i \in Positions}
                      /\ Correctly = {options[i].who : i \in ShownIndexes \cap SavedOptions}
    BY DEF OptionsInv, LettersSettle, SavedIsWhatIsShown
  <2>1. answer \subseteq {options[i].key : i \in Positions}  BY DEF Lettered
  <2>2. SavedAnswer = ShownIndexes \cap SavedOptions
    BY DEF SavedAnswer, SavedOptions, ShownIndexes, Lettered
  <2> QED  BY <2>1, <2>2 DEF Correctly
<1> QED  BY <1>1, OptionsInvariant, PTL
=============================================================================
