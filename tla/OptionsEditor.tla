---------------------------- MODULE OptionsEditor ----------------------------
(***************************************************************************)
(* The options of a choice question as the administrator edits them:       *)
(* OptionsEdit and OptionAnswerControl of the question page                *)
(* (apps/admin/src/pages/Content/Library/Questions/Detail.tsx).            *)
(*                                                                         *)
(* An answer names options by their keys, and a key is a letter that says  *)
(* where its option stands.  Moving or removing an option changes the list *)
(* at once, but gives the options their new letters, and the answer its    *)
(* new keys, in a timer: until it fires the administrator may go on        *)
(* editing a list whose letters are those of the old order.                *)
(***************************************************************************)
EXTENDS Naturals, FiniteSets, SequencesExt

CONSTANTS
  MaxOptions, \* options a question may have, eight in the code
  MaxAdded,   \* bound on the options ever made
  MaxPending  \* bound on the timers waiting at a time

VARIABLES
  kind,     \* SINGLE_CHOICE or MULTIPLE_CHOICE
  options,  \* the list: who the option is, its letter, whether it has a text
  answer,   \* letters of the correct options
  timers,   \* answers waiting in setTimeout, as sets of positions, in order
  made,     \* options made so far; they are 1..made
  correct,  \* history: the options the administrator last marked as correct
  calm,     \* history: the letters were those of the positions to begin with,
            \* and no edit was made while a timer was waiting
  relettered \* history: they were to begin with, or a timer has fired

optionVars == <<kind, options, answer, timers, made, correct, calm, relettered>>

ASSUME OptionsAssumption ==
  MaxOptions \in Nat /\ MaxAdded \in Nat /\ MaxOptions >= 2 /\ MaxAdded >= 2
  /\ MaxPending \in Nat \ {0}

Keys      == 1..MaxOptions
Positions == 1..Len(options)
Options   == [who : 1..MaxAdded, key : Keys, blank : BOOLEAN]

OptionsTypeOK ==
  /\ kind \in {"SINGLE_CHOICE", "MULTIPLE_CHOICE"}
  /\ options \in Seq(Options) /\ Len(options) <= MaxOptions
  /\ answer \subseteq Keys
  /\ timers \in Seq(SUBSET Keys)
  /\ made \in 0..MaxAdded
  /\ correct \subseteq 1..MaxAdded
  /\ calm \in BOOLEAN /\ relettered \in BOOLEAN

(* What the page shows as marked: every option with a letter of the answer.*)
ShownIndexes  == {i \in Positions : options[i].key \in answer}
MarkedOptions == {options[i].who : i \in ShownIndexes}

(* What an edit takes for marked (getSelectedOptionIndexes): of each letter*)
(* of the answer the first option, for two can have one letter meanwhile.  *)
SelectedIndexes ==
  {i \in ShownIndexes : \A k \in 1..(i - 1) : options[k].key # options[i].key}

(* The letters are those of the positions.                                 *)
Lettered == \A i \in Positions : options[i].key = i

(* A new question has two empty options.  A stored one has the letters it  *)
(* was given when it was last saved: in order, but without the letter of   *)
(* an option that had no text then.                                        *)
OptionsInit ==
  /\ kind \in {"SINGLE_CHOICE", "MULTIPLE_CHOICE"}
  /\ \/ /\ options = [i \in 1..2 |-> [who |-> i, key |-> i, blank |-> TRUE]]
        /\ answer = {}
     \/ \E n \in 2..MaxOptions : \E letters \in [1..n -> Keys] :
          /\ n <= MaxAdded
          /\ \A i, k \in 1..n : i < k => letters[i] < letters[k]
          /\ options = [i \in 1..n |-> [who |-> i, key |-> letters[i], blank |-> FALSE]]
          /\ answer \in SUBSET Range(letters) \ {{}}
          /\ kind = "SINGLE_CHOICE" => Cardinality(answer) = 1
  /\ timers  = <<>>
  /\ made    = Len(options)
  /\ correct = MarkedOptions
  /\ calm    = Lettered
  /\ relettered = Lettered

-----------------------------------------------------------------------------
Moved(s, from, to) == InsertAt(RemoveAt(s, from), to, s[from])

MovedIndexes_Open(selected, from, to) ==
  {IF i = from THEN to
   ELSE IF from < i /\ i < to THEN i - 1
   ELSE IF to <= i /\ i < from THEN i + 1 ELSE i : i \in selected}

(* moveSelectedIndexes                                                     *)
MovedIndexes(selected, from, to) ==
  {IF i = from THEN to
   ELSE IF from < i /\ i <= to THEN i - 1
   ELSE IF to <= i /\ i < from THEN i + 1 ELSE i : i \in selected}

(* deleteSelectedIndexes                                                   *)
DeletedIndexes(selected, deleted) ==
  {IF i > deleted THEN i - 1 ELSE i : i \in selected \ {deleted}}

Edits  == calm' = (calm /\ timers = <<>>) /\ UNCHANGED relettered
Later(selected) == Len(timers) < MaxPending /\ timers' = Append(timers, selected)

(* handleDragEnd: only a drop on another option changes anything.          *)
DragOption(from, to) ==
  /\ from # to
  /\ options' = Moved(options, from, to)
  /\ Later(MovedIndexes(SelectedIndexes, from, to))
  /\ Edits
  /\ UNCHANGED <<kind, answer, made, correct>>

(* handleRemove                                                            *)
RemoveOption(i) ==
  /\ options' = RemoveAt(options, i)
  /\ Later(DeletedIndexes(SelectedIndexes, i))
  /\ correct' = correct \ {options[i].who}
  /\ Edits
  /\ UNCHANGED <<kind, answer, made>>

AddOption_Unused ==
  /\ Len(options) < MaxOptions /\ made < MaxAdded
  /\ made' = made + 1
  /\ options' = Append(options, [who |-> made + 1, key |-> made + 1, blank |-> TRUE])
  /\ Edits
  /\ UNCHANGED <<kind, answer, timers, correct>>

(* The letter of a new option is that of its position.                     *)
AddOption ==
  /\ Len(options) < MaxOptions /\ made < MaxAdded
  /\ made' = made + 1
  /\ options' = Append(options, [who |-> made + 1, key |-> Len(options) + 1, blank |-> TRUE])
  /\ Edits
  /\ UNCHANGED <<kind, answer, timers, correct>>

TypeText(i) ==
  /\ options' = [options EXCEPT ![i].blank = ~@]
  /\ Edits
  /\ UNCHANGED <<kind, answer, timers, made, correct>>

(* The radio button of a single choice, the check box of a multiple one.   *)
ToggleOption(i) ==
  LET key == options[i].key
      who == options[i].who IN
  /\ \/ /\ kind = "SINGLE_CHOICE"
        /\ answer' = {key} /\ correct' = {who}
     \/ /\ kind = "MULTIPLE_CHOICE" /\ key \notin answer
        /\ answer' = answer \cup {key} /\ correct' = correct \cup {who}
     \/ /\ kind = "MULTIPLE_CHOICE" /\ key \in answer
        /\ answer' = answer \ {key} /\ correct' = correct \ {who}
  /\ Edits
  /\ UNCHANGED <<kind, options, timers, made>>

(* setOptionAnswerByIndexes: letters follow positions, the answer follows  *)
(* the positions that still exist.                                         *)
ByIndexes(selected) ==
  [keyed  |-> [i \in Positions |-> [options[i] EXCEPT !.key = i]],
   chosen |-> selected \cap Positions]

Timeout ==
  /\ timers # <<>>
  /\ options' = ByIndexes(Head(timers)).keyed
  /\ answer'  = ByIndexes(Head(timers)).chosen
  /\ timers'  = Tail(timers)
  /\ relettered' = TRUE
  /\ UNCHANGED <<kind, made, correct, calm>>

EditOptions ==
  \/ \E from, to \in Positions : DragOption(from, to)
  \/ \E i \in Positions : RemoveOption(i) \/ TypeText(i) \/ ToggleOption(i)
  \/ AddOption

OptionsNext == EditOptions \/ Timeout

OptionsSpec == OptionsInit /\ [][OptionsNext]_optionVars

-----------------------------------------------------------------------------
(* What a save sends (normalizeOptions, normalizeQuestionPayload).         *)

SavedOptions == {i \in Positions : ~options[i].blank}

SavedAnswer == answer \cap SavedOptions

Correctly == {options[i].who : i \in SavedAnswer}

-----------------------------------------------------------------------------
(* Properties.                                                             *)

(* An edit at a time, the marks stay with the options they were given to,  *)
(* however these are moved, removed or added to.                           *)
MarksFollowOptions == calm /\ timers = <<>> => MarkedOptions = correct

(* However edits raced with the timers of earlier ones: once the timers    *)
(* have fired, every letter of the answer is one of an option, and what is *)
(* saved as correct is what the page shows as marked, of the options that  *)
(* have a text.  For a stored question with letters left out it takes a    *)
(* first move or removal.                                                  *)
SavedIsWhatIsShown ==
  (timers = <<>> /\ relettered) =>
    /\ answer \subseteq {options[i].key : i \in Positions}
    /\ Correctly = {options[i].who : i \in ShownIndexes \cap SavedOptions}
=============================================================================
