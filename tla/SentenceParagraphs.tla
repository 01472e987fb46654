------------------------ MODULE SentenceParagraphs ------------------------
(***************************************************************************)
(* strict_sentence_paragraphs in whisper_transcribe.py: a generator that   *)
(* turns whisper's bars, which begin and end anywhere, into paragraphs of  *)
(* one sentence each.                                                      *)
(*                                                                         *)
(* Atoms are known by their place in the input.  Of their text it matters  *)
(* only whether ICU sees a sentence end right after them, and whether      *)
(* DONT_SPLIT_HERE_RES protects that place ("e.g.", "20.").  ICU's last    *)
(* break, the end of all text it was given, is dropped by the code: a      *)
(* sentence end at the end of a bar is seen with the next bar.             *)
(***************************************************************************)
EXTENDS Naturals, Sequences, Functions

CONSTANTS
  Languages,
  Limit,     \* 161: with more atoms than that the sentence seems endless
  MaxBar,    \* bound: atoms of a bar
  MaxAtoms   \* bound: atoms of the input

ASSUME LimitsAssumption ==
  Limit \in Nat /\ MaxBar \in Nat \ {0} /\ MaxAtoms \in Nat

VARIABLES
  input,    \* the atoms of all bars taken so far
  pending,  \* the atoms of the current bar that are still to be visited
  acc,      \* acc_paragraph; None and an empty one are not told apart
  used,     \* acc_used_paras
  kept,     \* paragraph.children[acc_yield_offset:], as far as visited
  out,      \* the paragraphs yielded; raw ones are bars of whisper
  done      \* the input has ended

sentenceVars == <<input, pending, acc, used, kept, out, done>>

-----------------------------------------------------------------------------
Ends == {"none", "end", "protected"}

\* special: the text of its bar matches DONT_COMBINE_RES.  closes: it is the last
\* atom of its bar.
Atom == [lang : Languages, ends : Ends, special : BOOLEAN, closes : BOOLEAN]

Paragraph == [lang : Languages, atoms : Seq(Nat)]

Output == [lang : Languages, atoms : Seq(Nat), raw : BOOLEAN]

SentenceTypeOK ==
  /\ input \in Seq(Atom)
  /\ pending \in Seq(1 .. Len(input))
  /\ acc.atoms = <<>> \/ acc \in Paragraph
  /\ used \in Seq(Seq(1 .. Len(input)))
  /\ kept \in Seq(1 .. Len(input))
  /\ out \in Seq(Output)
  /\ done \in BOOLEAN

SentenceInit ==
  /\ input = <<>>
  /\ pending = <<>>
  /\ acc = [lang |-> "none", atoms |-> <<>>]
  /\ used = <<>>
  /\ kept = <<>>
  /\ out = <<>>
  /\ done = FALSE

-----------------------------------------------------------------------------
Yield(lang, atoms) == [lang |-> lang, atoms |-> atoms, raw |-> FALSE]

Mutant_YieldsNothing == <<Yield(acc.lang, acc.atoms)>>

\* What is being collected, if anything.
Collected ==
  IF acc.atoms = <<>> THEN <<>> ELSE <<Yield(acc.lang, acc.atoms)>>

Mutant_CountsBars == Len(used) > Limit

Overlong == Len(acc.atoms) > Limit

\* The bars emitted instead of an endless sentence.
RawBars ==
  [i \in 1 .. Len(used) |-> [lang |-> acc.lang, atoms |-> used[i], raw |-> TRUE]]

\* What was collected ends before the next bar: the language changes or ICU sees a
\* sentence end between them, be it protected or not.
EndsBefore(lang) ==
  \/ acc.lang # lang
  \/ input[acc.atoms[Len(acc.atoms)]].ends # "none"

Mutant_ForgetsBars(lang, ends) ==
  LET n == Len(ends)
      first == Len(input) + 1
      fresh == Overlong \/ acc.atoms = <<>> \/ EndsBefore(lang)
  IN
  /\ pending = <<>>
  /\ ~done
  /\ Len(input) + n <= MaxAtoms
  /\ input' = input \o [i \in 1 .. n |->
       [lang |-> lang, ends |-> ends[i], special |-> FALSE, closes |-> i = n]]
  /\ pending' = [i \in 1 .. n |-> first + i - 1]
  /\ out' = out \o (IF Overlong THEN RawBars ELSE IF fresh THEN Collected ELSE <<>>)
  /\ acc' = [lang |-> lang, atoms |-> IF fresh THEN <<>> ELSE acc.atoms]
  /\ used' = <<>>
  /\ kept' = <<>>
  /\ UNCHANGED done

\* The loop takes the next bar, with a break after each atom as ends says.
StartBar(lang, ends) ==
  LET n == Len(ends)
      first == Len(input) + 1
      fresh == Overlong \/ acc.atoms = <<>> \/ EndsBefore(lang)
  IN
  /\ pending = <<>>
  /\ ~done
  /\ Len(input) + n <= MaxAtoms
  /\ input' = input \o [i \in 1 .. n |->
       [lang |-> lang, ends |-> ends[i], special |-> FALSE, closes |-> i = n]]
  /\ pending' = [i \in 1 .. n |-> first + i - 1]
  /\ out' = out \o (IF Overlong THEN RawBars ELSE IF fresh THEN Collected ELSE <<>>)
  /\ acc' = [lang |-> lang, atoms |-> IF fresh THEN <<>> ELSE acc.atoms]
  /\ used' = IF fresh THEN <<>> ELSE used
  /\ kept' = <<>>
  /\ UNCHANGED done

\* The next bar is one like "[MUSIC]": it is passed on as it is.
SpecialBar(lang) ==
  LET a == Len(input) + 1 IN
  /\ pending = <<>>
  /\ ~done
  /\ a <= MaxAtoms
  /\ input' = Append(input,
       [lang |-> lang, ends |-> "none", special |-> TRUE, closes |-> TRUE])
  /\ out' = Append(out \o (IF Overlong THEN RawBars ELSE Collected), Yield(lang, <<a>>))
  /\ acc' = [acc EXCEPT !.atoms = <<>>]
  /\ UNCHANGED <<pending, used, kept, done>>

Mutant_SplitsAnywhere(a) == input[a].ends # "none" /\ ~input[a].closes

\* The sentence ends with atom a, inside of a bar.
Splits(a) == input[a].ends = "end" /\ ~input[a].closes

Mutant_KeepsCollecting ==
  LET a == Head(pending)
      collected == Append(acc.atoms, a)
      rest == IF Splits(a) THEN <<a>> ELSE Append(kept, a)
  IN
  /\ pending # <<>>
  /\ pending' = Tail(pending)
  /\ out' = IF Splits(a) THEN Append(out, Yield(acc.lang, collected)) ELSE out
  /\ acc' = [acc EXCEPT !.atoms = IF Splits(a) THEN rest ELSE collected]
  /\ kept' = rest
  /\ used' = IF input[a].closes THEN Append(used, rest) ELSE used
  /\ UNCHANGED <<input, done>>

\* The inner loop visits an atom; after the last one the bar, from the last atom
\* that ended a sentence on, is noted in acc_used_paras.
VisitAtom ==
  LET a == Head(pending)
      collected == Append(acc.atoms, a)
      rest == IF Splits(a) THEN <<a>> ELSE Append(kept, a)
  IN
  /\ pending # <<>>
  /\ pending' = Tail(pending)
  /\ out' = IF Splits(a) THEN Append(out, Yield(acc.lang, collected)) ELSE out
  /\ acc' = [acc EXCEPT !.atoms = IF Splits(a) THEN <<>> ELSE collected]
  /\ kept' = rest
  /\ used' = IF input[a].closes THEN Append(used, rest) ELSE used
  /\ UNCHANGED <<input, done>>

\* There is no bar left.
EndOfInput ==
  /\ pending = <<>>
  /\ ~done
  /\ out' = out \o Collected
  /\ acc' = [acc EXCEPT !.atoms = <<>>]
  /\ done' = TRUE
  /\ UNCHANGED <<input, pending, used, kept>>

SentenceNext ==
  \/ \E lang \in Languages :
       \/ SpecialBar(lang)
       \/ \E n \in 1 .. MaxBar : \E ends \in [1 .. n -> Ends] : StartBar(lang, ends)
  \/ VisitAtom
  \/ EndOfInput

SentenceSpec == SentenceInit /\ [][SentenceNext]_sentenceVars

(***************************************************************************)
(* Safety                                                                  *)
(***************************************************************************)

Regular == {i \in DOMAIN out : ~out[i].raw}

\* Every atom taken from whisper comes out, or is about to: also when an endless
\* sentence is thrown away in favour of the bars it was made of.
NothingLost ==
  \A a \in 1 .. Len(input) :
    \/ \E i \in DOMAIN out : a \in Range(out[i].atoms)
    \/ a \in Range(acc.atoms)
    \/ a \in Range(pending)

\* What comes out as a sentence comes out once and in order.
SentencesInOrder ==
  \A i, j \in Regular :
    \A m \in DOMAIN out[i].atoms : \A n \in DOMAIN out[j].atoms :
      i < j \/ (i = j /\ m < n) => out[i].atoms[m] < out[j].atoms[n]

\* A paragraph is of one language, has no sentence end inside that the
\* expressions do not protect, and a bar like "[MUSIC]" is a paragraph of its own.
OneSentenceEach ==
  \A i \in Regular : \A m \in DOMAIN out[i].atoms :
    LET a == input[out[i].atoms[m]] IN
    /\ a.lang = out[i].lang
    /\ m < Len(out[i].atoms) => a.ends # "end"
    /\ a.special => Len(out[i].atoms) = 1

\* A paragraph ends with a sentence, before another language, before or after a
\* special bar, or with the input.  The expressions that should "prevent the sentence
\* splitting logic from breaking here" (lines 17-23) do so inside of a bar only: at
\* the end of a bar line 128 does not ask them, and "the 20." and "century" in the
\* next bar become two paragraphs.  The second disjunct is that case.
BreaksHaveReason ==
  \A i \in Regular :
    LET a == out[i].atoms[Len(out[i].atoms)] IN
    \/ input[a].ends = "end"
    \/ input[a].ends = "protected" /\ input[a].closes
    \/ input[a].special
    \/ a = Len(input) /\ done
    \/ /\ a < Len(input)
       /\ input[a + 1].lang # input[a].lang \/ input[a + 1].special

\* The text is split between sentences, at languages and special bars, and besides
\* only at a protected place with which a bar ends, where the code departs from its
\* own comment.
SplitsAreRight == OneSentenceEach /\ BreaksHaveReason

\* No paragraph exceeds the limit by more than a bar.
ParagraphsAreBounded ==
  \A i \in DOMAIN out : Len(out[i].atoms) <= Limit + MaxBar

=============================================================================
