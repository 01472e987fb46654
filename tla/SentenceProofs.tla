-------------------------- MODULE SentenceProofs --------------------------
(***************************************************************************)
(* Machine-checked proofs about SentenceParagraphs, for every limit and    *)
(* bars and inputs of any length.                                          *)
(***************************************************************************)
EXTENDS SentenceParagraphs, SequenceFacts

-----------------------------------------------------------------------------
(* Sequences                                                               *)

\* What [i \in 1 .. n |-> ...] and a list of breaks are.
LEMMA FunctionIsSequence ==
  ASSUME NEW S, NEW n \in Nat, NEW f \in [1 .. n -> S]
  PROVE  f \in Seq(S) /\ Len(f) = n
  OBVIOUS

\* Places of a shorter input are places of a longer one.
LEMMA Widening ==
  ASSUME NEW S, NEW T, S \subseteq T
  PROVE  Seq(S) \subseteq Seq(T)
  <1> SUFFICES ASSUME NEW s \in Seq(S) PROVE s \in Seq(T)
    OBVIOUS
  <1>1. Len(s) \in Nat /\ s \in [1 .. Len(s) -> S]
    BY LenProperties
  <1>2. s \in [1 .. Len(s) -> T]
    BY <1>1
  <1> QED BY <1>1, <1>2, FunctionIsSequence

-----------------------------------------------------------------------------
(* The inductive invariant                                                 *)

Places == 1 .. Len(input)

\* The atoms that have been visited.
Taken == Len(input) - Len(pending)

\* SentenceTypeOK, and a language wherever one is needed for what comes out.
SentenceTypes ==
  /\ input \in Seq(Atom)
  /\ pending \in Seq(Places)
  /\ acc \in [lang : Languages \cup {"none"}, atoms : Seq(Places)]
  /\ acc.atoms # <<>> \/ pending # <<>> => acc.lang \in Languages
  /\ used \in Seq(Seq(Places))
  /\ kept \in Seq(Places)
  /\ out \in Seq(Output)
  /\ done \in BOOLEAN

\* The atoms still to be visited are the last of the input, up to the end of a bar.
PendingIsRest ==
  /\ Len(pending) <= Len(input)
  /\ \A i \in 1 .. Len(pending) :
       /\ pending[i] = Taken + i
       /\ input[pending[i]].closes <=> i = Len(pending)

AtomsOf(s) == UNION {Range(s[i]) : i \in DOMAIN s}

\* The bars noted, with what of the current bar will be noted, hold what was
\* collected: that is why they can stand in for it.
BarsCoverAcc ==
  Range(acc.atoms) \subseteq
    AtomsOf(used) \cup (IF pending # <<>> THEN Range(kept) ELSE {})

\* How long the lists get.
ListsAreBounded ==
  /\ Len(acc.atoms) + Len(pending) <= Limit + MaxBar
  /\ Len(kept) + Len(pending) <= MaxBar
  /\ \A i \in 1 .. Len(used) : Len(used[i]) <= MaxBar

SentenceInv ==
  /\ SentenceTypes
  /\ PendingIsRest
  /\ BarsCoverAcc
  /\ NothingLost
  /\ ListsAreBounded
  /\ ParagraphsAreBounded

-----------------------------------------------------------------------------
(* What the steps do                                                       *)

\* What was collected, and the bars in its stead, can be yielded.
LEMMA Emissions ==
  ASSUME SentenceTypes
  PROVE  /\ Collected \in Seq(Output)
         /\ acc.atoms # <<>> => RawBars \in Seq(Output)
         /\ Len(RawBars) = Len(used)
         /\ \A i \in 1 .. Len(used) : RawBars[i].atoms = used[i] /\ RawBars[i].raw
  <1>1. Places \subseteq Nat
    BY LenProperties DEF SentenceTypes, Places
  <1>2. Seq(Places) \subseteq Seq(Nat)
    BY <1>1, Widening
  <1>3. Collected \in Seq(Output)
    <2>1. CASE acc.atoms = <<>>
      BY <2>1 DEF Collected
    <2>2. CASE acc.atoms # <<>>
      <3>1. Yield(acc.lang, acc.atoms) \in Output
        BY <1>2, <2>2 DEF SentenceTypes, Yield, Output
      <3> QED BY <2>2, <3>1 DEF Collected
    <2> QED BY <2>1, <2>2
  <1>4. Len(used) \in Nat
    BY LenProperties DEF SentenceTypes
  <1>5. \A i \in 1 .. Len(used) : used[i] \in Seq(Nat)
    BY <1>2, ElementOfSeq DEF SentenceTypes
  <1>6. ASSUME acc.atoms # <<>> PROVE RawBars \in Seq(Output)
    <2>1. acc.lang \in Languages
      BY <1>6 DEF SentenceTypes
    <2>2. RawBars \in [1 .. Len(used) -> Output]
      BY <1>5, <2>1 DEF RawBars, Output
    <2> QED BY <1>4, <2>2, FunctionIsSequence
  <1>7. Len(RawBars) = Len(used)
    BY <1>4 DEF RawBars
  <1>8. \A i \in 1 .. Len(used) : RawBars[i].atoms = used[i] /\ RawBars[i].raw
    BY DEF RawBars
  <1> QED BY <1>3, <1>6, <1>7, <1>8

\* Taking a bar: what the input and the rest to be visited are then, and which of
\* the three ways what was collected goes.
LEMMA BarTaken ==
  ASSUME SentenceTypes,
         NEW lang \in Languages, NEW n \in 1 .. MaxBar, NEW ends \in [1 .. n -> Ends],
         StartBar(lang, ends)
  PROVE  /\ pending = <<>> /\ kept' = <<>> /\ UNCHANGED done
         /\ n \in Nat \ {0} /\ n <= MaxBar
         /\ input' \in Seq(Atom) /\ Len(input') = Len(input) + n
         /\ \A i \in 1 .. Len(input) : input'[i] = input[i]
         /\ \A i \in 1 .. n :
              /\ input'[Len(input) + i].closes <=> i = n
              /\ input'[Len(input) + i].lang = lang
              /\ ~input'[Len(input) + i].special
         /\ pending' \in Seq(1 .. Len(input) + n) /\ Len(pending') = n
         /\ \A i \in 1 .. n : pending'[i] = Len(input) + i
         /\ acc' = [lang |-> lang, atoms |-> acc'.atoms]
         /\ \/ /\ Overlong /\ out' = out \o RawBars
               /\ acc'.atoms = <<>> /\ used' = <<>>
            \/ /\ ~Overlong /\ out' = out \o Collected
               /\ acc'.atoms = <<>> /\ used' = <<>>
            \/ /\ ~Overlong /\ acc.atoms # <<>> /\ ~EndsBefore(lang)
               /\ out' = out
               /\ acc'.atoms = acc.atoms /\ used' = used
  <1> DEFINE added == [i \in 1 .. n |->
        [lang |-> lang, ends |-> ends[i], special |-> FALSE, closes |-> i = n]]
  <1>1. n \in Nat \ {0} /\ n <= MaxBar
    BY LimitsAssumption
  <1>2. Len(ends) = n
    BY <1>1, FunctionIsSequence
  <1>3. Len(input) \in Nat
    BY LenProperties DEF SentenceTypes
  <1>4. added \in [1 .. n -> Atom]
    BY DEF Atom
  <1>5. added \in Seq(Atom) /\ Len(added) = n
    BY <1>1, <1>4, FunctionIsSequence
  <1>6. input' = input \o added
    BY <1>2 DEF StartBar
  <1> HIDE DEF added
  <1>7. /\ input' \in Seq(Atom) /\ Len(input') = Len(input) + n
        /\ \A i \in 1 .. Len(input) + n : input'[i] =
             IF i <= Len(input) THEN input[i] ELSE added[i - Len(input)]
    <2>1. input \in Seq(Atom)
      BY DEF SentenceTypes
    <2>2. /\ input \o added \in Seq(Atom)
          /\ Len(input \o added) = Len(input) + Len(added)
          /\ \A i \in 1 .. Len(input) + Len(added) : (input \o added)[i] =
               IF i <= Len(input) THEN input[i] ELSE added[i - Len(input)]
      BY <1>5, <2>1, ConcatProperties
    <2> QED BY <1>5, <1>6, <2>2
  <1>8. \A i \in 1 .. Len(input) : input'[i] = input[i]
    BY <1>1, <1>3, <1>7
  <1>9. ASSUME NEW i \in 1 .. n
        PROVE  /\ input'[Len(input) + i].closes <=> i = n
               /\ input'[Len(input) + i].lang = lang
               /\ ~input'[Len(input) + i].special
    <2>1. /\ Len(input) + i \in 1 .. Len(input) + n
          /\ ~(Len(input) + i <= Len(input))
          /\ Len(input) + i - Len(input) = i
      BY <1>1, <1>3
    <2>2. input'[Len(input) + i] = added[i]
      BY <1>7, <2>1
    <2>3. /\ added[i].closes <=> i = n
          /\ added[i].lang = lang
          /\ ~added[i].special
      BY DEF added
    <2> QED BY <2>2, <2>3
  <1>10. /\ pending' = [i \in 1 .. n |-> Len(input) + 1 + i - 1]
         /\ pending = <<>> /\ kept' = <<>> /\ UNCHANGED done
    BY <1>2 DEF StartBar
  <1>11. \A i \in 1 .. n : pending'[i] = Len(input) + i
    BY <1>3, <1>10
  <1>12. pending' \in [1 .. n -> 1 .. Len(input) + n]
    BY <1>1, <1>3, <1>10
  <1>13. pending' \in Seq(1 .. Len(input) + n) /\ Len(pending') = n
    BY <1>1, <1>12, FunctionIsSequence
  <1>14. acc' = [lang |-> lang, atoms |-> acc'.atoms]
    BY DEF StartBar
  <1>15. \/ /\ Overlong /\ out' = out \o RawBars
            /\ acc'.atoms = <<>> /\ used' = <<>>
         \/ /\ ~Overlong /\ out' = out \o Collected
            /\ acc'.atoms = <<>> /\ used' = <<>>
         \/ /\ ~Overlong /\ acc.atoms # <<>> /\ ~EndsBefore(lang)
            /\ out' = out
            /\ acc'.atoms = acc.atoms /\ used' = used
    <2>1. out \o <<>> = out
      BY ConcatEmptySeq DEF SentenceTypes
    <2>2. CASE Overlong
      BY <2>2 DEF StartBar
    <2>3. CASE ~Overlong /\ (acc.atoms = <<>> \/ EndsBefore(lang))
      BY <2>3 DEF StartBar
    <2>4. CASE ~Overlong /\ acc.atoms # <<>> /\ ~EndsBefore(lang)
      BY <2>1, <2>4 DEF StartBar
    <2> QED BY <2>2, <2>3, <2>4
  <1> QED BY <1>1, <1>7, <1>8, <1>9, <1>10, <1>11, <1>13, <1>14, <1>15

\* A special bar: what was collected comes out before it.
LEMMA SpecialTaken ==
  ASSUME SentenceTypes, NEW lang \in Languages, SpecialBar(lang)
  PROVE  /\ pending = <<>> /\ UNCHANGED <<pending, used, kept, done>>
         /\ input' \in Seq(Atom) /\ Len(input') = Len(input) + 1
         /\ \A i \in 1 .. Len(input) : input'[i] = input[i]
         /\ /\ input'[Len(input) + 1].lang = lang
            /\ input'[Len(input) + 1].special
            /\ input'[Len(input) + 1].closes
         /\ acc' = [acc EXCEPT !.atoms = <<>>]
         /\ Yield(lang, <<Len(input) + 1>>) \in Output
         /\ \E before \in Seq(Output) :
              /\ \/ Overlong /\ before = RawBars
                 \/ ~Overlong /\ before = Collected
              /\ out' = Append(out \o before, Yield(lang, <<Len(input) + 1>>))
  <1> DEFINE special ==
        [lang |-> lang, ends |-> "none", special |-> TRUE, closes |-> TRUE]
  <1>1. Len(input) \in Nat
    BY LenProperties DEF SentenceTypes
  <1>2. special \in Atom /\ special.lang = lang /\ special.special /\ special.closes
    BY DEF Atom, Ends
  <1>3. /\ input' = Append(input, special)
        /\ pending = <<>> /\ UNCHANGED <<pending, used, kept, done>>
        /\ acc' = [acc EXCEPT !.atoms = <<>>]
    BY DEF SpecialBar
  <1> HIDE DEF special
  <1>4. /\ input' \in Seq(Atom) /\ Len(input') = Len(input) + 1
        /\ \A i \in 1 .. Len(input) : input'[i] = input[i]
        /\ input'[Len(input) + 1] = special
    BY <1>2, <1>3, AppendProperties DEF SentenceTypes
  <1>5. Yield(lang, <<Len(input) + 1>>) \in Output
    BY <1>1 DEF Yield, Output
  <1>6. CASE Overlong
    <2>1. acc.atoms # <<>>
      BY <1>6, LimitsAssumption, EmptySeq DEF Overlong, SentenceTypes
    <2>2. RawBars \in Seq(Output)
      BY <2>1, Emissions
    <2>3. out' = Append(out \o RawBars, Yield(lang, <<Len(input) + 1>>))
      BY <1>6 DEF SpecialBar
    <2> QED BY <1>2, <1>3, <1>4, <1>5, <1>6, <2>2, <2>3
  <1>7. CASE ~Overlong
    <2>1. Collected \in Seq(Output)
      BY Emissions
    <2>2. out' = Append(out \o Collected, Yield(lang, <<Len(input) + 1>>))
      BY <1>7 DEF SpecialBar
    <2> QED BY <1>2, <1>3, <1>4, <1>5, <1>7, <2>1, <2>2
  <1> QED BY <1>6, <1>7

\* Visiting an atom: it ends a sentence inside of its bar, or it is collected.
LEMMA AtomVisited ==
  ASSUME SentenceTypes, PendingIsRest, VisitAtom
  PROVE  LET a == Head(pending) IN
         /\ pending # <<>> /\ pending \in Seq(Places) /\ pending' = Tail(pending)
         /\ a \in Places /\ a = Taken + 1
         /\ pending' = <<>> <=> Len(pending) = 1
         /\ UNCHANGED <<input, done>>
         /\ acc.lang \in Languages /\ acc' = [acc EXCEPT !.atoms = acc'.atoms]
         /\ \/ /\ Splits(a) /\ Len(pending) # 1
               /\ out' = Append(out, Yield(acc.lang, Append(acc.atoms, a)))
               /\ acc'.atoms = <<>> /\ kept' = <<a>> /\ used' = used
            \/ /\ ~Splits(a)
               /\ out' = out
               /\ acc'.atoms = Append(acc.atoms, a) /\ kept' = Append(kept, a)
               /\ \/ Len(pending) = 1 /\ used' = Append(used, kept')
                  \/ Len(pending) # 1 /\ used' = used
  <1> DEFINE a == Head(pending)
  <1>1. /\ pending # <<>> /\ pending' = Tail(pending)
        /\ UNCHANGED <<input, done>>
    BY DEF VisitAtom
  <1>2. pending \in Seq(Places) /\ Len(input) \in Nat
    BY LenProperties DEF SentenceTypes
  <1>3. Len(pending) \in Nat \ {0} /\ Head(pending) = pending[1]
    BY <1>1, <1>2, EmptySeq, LenProperties
  <1>4. a \in Places /\ Tail(pending) \in Seq(Places) /\ Len(Tail(pending)) = Len(pending) - 1
    BY <1>1, <1>2, HeadTailProperties
  <1>5. a = Taken + 1 /\ (input[a].closes <=> Len(pending) = 1)
    <2>1. 1 \in 1 .. Len(pending)
      BY <1>3
    <2>2. pending[1] = Taken + 1 /\ (input[pending[1]].closes <=> 1 = Len(pending))
      BY <2>1 DEF PendingIsRest
    <2> QED BY <1>3, <2>2
  <1>6. pending' = <<>> <=> Len(pending) = 1
    <2>1. pending' = <<>> <=> Len(pending') = 0
      BY <1>1, <1>4, EmptySeq
    <2> QED BY <1>1, <1>3, <1>4, <2>1
  <1>7. acc.lang \in Languages
    BY <1>1 DEF SentenceTypes
  <1>8. acc \in [lang : Languages \cup {"none"}, atoms : Seq(Places)]
    BY DEF SentenceTypes
  <1>9. acc' = [acc EXCEPT !.atoms = acc'.atoms]
    BY <1>8 DEF VisitAtom
  <1>10. CASE Splits(a)
    <2>1. Len(pending) # 1
      BY <1>5, <1>10 DEF Splits
    <2>2. /\ out' = Append(out, Yield(acc.lang, Append(acc.atoms, a)))
          /\ acc'.atoms = <<>> /\ kept' = <<a>> /\ used' = used
      BY <1>5, <1>8, <1>10, <2>1 DEF VisitAtom
    <2> QED BY <1>1, <1>2, <1>4, <1>5, <1>6, <1>7, <1>9, <1>10, <2>1, <2>2
  <1>11. CASE ~Splits(a)
    <2>1. /\ out' = out
          /\ acc'.atoms = Append(acc.atoms, a) /\ kept' = Append(kept, a)
          /\ used' = IF Len(pending) = 1 THEN Append(used, kept') ELSE used
      BY <1>5, <1>8, <1>11 DEF VisitAtom
    <2> QED BY <1>1, <1>2, <1>4, <1>5, <1>6, <1>7, <1>9, <1>11, <2>1
  <1> QED BY <1>10, <1>11

-----------------------------------------------------------------------------
(* Types                                                                   *)

LEMMA InitTypes == SentenceInit => SentenceTypes /\ PendingIsRest
  <1> SUFFICES ASSUME SentenceInit PROVE SentenceTypes /\ PendingIsRest
    OBVIOUS
  <1>1. SentenceTypes
    BY EmptySeq DEF SentenceInit, SentenceTypes
  <1>2. PendingIsRest
    BY DEF SentenceInit, PendingIsRest
  <1> QED BY <1>1, <1>2

LEMMA NextTypes ==
  ASSUME SentenceTypes, PendingIsRest, SentenceNext
  PROVE  SentenceTypes'
  <1>1. ASSUME NEW lang \in Languages, NEW n \in 1 .. MaxBar,
               NEW ends \in [1 .. n -> Ends], StartBar(lang, ends)
        PROVE  SentenceTypes'
    <2>1. Len(input) \in Nat /\ n \in Nat /\ Len(input') = Len(input) + n
      BY <1>1, BarTaken, LenProperties DEF SentenceTypes
    <2>2. Places \subseteq Places' /\ Places' = 1 .. Len(input) + n
      BY <2>1 DEF Places
    <2>3. Seq(Places) \subseteq Seq(Places')
      BY <2>2, Widening
    <2>4. Seq(Seq(Places)) \subseteq Seq(Seq(Places'))
      BY <2>3, Widening
    <2>5. <<>> \in Seq(Places') /\ <<>> \in Seq(Seq(Places'))
      BY EmptySeq
    <2>6. input' \in Seq(Atom) /\ pending' \in Seq(Places') /\ kept' \in Seq(Places')
      BY <1>1, <2>2, <2>5, BarTaken
    <2>7. acc'.atoms \in Seq(Places') /\ used' \in Seq(Seq(Places'))
      <3>1. acc.atoms \in Seq(Places') /\ used \in Seq(Seq(Places'))
        BY <2>3, <2>4 DEF SentenceTypes
      <3>2. \/ acc'.atoms = <<>> /\ used' = <<>>
            \/ acc'.atoms = acc.atoms /\ used' = used
        BY <1>1, BarTaken
      <3> QED BY <2>5, <3>1, <3>2
    <2>8. acc' = [lang |-> lang, atoms |-> acc'.atoms]
      BY <1>1, BarTaken
    <2>9. /\ acc' \in [lang : Languages \cup {"none"}, atoms : Seq(Places')]
          /\ acc'.lang \in Languages
      BY <2>7, <2>8
    <2>10. Collected \in Seq(Output) /\ (Overlong => RawBars \in Seq(Output))
      BY Emissions, LimitsAssumption, EmptySeq DEF Overlong, SentenceTypes
    <2>11. out' \in Seq(Output)
      <3>1. out \in Seq(Output)
        BY DEF SentenceTypes
      <3>2. \/ out' = out
            \/ out' = out \o Collected
            \/ Overlong /\ out' = out \o RawBars
        BY <1>1, BarTaken
      <3> QED BY <2>10, <3>1, <3>2, ConcatProperties
    <2>12. done' \in BOOLEAN
      BY <1>1, BarTaken DEF SentenceTypes
    <2> QED BY <2>6, <2>7, <2>9, <2>11, <2>12 DEF SentenceTypes
  <1>2. ASSUME NEW lang \in Languages, SpecialBar(lang)
        PROVE  SentenceTypes'
    <2>1. /\ Len(input) \in Nat /\ Len(input') = Len(input) + 1
          /\ pending = <<>> /\ UNCHANGED <<pending, used, kept, done>>
          /\ acc' = [acc EXCEPT !.atoms = <<>>] /\ input' \in Seq(Atom)
      BY <1>2, SpecialTaken, LenProperties DEF SentenceTypes
    <2>2. Places \subseteq Places'
      BY <2>1 DEF Places
    <2>3. Seq(Places) \subseteq Seq(Places')
      BY <2>2, Widening
    <2>4. Seq(Seq(Places)) \subseteq Seq(Seq(Places'))
      BY <2>3, Widening
    <2>5. <<>> \in Seq(Places')
      BY EmptySeq
    <2>6. /\ acc' \in [lang : Languages \cup {"none"}, atoms : Seq(Places')]
          /\ acc'.atoms = <<>>
      BY <2>1, <2>5 DEF SentenceTypes
    <2>7. /\ pending' \in Seq(Places') /\ kept' \in Seq(Places')
          /\ used' \in Seq(Seq(Places')) /\ done' \in BOOLEAN
      BY <2>1, <2>3, <2>4 DEF SentenceTypes
    <2>8. out' \in Seq(Output)
      <3>1. PICK before \in Seq(Output) :
              out' = Append(out \o before, Yield(lang, <<Len(input) + 1>>))
        BY <1>2, SpecialTaken
      <3>2. out \o before \in Seq(Output) /\ Yield(lang, <<Len(input) + 1>>) \in Output
        BY <1>2, SpecialTaken, ConcatProperties DEF SentenceTypes
      <3> QED BY <3>1, <3>2, AppendProperties
    <2> QED BY <2>1, <2>6, <2>7, <2>8 DEF SentenceTypes
  <1>3. ASSUME VisitAtom PROVE SentenceTypes'
    <2> DEFINE a == Head(pending)
    <2>1. /\ pending # <<>> /\ pending \in Seq(Places) /\ pending' = Tail(pending)
          /\ a \in Places /\ UNCHANGED <<input, done>> /\ acc.lang \in Languages
          /\ acc' = [acc EXCEPT !.atoms = acc'.atoms]
      BY <1>3, AtomVisited
    <2>2. Places' = Places
      BY <2>1 DEF Places
    <2>3. pending' \in Seq(Places)
      BY <2>1, HeadTailProperties
    <2>4. /\ Append(acc.atoms, a) \in Seq(Places) /\ Append(kept, a) \in Seq(Places)
          /\ <<a>> \in Seq(Places) /\ <<>> \in Seq(Places)
      BY <2>1, AppendProperties DEF SentenceTypes
    <2>5. acc'.atoms \in Seq(Places) /\ kept' \in Seq(Places)
      BY <1>3, <2>4, AtomVisited
    <2>6. used' \in Seq(Seq(Places))
      <3>1. used \in Seq(Seq(Places))
        BY DEF SentenceTypes
      <3>2. used' = used \/ used' = Append(used, kept')
        BY <1>3, AtomVisited
      <3>3. Append(used, kept') \in Seq(Seq(Places))
        BY <2>5, <3>1, AppendProperties
      <3> QED BY <3>1, <3>2, <3>3
    <2>7. /\ acc' \in [lang : Languages \cup {"none"}, atoms : Seq(Places)]
          /\ acc'.lang \in Languages
      BY <2>1, <2>5 DEF SentenceTypes
    <2>8. Len(input) \in Nat
      BY LenProperties DEF SentenceTypes
    <2>9. Append(acc.atoms, a) \in Seq(Nat)
      <3>1. Places \subseteq Nat
        BY <2>8 DEF Places
      <3> QED BY <2>4, <3>1, Widening
    <2>10. Yield(acc.lang, Append(acc.atoms, a)) \in Output
      BY <2>1, <2>9 DEF Yield, Output
    <2>11. out' \in Seq(Output)
      <3>1. out \in Seq(Output)
        BY DEF SentenceTypes
      <3>2. \/ out' = out
            \/ out' = Append(out, Yield(acc.lang, Append(acc.atoms, a)))
        BY <1>3, AtomVisited
      <3> QED BY <2>10, <3>1, <3>2, AppendProperties
    <2> QED
      BY <2>1, <2>2, <2>3, <2>5, <2>6, <2>7, <2>11 DEF SentenceTypes
  <1>4. ASSUME EndOfInput PROVE SentenceTypes'
    <2>1. /\ UNCHANGED <<input, pending, used, kept>> /\ pending = <<>>
          /\ out' = out \o Collected /\ done' = TRUE
          /\ acc' = [acc EXCEPT !.atoms = <<>>]
      BY <1>4 DEF EndOfInput
    <2>2. Places' = Places /\ <<>> \in Seq(Places)
      BY <2>1, EmptySeq DEF Places
    <2>3. out' \in Seq(Output)
      BY <2>1, Emissions, ConcatProperties DEF SentenceTypes
    <2>4. /\ acc' \in [lang : Languages \cup {"none"}, atoms : Seq(Places)]
          /\ acc'.atoms = <<>>
      BY <2>1, <2>2 DEF SentenceTypes
    <2> QED BY <2>1, <2>2, <2>3, <2>4 DEF SentenceTypes
  <1> QED BY <1>1, <1>2, <1>3, <1>4 DEF SentenceNext

\* The rest of a bar stays the end of the input.
LEMMA NextPending ==
  ASSUME SentenceTypes, PendingIsRest, SentenceNext
  PROVE  PendingIsRest'
  <1>1. ASSUME NEW lang \in Languages, NEW n \in 1 .. MaxBar,
               NEW ends \in [1 .. n -> Ends], StartBar(lang, ends)
        PROVE  PendingIsRest'
    <2>1. /\ Len(input) \in Nat /\ n \in Nat
          /\ Len(input') = Len(input) + n /\ Len(pending') = n
      BY <1>1, BarTaken, LenProperties DEF SentenceTypes
    <2>2. Taken' = Len(input)
      BY <2>1 DEF Taken
    <2>3. ASSUME NEW i \in 1 .. n
          PROVE  /\ pending'[i] = Taken' + i
                 /\ input'[pending'[i]].closes <=> i = Len(pending')
      BY <1>1, <2>1, <2>2, BarTaken
    <2> QED BY <2>1, <2>3 DEF PendingIsRest
  <1>2. ASSUME NEW lang \in Languages, SpecialBar(lang)
        PROVE  PendingIsRest'
    <2>1. /\ pending' = <<>> /\ Len(input') = Len(input) + 1
          /\ Len(input) \in Nat /\ Len(<<>>) = 0
      BY <1>2, SpecialTaken, LenProperties, EmptySeq DEF SentenceTypes
    <2>2. Len(pending') = 0 /\ 1 .. Len(pending') = {}
      BY <2>1
    <2> QED BY <2>1, <2>2 DEF PendingIsRest
  <1>3. ASSUME VisitAtom PROVE PendingIsRest'
    <2>1. /\ pending # <<>> /\ pending \in Seq(Places)
          /\ pending' = Tail(pending) /\ input' = input
      BY <1>3, AtomVisited
    <2>2. /\ Len(pending') = Len(pending) - 1
          /\ \A i \in 1 .. Len(pending') : pending'[i] = pending[i + 1]
      BY <2>1, HeadTailProperties
    <2>3. Len(pending) \in Nat \ {0} /\ Len(input) \in Nat
      BY <2>1, LenProperties, EmptySeq DEF SentenceTypes
    <2>4. Taken' = Taken + 1
      BY <2>1, <2>2, <2>3 DEF Taken
    <2>5. ASSUME NEW i \in 1 .. Len(pending')
          PROVE  /\ pending'[i] = Taken' + i
                 /\ input'[pending'[i]].closes <=> i = Len(pending')
      <3>1. i + 1 \in 1 .. Len(pending)
        BY <2>2, <2>3
      <3>2. /\ pending[i + 1] = Taken + (i + 1)
            /\ input[pending[i + 1]].closes <=> i + 1 = Len(pending)
        BY <3>1 DEF PendingIsRest
      <3>3. pending'[i] = pending[i + 1]
        BY <2>2
      <3>4. Taken + (i + 1) = Taken' + i
        <4>1. Taken \in Int /\ i \in Int
          BY <2>2, <2>3 DEF Taken
        <4> QED BY <2>4, <4>1
      <3>5. i + 1 = Len(pending) <=> i = Len(pending')
        BY <2>2, <2>3
      <3> QED BY <2>1, <3>2, <3>3, <3>4, <3>5
    <2>6. Len(pending) <= Len(input)
      BY DEF PendingIsRest
    <2>7. Len(pending') <= Len(input')
      BY <2>1, <2>2, <2>3, <2>6
    <2> QED BY <2>5, <2>7 DEF PendingIsRest
  <1>4. ASSUME EndOfInput PROVE PendingIsRest'
    BY <1>4 DEF EndOfInput, PendingIsRest, Taken
  <1> QED BY <1>1, <1>2, <1>3, <1>4 DEF SentenceNext

-----------------------------------------------------------------------------
(* Nothing is lost                                                         *)

Yielded(o) == UNION {Range(o[i].atoms) : i \in DOMAIN o}

LEMMA AtomsOfAppend ==
  ASSUME NEW S, NEW s \in Seq(S), NEW e \in S
  PROVE  AtomsOf(Append(s, e)) = AtomsOf(s) \cup Range(e)
  <1>1. /\ Append(s, e) \in Seq(S)
        /\ Len(Append(s, e)) = Len(s) + 1
        /\ \A i \in 1 .. Len(s) : Append(s, e)[i] = s[i]
        /\ Append(s, e)[Len(s) + 1] = e
    BY AppendProperties
  <1>2. DOMAIN s = 1 .. Len(s) /\ DOMAIN Append(s, e) = 1 .. Len(s) + 1 /\ Len(s) \in Nat
    BY <1>1, LenProperties
  <1>3. \A x : x \in AtomsOf(Append(s, e)) <=>
          \E i \in 1 .. Len(s) + 1 : x \in Range(Append(s, e)[i])
    BY <1>2 DEF AtomsOf
  <1>4. \A x : x \in AtomsOf(s) <=> \E i \in 1 .. Len(s) : x \in Range(s[i])
    BY <1>2 DEF AtomsOf
  <1>5. \A i : i \in 1 .. Len(s) + 1 <=> i \in 1 .. Len(s) \/ i = Len(s) + 1
    BY <1>2
  <1> QED BY <1>1, <1>3, <1>4, <1>5

LEMMA YieldedAppend ==
  ASSUME NEW o \in Seq(Output), NEW e \in Output
  PROVE  Yielded(Append(o, e)) = Yielded(o) \cup Range(e.atoms)
  <1>1. /\ Append(o, e) \in Seq(Output)
        /\ Len(Append(o, e)) = Len(o) + 1
        /\ \A i \in 1 .. Len(o) : Append(o, e)[i] = o[i]
        /\ Append(o, e)[Len(o) + 1] = e
    BY AppendProperties
  <1>2. DOMAIN o = 1 .. Len(o) /\ DOMAIN Append(o, e) = 1 .. Len(o) + 1 /\ Len(o) \in Nat
    BY <1>1, LenProperties
  <1>3. \A x : x \in Yielded(Append(o, e)) <=>
          \E i \in 1 .. Len(o) + 1 : x \in Range(Append(o, e)[i].atoms)
    BY <1>2 DEF Yielded
  <1>4. \A x : x \in Yielded(o) <=> \E i \in 1 .. Len(o) : x \in Range(o[i].atoms)
    BY <1>2 DEF Yielded
  <1>5. \A i : i \in 1 .. Len(o) + 1 <=> i \in 1 .. Len(o) \/ i = Len(o) + 1
    BY <1>2
  <1> QED BY <1>1, <1>3, <1>4, <1>5

LEMMA YieldedConcat ==
  ASSUME NEW o \in Seq(Output), NEW e \in Seq(Output)
  PROVE  /\ Yielded(o) \subseteq Yielded(o \o e)
         /\ Yielded(e) \subseteq Yielded(o \o e)
  <1>1. /\ o \o e \in Seq(Output)
        /\ Len(o \o e) = Len(o) + Len(e)
        /\ \A i \in 1 .. Len(o) + Len(e) :
             (o \o e)[i] = IF i <= Len(o) THEN o[i] ELSE e[i - Len(o)]
    BY ConcatProperties
  <1>2. /\ DOMAIN o = 1 .. Len(o) /\ DOMAIN e = 1 .. Len(e)
        /\ DOMAIN (o \o e) = 1 .. Len(o) + Len(e)
        /\ Len(o) \in Nat /\ Len(e) \in Nat
    BY <1>1, LenProperties
  <1>3. \A i \in 1 .. Len(o) : i \in DOMAIN (o \o e) /\ (o \o e)[i] = o[i]
    BY <1>1, <1>2
  <1>4. ASSUME NEW i \in 1 .. Len(e)
        PROVE  Len(o) + i \in DOMAIN (o \o e) /\ (o \o e)[Len(o) + i] = e[i]
    <2>1. /\ Len(o) + i \in 1 .. Len(o) + Len(e)
          /\ ~(Len(o) + i <= Len(o)) /\ Len(o) + i - Len(o) = i
      BY <1>2
    <2> QED BY <1>1, <1>2, <2>1
  <1>5. Yielded(o) \subseteq Yielded(o \o e)
    BY <1>2, <1>3 DEF Yielded
  <1>6. Yielded(e) \subseteq Yielded(o \o e)
    BY <1>2, <1>4 DEF Yielded
  <1> QED BY <1>5, <1>6

\* What is emitted when what was collected goes holds all of it.
LEMMA EmissionsCover ==
  ASSUME SentenceTypes, BarsCoverAcc, pending = <<>>
  PROVE  /\ Range(acc.atoms) \subseteq Yielded(Collected)
         /\ Range(acc.atoms) \subseteq Yielded(RawBars)
  <1>1. Range(acc.atoms) \subseteq Yielded(Collected)
    <2>1. CASE acc.atoms = <<>>
      <3>1. Range(<<>>) = {}
        BY EmptySeq DEF Range
      <3> QED BY <2>1, <3>1
    <2>2. CASE acc.atoms # <<>>
      <3>1. Collected = <<Yield(acc.lang, acc.atoms)>>
        BY <2>2 DEF Collected
      <3>2. 1 \in DOMAIN Collected /\ Collected[1].atoms = acc.atoms
        BY <3>1 DEF Yield
      <3> QED BY <3>2 DEF Yielded
    <2> QED BY <2>1, <2>2
  <1>2. DOMAIN used = 1 .. Len(used) /\ DOMAIN RawBars = 1 .. Len(used)
    BY LenProperties DEF SentenceTypes, RawBars
  <1>3. \A i \in DOMAIN used : RawBars[i].atoms = used[i]
    BY <1>2, Emissions
  <1>4. AtomsOf(used) \subseteq Yielded(RawBars)
    BY <1>2, <1>3 DEF AtomsOf, Yielded
  <1>5. Range(acc.atoms) \subseteq AtomsOf(used)
    BY DEF BarsCoverAcc
  <1> QED BY <1>1, <1>4, <1>5

\* The bars noted go on to cover what was collected.
LEMMA NextCovers ==
  ASSUME SentenceTypes, PendingIsRest, BarsCoverAcc, SentenceNext
  PROVE  BarsCoverAcc'
  <1>0. Range(<<>>) = {}
    BY EmptySeq DEF Range
  <1>1. ASSUME acc'.atoms = <<>> PROVE BarsCoverAcc'
    BY <1>0, <1>1 DEF BarsCoverAcc
  <1>2. ASSUME NEW lang \in Languages, NEW n \in 1 .. MaxBar,
               NEW ends \in [1 .. n -> Ends], StartBar(lang, ends)
        PROVE  BarsCoverAcc'
    <2>1. CASE acc'.atoms = <<>>
      BY <1>1, <2>1
    <2>2. CASE acc'.atoms # <<>>
      <3>1. pending = <<>> /\ acc'.atoms = acc.atoms /\ used' = used
        BY <1>2, <2>2, BarTaken
      <3>2. Range(acc.atoms) \subseteq AtomsOf(used)
        BY <3>1 DEF BarsCoverAcc
      <3> QED BY <3>1, <3>2 DEF BarsCoverAcc
    <2> QED BY <2>1, <2>2
  <1>3. ASSUME NEW lang \in Languages, SpecialBar(lang)
        PROVE  BarsCoverAcc'
    <2>1. acc'.atoms = <<>>
      BY <1>3, SpecialTaken DEF SentenceTypes
    <2> QED BY <1>1, <2>1
  <1>4. ASSUME VisitAtom PROVE BarsCoverAcc'
    <2> DEFINE a == Head(pending)
    <2>1. CASE Splits(a)
      BY <1>1, <1>4, <2>1, AtomVisited
    <2>2. CASE ~Splits(a)
      <3>1. /\ pending # <<>> /\ a \in Places
            /\ acc'.atoms = Append(acc.atoms, a) /\ kept' = Append(kept, a)
            /\ pending' = <<>> <=> Len(pending) = 1
            /\ \/ Len(pending) = 1 /\ used' = Append(used, kept')
               \/ Len(pending) # 1 /\ used' = used
        BY <1>4, <2>2, AtomVisited
      <3>2. /\ acc.atoms \in Seq(Places) /\ kept \in Seq(Places)
            /\ used \in Seq(Seq(Places))
        BY DEF SentenceTypes
      <3>3. /\ Range(acc'.atoms) = Range(acc.atoms) \cup {a}
            /\ Range(kept') = Range(kept) \cup {a} /\ kept' \in Seq(Places)
        BY <3>1, <3>2, RangeOfAppend, AppendProperties
      <3>4. Range(acc.atoms) \subseteq AtomsOf(used) \cup Range(kept)
        BY <3>1 DEF BarsCoverAcc
      <3>5. CASE Len(pending) = 1
        <4>1. used' = Append(used, kept')
          BY <3>1, <3>5
        <4>2. AtomsOf(used)' = AtomsOf(used) \cup Range(kept')
          <5>1. AtomsOf(Append(used, kept')) = AtomsOf(used) \cup Range(kept')
            BY <3>2, <3>3, AtomsOfAppend
          <5> QED BY <4>1, <5>1
        <4> QED BY <3>3, <3>4, <4>2 DEF BarsCoverAcc
      <3>6. CASE Len(pending) # 1
        <4>1. pending' # <<>> /\ used' = used
          BY <3>1, <3>6
        <4>2. AtomsOf(used)' = AtomsOf(used)
          BY <4>1
        <4> QED BY <3>3, <3>4, <4>1, <4>2 DEF BarsCoverAcc
      <3> QED BY <3>5, <3>6
    <2> QED BY <2>1, <2>2
  <1>5. ASSUME EndOfInput PROVE BarsCoverAcc'
    <2>1. acc'.atoms = <<>>
      BY <1>5 DEF EndOfInput, SentenceTypes
    <2> QED BY <1>1, <2>1
  <1> QED BY <1>2, <1>3, <1>4, <1>5 DEF SentenceNext

LEMMA NothingLostAsSets ==
  NothingLost <=> Places \subseteq Yielded(out) \cup Range(acc.atoms) \cup Range(pending)
  <1>1. \A x : x \in Yielded(out) <=> \E i \in DOMAIN out : x \in Range(out[i].atoms)
    BY DEF Yielded
  <1> QED BY <1>1 DEF NothingLost, Places

\* No step loses an atom.
LEMMA NextNothingLost ==
  ASSUME SentenceTypes, PendingIsRest, BarsCoverAcc, NothingLost, SentenceNext
  PROVE  NothingLost'
  <1> DEFINE Kept == Yielded(out) \cup Range(acc.atoms) \cup Range(pending)
  <1>1. Places \subseteq Kept
    BY NothingLostAsSets
  <1>2. SUFFICES Places' \subseteq Kept'
    <2>1. NothingLost' <=> Places' \subseteq Kept'
      <3>1. \A x : x \in Yielded(out') <=>
              \E i \in DOMAIN out' : x \in Range(out'[i].atoms)
        BY DEF Yielded
      <3> QED BY <3>1 DEF NothingLost, Places, Yielded
    <2> QED BY <2>1
  <1>3. /\ out \in Seq(Output) /\ acc.atoms \in Seq(Places) /\ pending \in Seq(Places)
        /\ Len(input) \in Nat
    BY LenProperties DEF SentenceTypes
  <1>4. Range(<<>>) = {}
    BY EmptySeq DEF Range
  <1>5. /\ pending = <<>> =>
             /\ Range(acc.atoms) \subseteq Yielded(Collected)
             /\ Range(acc.atoms) \subseteq Yielded(RawBars)
        /\ Collected \in Seq(Output)
        /\ Overlong => RawBars \in Seq(Output)
    <2>1. Collected \in Seq(Output) /\ (acc.atoms # <<>> => RawBars \in Seq(Output))
      BY Emissions
    <2>2. Overlong => acc.atoms # <<>>
      BY LimitsAssumption, EmptySeq DEF Overlong
    <2> QED BY <2>1, <2>2, EmissionsCover
  <1>6. ASSUME NEW lang \in Languages, NEW n \in 1 .. MaxBar,
               NEW ends \in [1 .. n -> Ends], StartBar(lang, ends)
        PROVE  Places' \subseteq Kept'
    <2>1. /\ pending = <<>> /\ n \in Nat /\ Len(input') = Len(input) + n
          /\ pending' \in Seq(1 .. Len(input) + n) /\ Len(pending') = n
          /\ \A i \in 1 .. n : pending'[i] = Len(input) + i
      BY <1>6, BarTaken
    <2>2. Yielded(out) \cup Range(acc.atoms) \subseteq Yielded(out') \cup Range(acc'.atoms)
      <3>1. \/ Overlong /\ out' = out \o RawBars
            \/ out' = out \o Collected
            \/ out' = out /\ acc'.atoms = acc.atoms
        BY <1>6, BarTaken
      <3>2. CASE Overlong /\ out' = out \o RawBars
        BY <1>3, <1>5, <2>1, <3>2, YieldedConcat
      <3>3. CASE out' = out \o Collected
        BY <1>3, <1>5, <2>1, <3>3, YieldedConcat
      <3>4. CASE out' = out /\ acc'.atoms = acc.atoms
        BY <3>4
      <3> QED BY <3>1, <3>2, <3>3, <3>4
    <2>3. ASSUME NEW x \in Places', x \notin Places PROVE x \in Range(pending')
      <3>1. x - Len(input) \in 1 .. n /\ Len(input) + (x - Len(input)) = x
        BY <1>3, <2>1, <2>3 DEF Places
      <3>2. pending'[x - Len(input)] = x /\ DOMAIN pending' = 1 .. n
        BY <2>1, <3>1, LenProperties
      <3> QED BY <3>1, <3>2 DEF Range
    <2>4. Places \subseteq Yielded(out') \cup Range(acc'.atoms)
      BY <1>1, <1>4, <2>1, <2>2
    <2> QED BY <2>3, <2>4 DEF Yielded
  <1>7. ASSUME NEW lang \in Languages, SpecialBar(lang)
        PROVE  Places' \subseteq Kept'
    <2> DEFINE e == Yield(lang, <<Len(input) + 1>>)
    <2>1. pending = <<>> /\ Len(input') = Len(input) + 1 /\ e \in Output
      BY <1>7, SpecialTaken
    <2>2. PICK before \in Seq(Output) :
            /\ \/ Overlong /\ before = RawBars
               \/ ~Overlong /\ before = Collected
            /\ out' = Append(out \o before, e)
      BY <1>7, SpecialTaken
    <2>3. Range(acc.atoms) \subseteq Yielded(before)
      BY <1>5, <2>1, <2>2
    <2>4. /\ out \o before \in Seq(Output)
          /\ Yielded(out) \subseteq Yielded(out \o before)
          /\ Yielded(before) \subseteq Yielded(out \o before)
      BY <1>3, <2>2, YieldedConcat, ConcatProperties
    <2>5. Yielded(out') = Yielded(out \o before) \cup Range(e.atoms)
      BY <2>1, <2>2, <2>4, YieldedAppend
    <2>6. Len(input) + 1 \in Range(e.atoms)
      BY DEF Yield, Range
    <2>7. Places' = Places \cup {Len(input) + 1}
      BY <1>3, <2>1 DEF Places
    <2>8. Places' \subseteq Yielded(out')
      BY <1>1, <1>4, <2>1, <2>3, <2>4, <2>5, <2>6, <2>7
    <2> QED BY <2>8 DEF Yielded
  <1>8. ASSUME VisitAtom PROVE Places' \subseteq Kept'
    <2> DEFINE a == Head(pending)
    <2>1. /\ pending # <<>> /\ pending' = Tail(pending) /\ input' = input
          /\ a \in Places
      BY <1>8, AtomVisited
    <2>2. Range(pending) = {a} \cup Range(pending')
      BY <1>3, <2>1, RangeOfTail
    <2>3. Range(Append(acc.atoms, a)) = Range(acc.atoms) \cup {a}
      BY <1>3, <2>1, RangeOfAppend
    <2>4. Yielded(out) \cup Range(acc.atoms) \cup {a} \subseteq
            Yielded(out') \cup Range(acc'.atoms)
      <3>1. CASE Splits(a)
        <4> DEFINE e == Yield(acc.lang, Append(acc.atoms, a))
        <4>1. out' = Append(out, e)
          BY <1>8, <3>1, AtomVisited
        <4>2. e \in Output
          <5>1. Append(acc.atoms, a) \in Seq(Nat)
            <6>1. Places \subseteq Nat
              BY <1>3 DEF Places
            <6>2. Append(acc.atoms, a) \in Seq(Places)
              BY <1>3, <2>1, AppendProperties
            <6> QED BY <6>1, <6>2, Widening
          <5>2. acc.lang \in Languages
            BY <1>8, AtomVisited
          <5> QED BY <5>1, <5>2 DEF Yield, Output
        <4>3. e.atoms = Append(acc.atoms, a)
          BY DEF Yield
        <4> HIDE DEF e
        <4>4. Yielded(out') = Yielded(out) \cup Range(e.atoms)
          BY <1>3, <4>1, <4>2, YieldedAppend
        <4> QED BY <2>3, <4>3, <4>4
      <3>2. CASE ~Splits(a)
        <4>1. out' = out /\ acc'.atoms = Append(acc.atoms, a)
          BY <1>8, <3>2, AtomVisited
        <4> QED BY <2>3, <4>1
      <3> QED BY <3>1, <3>2
    <2>5. Places' = Places
      BY <2>1 DEF Places
    <2>6. Places' \subseteq Yielded(out') \cup Range(acc'.atoms) \cup Range(pending')
      BY <1>1, <2>2, <2>4, <2>5
    <2> QED BY <2>6 DEF Yielded
  <1>9. ASSUME EndOfInput PROVE Places' \subseteq Kept'
    <2>1. /\ pending = <<>> /\ pending' = pending /\ input' = input
          /\ out' = out \o Collected
      BY <1>9 DEF EndOfInput
    <2>2. Places' = Places
      BY <2>1 DEF Places
    <2>3. /\ Yielded(out) \subseteq Yielded(out')
          /\ Yielded(Collected) \subseteq Yielded(out')
      BY <1>3, <1>5, <2>1, YieldedConcat
    <2>4. Places' \subseteq Yielded(out')
      BY <1>1, <1>4, <1>5, <2>1, <2>2, <2>3
    <2> QED BY <2>4 DEF Yielded
  <1> QED BY <1>6, <1>7, <1>8, <1>9 DEF SentenceNext

-----------------------------------------------------------------------------
(* Bounds                                                                  *)

\* The lists keep to their bounds: a bar is taken only on top of what does not
\* exceed the limit.
LEMMA NextLists ==
  ASSUME SentenceTypes, PendingIsRest, ListsAreBounded, SentenceNext
  PROVE  ListsAreBounded'
  <1>0. Limit \in Nat /\ MaxBar \in Nat \ {0} /\ Len(<<>>) = 0
    BY LimitsAssumption
  <1>1. /\ Len(acc.atoms) \in Nat /\ Len(pending) \in Nat /\ Len(kept) \in Nat
        /\ Len(used) \in Nat
    BY LenProperties DEF SentenceTypes
  <1>2. ASSUME NEW lang \in Languages, NEW n \in 1 .. MaxBar,
               NEW ends \in [1 .. n -> Ends], StartBar(lang, ends)
        PROVE  ListsAreBounded'
    <2>1. Len(pending') = n /\ kept' = <<>> /\ n \in Nat /\ n <= MaxBar
      BY <1>2, BarTaken
    <2>2. Len(acc'.atoms) <= Limit /\ (used' = used \/ used' = <<>>)
      <3>1. \/ acc'.atoms = <<>> /\ used' = <<>>
            \/ ~Overlong /\ acc'.atoms = acc.atoms /\ used' = used
        BY <1>2, BarTaken
      <3> QED BY <1>0, <1>1, <3>1 DEF Overlong
    <2>3. Len(acc'.atoms) \in Nat
      <3>1. acc'.atoms = <<>> \/ acc'.atoms = acc.atoms
        BY <1>2, BarTaken
      <3> QED BY <1>0, <1>1, <3>1
    <2>4. Len(acc'.atoms) + Len(pending') <= Limit + MaxBar
      BY <1>0, <2>1, <2>2, <2>3
    <2>5. Len(kept') + Len(pending') <= MaxBar
      BY <1>0, <2>1
    <2>6. \A i \in 1 .. Len(used') : Len(used'[i]) <= MaxBar
      BY <1>0, <2>2 DEF ListsAreBounded
    <2> QED BY <2>4, <2>5, <2>6 DEF ListsAreBounded
  <1>3. ASSUME NEW lang \in Languages, SpecialBar(lang)
        PROVE  ListsAreBounded'
    <2>1. /\ pending' = pending /\ kept' = kept /\ used' = used
          /\ acc'.atoms = <<>>
      BY <1>3, SpecialTaken DEF SentenceTypes
    <2>2. Len(pending) <= Limit + MaxBar
      BY <1>0, <1>1 DEF ListsAreBounded
    <2> QED BY <1>0, <1>1, <2>1, <2>2 DEF ListsAreBounded
  <1>4. ASSUME VisitAtom PROVE ListsAreBounded'
    <2> DEFINE a == Head(pending)
    <2>1. /\ pending # <<>> /\ pending \in Seq(Places) /\ pending' = Tail(pending)
          /\ a \in Places
      BY <1>4, AtomVisited
    <2>2. Len(pending') = Len(pending) - 1 /\ Len(pending) # 0
      BY <2>1, HeadTailProperties, EmptySeq
    <2>3. /\ acc.atoms \in Seq(Places) /\ kept \in Seq(Places)
          /\ used \in Seq(Seq(Places))
      BY DEF SentenceTypes
    <2>4. /\ Len(Append(acc.atoms, a)) = Len(acc.atoms) + 1
          /\ Len(Append(kept, a)) = Len(kept) + 1
          /\ Len(<<a>>) = 1 /\ Append(kept, a) \in Seq(Places) /\ <<a>> \in Seq(Places)
      BY <2>1, <2>3, AppendProperties
    <2>5. /\ Len(acc'.atoms) + Len(pending') <= Limit + MaxBar
      <3>1. acc'.atoms = <<>> \/ acc'.atoms = Append(acc.atoms, a)
        BY <1>4, AtomVisited
      <3> QED BY <1>0, <1>1, <2>2, <2>4, <3>1 DEF ListsAreBounded
    <2>6. /\ Len(kept') + Len(pending') <= MaxBar
          /\ Len(kept') \in Nat
          /\ kept' \in Seq(Places)
      <3>1. kept' = <<a>> \/ kept' = Append(kept, a)
        BY <1>4, AtomVisited
      <3>2. Len(kept) + Len(pending) <= MaxBar
        BY DEF ListsAreBounded
      <3>3. CASE kept' = <<a>>
        BY <1>0, <1>1, <2>2, <2>4, <3>2, <3>3
      <3>4. CASE kept' = Append(kept, a)
        BY <1>0, <1>1, <2>2, <2>4, <3>2, <3>4
      <3> QED BY <3>1, <3>3, <3>4
    <2>7. Len(kept') <= MaxBar
      BY <1>0, <1>1, <2>2, <2>6
    <2>8. \A i \in 1 .. Len(used') : Len(used'[i]) <= MaxBar
      <3>1. \A i \in 1 .. Len(used) : Len(used[i]) <= MaxBar
        BY DEF ListsAreBounded
      <3>2. CASE used' = used
        BY <3>1, <3>2
      <3>3. CASE used' = Append(used, kept')
        <4>1. /\ Len(used') = Len(used) + 1
              /\ \A i \in 1 .. Len(used) : used'[i] = used[i]
              /\ used'[Len(used) + 1] = kept'
          BY <2>3, <2>6, <3>3, AppendProperties
        <4>2. \A i \in 1 .. Len(used') : i \in 1 .. Len(used) \/ i = Len(used) + 1
          BY <1>1, <4>1
        <4> QED BY <2>7, <3>1, <4>1, <4>2
      <3> QED BY <1>4, <3>2, <3>3, AtomVisited
    <2> QED BY <2>5, <2>6, <2>8 DEF ListsAreBounded
  <1>5. ASSUME EndOfInput PROVE ListsAreBounded'
    <2>1. /\ pending' = pending /\ kept' = kept /\ used' = used
          /\ acc'.atoms = <<>>
      BY <1>5 DEF EndOfInput, SentenceTypes
    <2>2. Len(pending) <= Limit + MaxBar
      BY <1>0, <1>1 DEF ListsAreBounded
    <2> QED BY <1>0, <1>1, <2>1, <2>2 DEF ListsAreBounded
  <1> QED BY <1>2, <1>3, <1>4, <1>5 DEF SentenceNext

Short(o) == \A i \in DOMAIN o : Len(o[i].atoms) <= Limit + MaxBar

LEMMA ShortConcat ==
  ASSUME NEW o \in Seq(Output), NEW e \in Seq(Output), Short(o), Short(e)
  PROVE  Short(o \o e)
  <1>1. /\ o \o e \in Seq(Output)
        /\ Len(o \o e) = Len(o) + Len(e)
        /\ \A i \in 1 .. Len(o) + Len(e) :
             (o \o e)[i] = IF i <= Len(o) THEN o[i] ELSE e[i - Len(o)]
    BY ConcatProperties
  <1>2. /\ DOMAIN o = 1 .. Len(o) /\ DOMAIN e = 1 .. Len(e)
        /\ DOMAIN (o \o e) = 1 .. Len(o) + Len(e)
        /\ Len(o) \in Nat /\ Len(e) \in Nat
    BY <1>1, LenProperties
  <1> SUFFICES ASSUME NEW i \in 1 .. Len(o) + Len(e)
               PROVE  Len((o \o e)[i].atoms) <= Limit + MaxBar
    BY <1>2 DEF Short
  <1>3. CASE i <= Len(o)
    <2>1. i \in DOMAIN o /\ (o \o e)[i] = o[i]
      BY <1>1, <1>2, <1>3
    <2> QED BY <2>1 DEF Short
  <1>4. CASE ~(i <= Len(o))
    <2>1. i - Len(o) \in DOMAIN e /\ (o \o e)[i] = e[i - Len(o)]
      BY <1>1, <1>2, <1>4
    <2> QED BY <2>1 DEF Short
  <1> QED BY <1>3, <1>4

LEMMA ShortAppend ==
  ASSUME NEW o \in Seq(Output), NEW e \in Output,
         Short(o), Len(e.atoms) <= Limit + MaxBar
  PROVE  Short(Append(o, e))
  <1>1. /\ Append(o, e) \in Seq(Output)
        /\ Len(Append(o, e)) = Len(o) + 1
        /\ \A i \in 1 .. Len(o) : Append(o, e)[i] = o[i]
        /\ Append(o, e)[Len(o) + 1] = e
    BY AppendProperties
  <1>2. DOMAIN o = 1 .. Len(o) /\ DOMAIN Append(o, e) = 1 .. Len(o) + 1 /\ Len(o) \in Nat
    BY <1>1, LenProperties
  <1>3. \A i \in DOMAIN Append(o, e) : i \in 1 .. Len(o) \/ i = Len(o) + 1
    BY <1>2
  <1> QED BY <1>1, <1>2, <1>3 DEF Short

\* Paragraphs keep to the limit and a bar.
LEMMA NextBounded ==
  ASSUME SentenceTypes, PendingIsRest, ListsAreBounded, ParagraphsAreBounded,
         SentenceNext, ListsAreBounded'
  PROVE  ParagraphsAreBounded'
  <1>0. Limit \in Nat /\ MaxBar \in Nat \ {0}
    BY LimitsAssumption
  <1>1. /\ Len(acc.atoms) \in Nat /\ Len(pending) \in Nat
        /\ DOMAIN used = 1 .. Len(used) /\ Len(used) \in Nat /\ out \in Seq(Output)
    BY LenProperties DEF SentenceTypes
  <1>2. Short(out)
    BY DEF Short, ParagraphsAreBounded
  <1>3. Short(Collected)
    <2>1. Len(acc.atoms) <= Limit + MaxBar
      BY <1>0, <1>1 DEF ListsAreBounded
    <2>2. CASE acc.atoms = <<>>
      BY <2>2 DEF Collected, Short
    <2>3. CASE acc.atoms # <<>>
      BY <2>1, <2>3 DEF Collected, Short, Yield
    <2> QED BY <2>2, <2>3
  <1>4. Short(RawBars)
    <2>1. DOMAIN RawBars = 1 .. Len(used)
      BY DEF RawBars
    <2> SUFFICES ASSUME NEW i \in 1 .. Len(used)
                 PROVE  Len(RawBars[i].atoms) <= Limit + MaxBar
      BY <2>1 DEF Short
    <2>2. RawBars[i].atoms = used[i] /\ Len(used[i]) <= MaxBar
      BY Emissions DEF ListsAreBounded
    <2>3. Len(used[i]) \in Nat
      BY ElementOfSeq, LenProperties DEF SentenceTypes
    <2> QED BY <1>0, <2>2, <2>3
  <1>5. Collected \in Seq(Output) /\ (Overlong => RawBars \in Seq(Output))
    <2>1. Collected \in Seq(Output) /\ (acc.atoms # <<>> => RawBars \in Seq(Output))
      BY Emissions
    <2>2. Overlong => acc.atoms # <<>>
      BY <1>0, EmptySeq DEF Overlong
    <2> QED BY <2>1, <2>2
  <1>6. SUFFICES Short(out')
    BY DEF Short, ParagraphsAreBounded
  <1>7. ASSUME NEW lang \in Languages, NEW n \in 1 .. MaxBar,
               NEW ends \in [1 .. n -> Ends], StartBar(lang, ends)
        PROVE  Short(out')
    <2>1. \/ Overlong /\ out' = out \o RawBars
          \/ out' = out \o Collected
          \/ out' = out
      BY <1>7, BarTaken
    <2> QED BY <1>1, <1>2, <1>3, <1>4, <1>5, <2>1, ShortConcat
  <1>8. ASSUME NEW lang \in Languages, SpecialBar(lang)
        PROVE  Short(out')
    <2> DEFINE e == Yield(lang, <<Len(input) + 1>>)
    <2>1. e \in Output
      BY <1>8, SpecialTaken
    <2>2. PICK before \in Seq(Output) :
            /\ \/ Overlong /\ before = RawBars
               \/ ~Overlong /\ before = Collected
            /\ out' = Append(out \o before, e)
      BY <1>8, SpecialTaken
    <2>3. Len(e.atoms) <= Limit + MaxBar
      BY <1>0 DEF Yield
    <2>4. out \o before \in Seq(Output) /\ Short(out \o before)
      BY <1>1, <1>2, <1>3, <1>4, <2>2, ShortConcat, ConcatProperties
    <2> QED BY <2>1, <2>2, <2>3, <2>4, ShortAppend
  <1>9. ASSUME VisitAtom PROVE Short(out')
    <2> DEFINE a == Head(pending)
               e == Yield(acc.lang, Append(acc.atoms, a))
    <2>1. /\ pending # <<>> /\ pending \in Seq(Places) /\ a \in Places
          /\ acc.lang \in Languages /\ acc.atoms \in Seq(Places)
      BY <1>9, AtomVisited DEF SentenceTypes
    <2>2. /\ Append(acc.atoms, a) \in Seq(Places)
          /\ Len(Append(acc.atoms, a)) = Len(acc.atoms) + 1
      BY <2>1, AppendProperties
    <2>3. e \in Output
      <3>1. Places \subseteq Nat
        BY LenProperties DEF Places, SentenceTypes
      <3>2. Append(acc.atoms, a) \in Seq(Nat)
        BY <2>2, <3>1, Widening
      <3> QED BY <2>1, <3>2 DEF Yield, Output
    <2>4. Len(e.atoms) <= Limit + MaxBar
      <3>1. Len(pending) # 0
        BY <2>1, EmptySeq
      <3>2. Len(acc.atoms) + Len(pending) <= Limit + MaxBar
        BY DEF ListsAreBounded
      <3>3. e.atoms = Append(acc.atoms, a)
        BY DEF Yield
      <3> HIDE DEF e
      <3> QED BY <1>0, <1>1, <2>2, <3>1, <3>2, <3>3
    <2>5. out' = out \/ out' = Append(out, e)
      BY <1>9, AtomVisited
    <2> HIDE DEF e
    <2> QED BY <1>1, <1>2, <2>3, <2>4, <2>5, ShortAppend
  <1>10. ASSUME EndOfInput PROVE Short(out')
    <2>1. out' = out \o Collected
      BY <1>10 DEF EndOfInput
    <2> QED BY <1>1, <1>2, <1>3, <1>5, <2>1, ShortConcat
  <1> QED BY <1>7, <1>8, <1>9, <1>10 DEF SentenceNext

-----------------------------------------------------------------------------
(* Order                                                                   *)

Increasing(s) == \A m, n \in DOMAIN s : m < n => s[m] < s[n]

\* Everything in the sentences of o comes before everything in s.
Precede(o, s) ==
  \A i \in DOMAIN o : ~o[i].raw =>
    \A m \in DOMAIN o[i].atoms, n \in DOMAIN s : o[i].atoms[m] < s[n]

InOrder(o) ==
  \A i, j \in DOMAIN o : ~o[i].raw /\ ~o[j].raw =>
    \A m \in DOMAIN o[i].atoms, n \in DOMAIN o[j].atoms :
      i < j \/ (i = j /\ m < n) => o[i].atoms[m] < o[j].atoms[n]

\* The sentences of o hold nothing beyond place b.
UpTo(o, b) ==
  \A i \in DOMAIN o : ~o[i].raw => \A m \in DOMAIN o[i].atoms : o[i].atoms[m] <= b

\* Sentences yielded, then what was collected, then what is still to be visited.
FlowInOrder ==
  /\ InOrder(out)
  /\ Precede(out, acc.atoms)
  /\ UpTo(out, Taken)
  /\ Increasing(acc.atoms)
  /\ \A m \in DOMAIN acc.atoms : acc.atoms[m] <= Taken

\* The elements of an output that got one more.
LEMMA OutputAppend ==
  ASSUME NEW o \in Seq(Output), NEW e \in Output
  PROVE  /\ DOMAIN o = 1 .. Len(o) /\ Len(o) \in Nat
         /\ DOMAIN Append(o, e) = 1 .. Len(o) + 1
         /\ \A i \in 1 .. Len(o) : Append(o, e)[i] = o[i]
         /\ Append(o, e)[Len(o) + 1] = e
         /\ \A i \in DOMAIN Append(o, e) : i \in 1 .. Len(o) \/ i = Len(o) + 1
  <1>1. /\ Append(o, e) \in Seq(Output)
        /\ Len(Append(o, e)) = Len(o) + 1
        /\ \A i \in 1 .. Len(o) : Append(o, e)[i] = o[i]
        /\ Append(o, e)[Len(o) + 1] = e
    BY AppendProperties
  <1>2. DOMAIN o = 1 .. Len(o) /\ DOMAIN Append(o, e) = 1 .. Len(o) + 1 /\ Len(o) \in Nat
    BY <1>1, LenProperties
  <1> QED BY <1>1, <1>2

\* One more sentence behind all others.
LEMMA AppendInOrder ==
  ASSUME NEW o \in Seq(Output), NEW e \in Output, ~e.raw,
         InOrder(o), Precede(o, e.atoms), Increasing(e.atoms)
  PROVE  InOrder(Append(o, e))
  <1> DEFINE p == Append(o, e)
  <1>1. /\ DOMAIN o = 1 .. Len(o) /\ Len(o) \in Nat
        /\ \A i \in 1 .. Len(o) : p[i] = o[i]
        /\ p[Len(o) + 1] = e
        /\ \A i \in DOMAIN p : i \in 1 .. Len(o) \/ i = Len(o) + 1
    BY OutputAppend
  <1> HIDE DEF p
  <1> SUFFICES ASSUME NEW i \in DOMAIN p, NEW j \in DOMAIN p, ~p[i].raw, ~p[j].raw,
                      NEW m \in DOMAIN p[i].atoms, NEW n \in DOMAIN p[j].atoms,
                      i < j \/ (i = j /\ m < n)
               PROVE  p[i].atoms[m] < p[j].atoms[n]
    BY DEF InOrder, p
  <1>2. CASE i \in 1 .. Len(o) /\ j \in 1 .. Len(o)
    BY <1>1, <1>2 DEF InOrder
  <1>3. CASE i \in 1 .. Len(o) /\ j = Len(o) + 1
    BY <1>1, <1>3 DEF Precede
  <1>4. CASE i = Len(o) + 1 /\ j = Len(o) + 1
    <2>1. m < n
      BY <1>1, <1>4
    <2> QED BY <1>1, <1>4, <2>1 DEF Increasing
  <1>5. ~(i = Len(o) + 1 /\ j \in 1 .. Len(o))
    BY <1>1
  <1> QED BY <1>1, <1>2, <1>3, <1>4, <1>5

LEMMA AppendPrecedes ==
  ASSUME NEW o \in Seq(Output), NEW e \in Output, NEW s, Precede(o, s),
         \A m \in DOMAIN e.atoms, n \in DOMAIN s : e.atoms[m] < s[n]
  PROVE  Precede(Append(o, e), s)
  <1> DEFINE p == Append(o, e)
  <1>1. /\ DOMAIN o = 1 .. Len(o) /\ Len(o) \in Nat
        /\ \A i \in 1 .. Len(o) : p[i] = o[i]
        /\ p[Len(o) + 1] = e
        /\ \A i \in DOMAIN p : i \in 1 .. Len(o) \/ i = Len(o) + 1
    BY OutputAppend
  <1> HIDE DEF p
  <1>2. Precede(p, s)
    BY <1>1 DEF Precede
  <1> QED BY <1>2 DEF p

LEMMA AppendUpTo ==
  ASSUME NEW o \in Seq(Output), NEW e \in Output, NEW b, UpTo(o, b),
         \A m \in DOMAIN e.atoms : e.atoms[m] <= b
  PROVE  UpTo(Append(o, e), b)
  <1> DEFINE p == Append(o, e)
  <1>1. /\ DOMAIN o = 1 .. Len(o) /\ Len(o) \in Nat
        /\ \A i \in 1 .. Len(o) : p[i] = o[i]
        /\ p[Len(o) + 1] = e
        /\ \A i \in DOMAIN p : i \in 1 .. Len(o) \/ i = Len(o) + 1
    BY OutputAppend
  <1> HIDE DEF p
  <1>2. UpTo(p, b)
    BY <1>1 DEF UpTo
  <1> QED BY <1>2 DEF p

\* Raw bars are no sentences: they disturb no order.
LEMMA RawKeepsOrder ==
  ASSUME NEW o \in Seq(Output), NEW e \in Seq(Output), \A i \in DOMAIN e : e[i].raw
  PROVE  /\ InOrder(o) => InOrder(o \o e)
         /\ \A s : Precede(o, s) => Precede(o \o e, s)
         /\ \A b : UpTo(o, b) => UpTo(o \o e, b)
  <1> DEFINE p == o \o e
  <1>1. /\ p \in Seq(Output)
        /\ Len(p) = Len(o) + Len(e)
        /\ \A i \in 1 .. Len(o) + Len(e) :
             p[i] = IF i <= Len(o) THEN o[i] ELSE e[i - Len(o)]
    BY ConcatProperties
  <1> HIDE DEF p
  <1>2. /\ DOMAIN o = 1 .. Len(o) /\ DOMAIN e = 1 .. Len(e)
        /\ DOMAIN p = 1 .. Len(o) + Len(e)
        /\ Len(o) \in Nat /\ Len(e) \in Nat
    BY <1>1, LenProperties
  <1>3. ASSUME NEW i \in DOMAIN p, ~p[i].raw PROVE i \in DOMAIN o /\ p[i] = o[i]
    <2>1. i <= Len(o)
      <3> SUFFICES ASSUME ~(i <= Len(o)) PROVE FALSE
        OBVIOUS
      <3>1. i - Len(o) \in DOMAIN e /\ p[i] = e[i - Len(o)]
        BY <1>1, <1>2
      <3> QED BY <1>3, <3>1
    <2> QED BY <1>1, <1>2, <2>1
  <1>4. InOrder(o) => InOrder(p)
    BY <1>3 DEF InOrder
  <1>5. \A s : Precede(o, s) => Precede(p, s)
    BY <1>3 DEF Precede
  <1>6. \A b : UpTo(o, b) => UpTo(p, b)
    BY <1>3 DEF UpTo
  <1> QED BY <1>4, <1>5, <1>6 DEF p

LEMMA OutputPlaces ==
  ASSUME NEW o \in Seq(Output), NEW i \in DOMAIN o, NEW m \in DOMAIN o[i].atoms
  PROVE  o[i].atoms[m] \in Nat
  <1>1. o[i] \in Output
    BY LenProperties, ElementOfSeq
  <1>2. o[i].atoms \in Seq(Nat)
    BY <1>1 DEF Output
  <1> QED BY <1>2, LenProperties, ElementOfSeq

LEMMA UpToPrecedes ==
  ASSUME NEW o \in Seq(Output), NEW b \in Nat, UpTo(o, b)
  PROVE  Precede(o, <<b + 1>>) /\ UpTo(o, b + 1)
  <1>1. ASSUME NEW i \in DOMAIN o, ~o[i].raw, NEW m \in DOMAIN o[i].atoms
        PROVE  o[i].atoms[m] < b + 1 /\ o[i].atoms[m] <= b + 1
    <2>1. o[i].atoms[m] \in Nat
      BY OutputPlaces
    <2>2. o[i].atoms[m] <= b
      BY <1>1 DEF UpTo
    <2> QED BY <2>1, <2>2
  <1>2. DOMAIN <<b + 1>> = {1} /\ <<b + 1>>[1] = b + 1
    OBVIOUS
  <1>3. Precede(o, <<b + 1>>)
    BY <1>1, <1>2 DEF Precede
  <1>4. UpTo(o, b + 1)
    BY <1>1 DEF UpTo
  <1> QED BY <1>3, <1>4

\* What was collected may be yielded at any time.
LEMMA CollectedKeepsOrder ==
  ASSUME SentenceTypes, FlowInOrder
  PROVE  InOrder(out \o Collected) /\ UpTo(out \o Collected, Taken)
  <1>1. out \in Seq(Output) /\ Collected \in Seq(Output)
    BY Emissions DEF SentenceTypes
  <1>2. CASE acc.atoms = <<>>
    <2>1. out \o Collected = out
      BY <1>1, <1>2, ConcatEmptySeq DEF Collected
    <2> QED BY <2>1 DEF FlowInOrder
  <1>3. CASE acc.atoms # <<>>
    <2> DEFINE e == Yield(acc.lang, acc.atoms)
    <2>1. Collected = <<e>>
      BY <1>3 DEF Collected
    <2>2. e \in Output
      <3>1. Collected[1] \in Output
        BY <1>1, <2>1, ElementOfSeq
      <3> QED BY <2>1, <3>1
    <2>3. e.atoms = acc.atoms /\ ~e.raw
      BY DEF Yield
    <2> HIDE DEF e
    <2>4. out \o Collected = Append(out, e)
      BY <1>1, <2>1, <2>2, AppendIsConcat
    <2>5. InOrder(Append(out, e))
      BY <1>1, <2>2, <2>3, AppendInOrder DEF FlowInOrder
    <2>6. UpTo(Append(out, e), Taken)
      BY <1>1, <2>2, <2>3, AppendUpTo DEF FlowInOrder
    <2> QED BY <2>4, <2>5, <2>6
  <1> QED BY <1>2, <1>3

\* The bars emitted instead of it leave the order alone.
LEMMA RawBarsKeepOrder ==
  ASSUME SentenceTypes, FlowInOrder, Overlong
  PROVE  InOrder(out \o RawBars) /\ UpTo(out \o RawBars, Taken)
  <1>1. acc.atoms # <<>>
    BY LimitsAssumption, EmptySeq DEF Overlong
  <1>2. out \in Seq(Output) /\ RawBars \in Seq(Output)
    BY <1>1, Emissions DEF SentenceTypes
  <1>3. \A i \in DOMAIN RawBars : RawBars[i].raw
    BY DEF RawBars
  <1>4. InOrder(out) /\ UpTo(out, Taken)
    BY DEF FlowInOrder
  <1> QED BY <1>2, <1>3, <1>4, RawKeepsOrder

LEMMA NextFlow ==
  ASSUME SentenceTypes, PendingIsRest, FlowInOrder, SentenceNext
  PROVE  FlowInOrder'
  <1>0. DOMAIN <<>> = {}
    OBVIOUS
  <1>1. Len(input) \in Nat /\ Len(pending) \in Nat /\ Taken \in Nat
    BY LenProperties DEF SentenceTypes, PendingIsRest, Taken
  <1>2. ASSUME InOrder(out'), UpTo(out', Taken'), acc'.atoms = <<>>
        PROVE  FlowInOrder'
    BY <1>0, <1>2 DEF FlowInOrder, InOrder, UpTo, Precede, Increasing
  <1>3. ASSUME NEW lang \in Languages, NEW n \in 1 .. MaxBar,
               NEW ends \in [1 .. n -> Ends], StartBar(lang, ends)
        PROVE  FlowInOrder'
    <2>1. Taken' = Taken
      <3>1. /\ pending = <<>> /\ n \in Nat
            /\ Len(input') = Len(input) + n /\ Len(pending') = n
        BY <1>3, BarTaken
      <3> QED BY <1>1, <3>1 DEF Taken
    <2>2. CASE Overlong /\ out' = out \o RawBars /\ acc'.atoms = <<>>
      BY <1>2, <2>1, <2>2, RawBarsKeepOrder
    <2>3. CASE out' = out \o Collected /\ acc'.atoms = <<>>
      BY <1>2, <2>1, <2>3, CollectedKeepsOrder
    <2>4. CASE out' = out /\ acc'.atoms = acc.atoms
      BY <2>1, <2>4 DEF FlowInOrder, InOrder, UpTo, Precede, Increasing
    <2> QED BY <1>3, <2>2, <2>3, <2>4, BarTaken
  <1>4. ASSUME NEW lang \in Languages, SpecialBar(lang)
        PROVE  FlowInOrder'
    <2> DEFINE e == Yield(lang, <<Len(input) + 1>>)
    <2>1. /\ pending = <<>> /\ pending' = pending /\ Len(input') = Len(input) + 1
          /\ e \in Output /\ acc'.atoms = <<>>
      BY <1>4, SpecialTaken DEF SentenceTypes
    <2>2. Taken = Len(input) /\ Taken' = Taken + 1
      BY <1>1, <2>1 DEF Taken
    <2>3. e.atoms = <<Taken + 1>> /\ ~e.raw
      BY <2>2 DEF Yield
    <2>4. PICK before \in Seq(Output) :
            /\ \/ Overlong /\ before = RawBars
               \/ ~Overlong /\ before = Collected
            /\ out' = Append(out \o before, e)
      BY <1>4, SpecialTaken
    <2> HIDE DEF e
    <2>5. InOrder(out \o before) /\ UpTo(out \o before, Taken)
      BY <2>4, RawBarsKeepOrder, CollectedKeepsOrder
    <2>6. out \o before \in Seq(Output)
      BY <2>4, ConcatProperties DEF SentenceTypes
    <2>7. Precede(out \o before, e.atoms) /\ UpTo(out \o before, Taken')
      BY <1>1, <2>2, <2>3, <2>5, <2>6, UpToPrecedes
    <2>8. Increasing(e.atoms) /\ \A m \in DOMAIN e.atoms : e.atoms[m] <= Taken'
      BY <1>1, <2>2, <2>3 DEF Increasing
    <2>9. InOrder(out') /\ UpTo(out', Taken')
      BY <2>1, <2>3, <2>4, <2>5, <2>6, <2>7, <2>8, AppendInOrder, AppendUpTo
    <2> QED BY <1>2, <2>1, <2>9
  <1>5. ASSUME VisitAtom PROVE FlowInOrder'
    <2> DEFINE a == Head(pending)
               collected == Append(acc.atoms, a)
    <2>1. /\ pending # <<>> /\ pending \in Seq(Places) /\ pending' = Tail(pending)
          /\ a \in Places /\ a = Taken + 1 /\ input' = input
          /\ acc.lang \in Languages
      BY <1>5, AtomVisited
    <2>2. Taken' = Taken + 1
      <3>1. Len(Tail(pending)) = Len(pending) - 1
        BY <2>1, HeadTailProperties
      <3> QED BY <1>1, <2>1, <3>1 DEF Taken
    <2>3. acc.atoms \in Seq(Places) /\ out \in Seq(Output)
      BY DEF SentenceTypes
    <2>4. /\ collected \in Seq(Places)
          /\ Len(collected) = Len(acc.atoms) + 1
          /\ \A i \in 1 .. Len(acc.atoms) : collected[i] = acc.atoms[i]
          /\ collected[Len(acc.atoms) + 1] = Taken + 1
      BY <2>1, <2>3, AppendProperties
    <2>5. /\ DOMAIN acc.atoms = 1 .. Len(acc.atoms) /\ Len(acc.atoms) \in Nat
          /\ DOMAIN collected = 1 .. Len(acc.atoms) + 1
      BY <2>3, <2>4, LenProperties
    <2>6. \A m \in DOMAIN acc.atoms : acc.atoms[m] \in Nat /\ acc.atoms[m] <= Taken
      <3>1. \A m \in DOMAIN acc.atoms : acc.atoms[m] \in Places
        BY <2>3, <2>5, ElementOfSeq
      <3>2. Places \subseteq Nat
        BY <1>1 DEF Places
      <3> QED BY <3>1, <3>2 DEF FlowInOrder
    <2> HIDE DEF collected
    <2>7. \A m \in DOMAIN collected :
            \/ m \in DOMAIN acc.atoms /\ collected[m] = acc.atoms[m]
            \/ m = Len(acc.atoms) + 1 /\ collected[m] = Taken + 1
      BY <2>4, <2>5
    <2>8. Increasing(collected)
      <3> SUFFICES ASSUME NEW m \in DOMAIN collected, NEW n \in DOMAIN collected, m < n
                   PROVE  collected[m] < collected[n]
        BY DEF Increasing
      <3>1. m \in DOMAIN acc.atoms /\ collected[m] = acc.atoms[m]
        BY <2>5, <2>7
      <3>2. CASE n \in DOMAIN acc.atoms /\ collected[n] = acc.atoms[n]
        BY <3>1, <3>2 DEF FlowInOrder, Increasing
      <3>3. CASE collected[n] = Taken + 1
        BY <1>1, <2>6, <3>1, <3>3
      <3> QED BY <2>7, <3>2, <3>3
    <2>9. \A m \in DOMAIN collected : collected[m] <= Taken'
      BY <1>1, <2>2, <2>6, <2>7
    <2>10. Precede(out, collected)
      <3> SUFFICES ASSUME NEW i \in DOMAIN out, ~out[i].raw,
                          NEW m \in DOMAIN out[i].atoms, NEW n \in DOMAIN collected
                   PROVE  out[i].atoms[m] < collected[n]
        BY DEF Precede
      <3>1. out[i].atoms[m] \in Nat /\ out[i].atoms[m] <= Taken
        BY <2>3, OutputPlaces DEF FlowInOrder, UpTo
      <3>2. CASE n \in DOMAIN acc.atoms /\ collected[n] = acc.atoms[n]
        BY <3>2 DEF FlowInOrder, Precede
      <3>3. CASE collected[n] = Taken + 1
        BY <1>1, <3>1, <3>3
      <3> QED BY <2>7, <3>2, <3>3
    <2>11. InOrder(out) /\ UpTo(out, Taken')
      BY <1>1, <2>2, <2>3, UpToPrecedes DEF FlowInOrder
    <2>12. CASE Splits(a)
      <3> DEFINE e == Yield(acc.lang, collected)
      <3>1. out' = Append(out, e) /\ acc'.atoms = <<>>
        BY <1>5, <2>12, AtomVisited DEF collected
      <3>2. e \in Output
        <4>1. Places \subseteq Nat
          BY <1>1 DEF Places
        <4>2. collected \in Seq(Nat)
          BY <2>4, <4>1, Widening
        <4> QED BY <2>1, <4>2 DEF Yield, Output
      <3>3. e.atoms = collected /\ ~e.raw
        BY DEF Yield
      <3> HIDE DEF e
      <3>4. InOrder(out') /\ UpTo(out', Taken')
        BY <2>3, <2>8, <2>9, <2>10, <2>11, <3>1, <3>2, <3>3, AppendInOrder, AppendUpTo
      <3> QED BY <1>2, <3>1, <3>4
    <2>13. CASE ~Splits(a)
      <3>1. out' = out /\ acc'.atoms = collected
        BY <1>5, <2>13, AtomVisited DEF collected
      <3>2. /\ InOrder(out') /\ Precede(out', acc'.atoms) /\ UpTo(out', Taken')
            /\ Increasing(acc'.atoms)
            /\ \A m \in DOMAIN acc'.atoms : acc'.atoms[m] <= Taken'
        BY <2>8, <2>9, <2>10, <2>11, <3>1
      <3> QED BY <3>2 DEF FlowInOrder, InOrder, Precede, UpTo, Increasing
    <2> QED BY <2>12, <2>13
  <1>6. ASSUME EndOfInput PROVE FlowInOrder'
    <2>1. out' = out \o Collected /\ acc'.atoms = <<>> /\ Taken' = Taken
      BY <1>6 DEF EndOfInput, SentenceTypes, Taken
    <2> QED BY <1>2, <2>1, CollectedKeepsOrder
  <1> QED BY <1>3, <1>4, <1>5, <1>6 DEF SentenceNext

-----------------------------------------------------------------------------
(* Sentences                                                               *)

\* Places of text that can make up one paragraph in lang.
FitsTogether(text, lang, s) ==
  \A m \in 1 .. Len(s) :
    /\ s[m] \in 1 .. Len(text)
    /\ text[s[m]].lang = lang
    /\ m < Len(s) => text[s[m]].ends # "end"
    /\ text[s[m]].special => Len(s) = 1

\* A reason to break after place a; over: there is no more text.
MayEndAt(text, over, a) ==
  \/ text[a].ends = "end"
  \/ text[a].ends = "protected" /\ text[a].closes
  \/ text[a].special
  \/ a = Len(text) /\ over
  \/ /\ a < Len(text)
     /\ text[a + 1].lang # text[a].lang \/ text[a + 1].special

IsSentence(text, over, e) ==
  ~e.raw =>
    /\ e.atoms # <<>>
    /\ FitsTogether(text, e.lang, e.atoms)
    /\ MayEndAt(text, over, e.atoms[Len(e.atoms)])

AllSentences(text, over, o) == \A i \in 1 .. Len(o) : IsSentence(text, over, o[i])

SentencesSoFar == AllSentences(input, done, out)

\* What was collected runs up to what is still to be visited and could go on with
\* it; if nothing is to be visited, the input ends with a bar.
Gathered ==
  /\ \A m \in 1 .. Len(acc.atoms) :
       LET a == input[acc.atoms[m]] IN
       /\ a.lang = acc.lang
       /\ ~a.special
       /\ m < Len(acc.atoms) \/ pending # <<>> => a.ends # "end"
  /\ acc.atoms # <<>> => acc.atoms[Len(acc.atoms)] = Taken
  /\ \A i \in 1 .. Len(pending) :
       input[pending[i]].lang = acc.lang /\ ~input[pending[i]].special
  /\ pending = <<>> /\ input # <<>> => input[Len(input)].closes

\* longer begins with text, and grows only as long as the text is not over.
Continues(text, over, longer, later) ==
  /\ Len(text) \in Nat /\ Len(longer) \in Nat /\ Len(text) <= Len(longer)
  /\ \A i \in 1 .. Len(text) : longer[i] = text[i]
  /\ over => later /\ Len(longer) = Len(text)

\* A sentence stays one.
LEMMA StillASentence ==
  ASSUME NEW text, NEW over, NEW longer, NEW later, Continues(text, over, longer, later),
         NEW e \in Output, IsSentence(text, over, e)
  PROVE  IsSentence(longer, later, e)
  <1> SUFFICES ASSUME ~e.raw
               PROVE  /\ e.atoms # <<>>
                      /\ FitsTogether(longer, e.lang, e.atoms)
                      /\ MayEndAt(longer, later, e.atoms[Len(e.atoms)])
    BY DEF IsSentence
  <1>1. e.atoms # <<>> /\ e.atoms \in Seq(Nat) /\ Len(e.atoms) \in Nat \ {0}
    BY EmptySeq, LenProperties DEF IsSentence, Output
  <1>2. FitsTogether(text, e.lang, e.atoms)
    BY DEF IsSentence
  <1> DEFINE a == e.atoms[Len(e.atoms)]
  <1>3. a \in 1 .. Len(text) /\ MayEndAt(text, over, a)
    BY <1>1, <1>2 DEF IsSentence, FitsTogether
  <1> HIDE DEF a
  <1>4. FitsTogether(longer, e.lang, e.atoms)
    BY <1>2 DEF FitsTogether, Continues
  <1>5. longer[a] = text[a] /\ a \in 1 .. Len(longer)
    BY <1>3 DEF Continues
  <1>6. MayEndAt(longer, later, a)
    <2>1. CASE text[a].ends = "end" \/ (text[a].ends = "protected" /\ text[a].closes) \/ text[a].special
      BY <1>5, <2>1 DEF MayEndAt
    <2>2. CASE a = Len(text) /\ over
      BY <2>2 DEF MayEndAt, Continues
    <2>3. CASE a < Len(text) /\ (text[a + 1].lang # text[a].lang \/ text[a + 1].special)
      <3>1. a + 1 \in 1 .. Len(text) /\ a < Len(longer)
        BY <1>3, <2>3 DEF Continues
      <3>2. longer[a + 1] = text[a + 1]
        BY <3>1 DEF Continues
      <3> QED BY <1>5, <2>3, <3>1, <3>2 DEF MayEndAt
    <2> QED BY <1>3, <2>1, <2>2, <2>3 DEF MayEndAt
  <1> QED BY <1>1, <1>4, <1>6 DEF a

LEMMA StillSentences ==
  ASSUME NEW text, NEW over, NEW longer, NEW later, Continues(text, over, longer, later),
         NEW o \in Seq(Output), AllSentences(text, over, o)
  PROVE  AllSentences(longer, later, o)
  BY StillASentence, ElementOfSeq DEF AllSentences

LEMMA OneMoreSentence ==
  ASSUME NEW text, NEW over, NEW o \in Seq(Output), NEW e \in Output,
         AllSentences(text, over, o), IsSentence(text, over, e)
  PROVE  AllSentences(text, over, Append(o, e))
  <1> DEFINE p == Append(o, e)
  <1>1. /\ Len(o) \in Nat /\ Len(p) = Len(o) + 1
        /\ \A i \in 1 .. Len(o) : p[i] = o[i]
        /\ p[Len(o) + 1] = e
    BY AppendProperties, LenProperties
  <1> HIDE DEF p
  <1>2. ASSUME NEW i \in 1 .. Len(p) PROVE IsSentence(text, over, p[i])
    <2>1. CASE i \in 1 .. Len(o)
      BY <1>1, <2>1 DEF AllSentences
    <2>2. CASE i = Len(o) + 1
      BY <1>1, <2>2
    <2> QED BY <1>1, <2>1, <2>2
  <1> QED BY <1>2 DEF AllSentences, p

\* Raw bars do not claim to be sentences.
LEMMA RawBarsAside ==
  ASSUME NEW text, NEW over, SentenceTypes, Overlong, AllSentences(text, over, out)
  PROVE  AllSentences(text, over, out \o RawBars)
  <1> DEFINE p == out \o RawBars
  <1>1. acc.atoms # <<>>
    BY LimitsAssumption, EmptySeq DEF Overlong
  <1>2. out \in Seq(Output) /\ RawBars \in Seq(Output)
    BY <1>1, Emissions DEF SentenceTypes
  <1>3. /\ Len(p) = Len(out) + Len(RawBars)
        /\ \A i \in 1 .. Len(out) + Len(RawBars) :
             p[i] = IF i <= Len(out) THEN out[i] ELSE RawBars[i - Len(out)]
    BY <1>2, ConcatProperties
  <1>4. Len(out) \in Nat /\ Len(RawBars) \in Nat
    BY <1>2, LenProperties
  <1> HIDE DEF p
  <1>5. ASSUME NEW i \in 1 .. Len(p) PROVE IsSentence(text, over, p[i])
    <2>1. CASE i <= Len(out)
      BY <1>3, <1>4, <2>1 DEF AllSentences
    <2>2. CASE ~(i <= Len(out))
      <3>1. i - Len(out) \in 1 .. Len(RawBars) /\ p[i] = RawBars[i - Len(out)]
        BY <1>3, <1>4, <2>2
      <3>2. p[i].raw
        BY <3>1, Emissions
      <3> QED BY <3>2 DEF IsSentence
    <2> QED BY <2>1, <2>2
  <1> QED BY <1>5 DEF AllSentences, p

\* What was collected may come out where there is a reason to break.
LEMMA CollectedIsSentence ==
  ASSUME SentenceTypes, Gathered, NEW text, NEW over,
         Continues(input, FALSE, text, over), AllSentences(text, over, out),
         acc.atoms # <<>> => MayEndAt(text, over, Taken)
  PROVE  AllSentences(text, over, out \o Collected)
  <1>1. out \in Seq(Output) /\ Collected \in Seq(Output)
    BY Emissions DEF SentenceTypes
  <1>2. CASE acc.atoms = <<>>
    <2>1. out \o Collected = out
      BY <1>1, <1>2, ConcatEmptySeq DEF Collected
    <2> QED BY <2>1
  <1>3. CASE acc.atoms # <<>>
    <2> DEFINE e == Yield(acc.lang, acc.atoms)
    <2>1. Collected = <<e>>
      BY <1>3 DEF Collected
    <2>2. e \in Output
      <3>1. Collected[1] \in Output
        BY <1>1, <2>1, ElementOfSeq
      <3> QED BY <2>1, <3>1
    <2>3. e.atoms = acc.atoms /\ e.lang = acc.lang
      BY DEF Yield
    <2> HIDE DEF e
    <2>4. out \o Collected = Append(out, e)
      BY <1>1, <2>1, <2>2, AppendIsConcat
    <2>5. FitsTogether(text, acc.lang, acc.atoms)
      <3> SUFFICES ASSUME NEW m \in 1 .. Len(acc.atoms)
                   PROVE  /\ acc.atoms[m] \in 1 .. Len(text)
                          /\ text[acc.atoms[m]].lang = acc.lang
                          /\ m < Len(acc.atoms) => text[acc.atoms[m]].ends # "end"
                          /\ ~text[acc.atoms[m]].special
        BY DEF FitsTogether
      <3>1. acc.atoms[m] \in 1 .. Len(input)
        BY ElementOfSeq DEF SentenceTypes, Places
      <3>2. text[acc.atoms[m]] = input[acc.atoms[m]] /\ acc.atoms[m] \in 1 .. Len(text)
        BY <3>1 DEF Continues
      <3> QED BY <3>2 DEF Gathered
    <2>6. acc.atoms[Len(acc.atoms)] = Taken
      BY <1>3 DEF Gathered
    <2>7. IsSentence(text, over, e)
      BY <1>3, <2>3, <2>5, <2>6 DEF IsSentence
    <2> QED BY <1>1, <2>2, <2>4, <2>7, OneMoreSentence
  <1> QED BY <1>2, <1>3

LEMMA NextSentences ==
  ASSUME SentenceTypes, PendingIsRest, Gathered, SentencesSoFar, SentenceNext
  PROVE  SentencesSoFar'
  <1>1. /\ Len(input) \in Nat /\ Len(pending) \in Nat /\ out \in Seq(Output)
        /\ acc.atoms \in Seq(Places)
    BY LenProperties DEF SentenceTypes
  <1>2. AllSentences(input, done, out)
    BY DEF SentencesSoFar
  <1>3. SUFFICES AllSentences(input', done', out')
    BY DEF SentencesSoFar
  <1>4. ASSUME pending = <<>>, acc.atoms # <<>>
        PROVE  /\ Taken = Len(input) /\ Taken \in 1 .. Len(input)
               /\ input[Taken].lang = acc.lang
               /\ input[Taken].closes
               /\ acc.atoms[Len(acc.atoms)] = Taken
    <2>1. Len(acc.atoms) \in Nat \ {0}
      BY <1>1, <1>4, EmptySeq, LenProperties
    <2>2. Taken = Len(input) /\ acc.atoms[Len(acc.atoms)] = Taken
      BY <1>1, <1>4, EmptySeq DEF Taken, Gathered
    <2>3. Len(acc.atoms) \in 1 .. Len(acc.atoms)
      BY <2>1
    <2>4. acc.atoms[Len(acc.atoms)] \in Places
      BY <1>1, <2>3, ElementOfSeq
    <2>5. Taken \in 1 .. Len(input)
      BY <2>2, <2>4 DEF Places
    <2>6. input[Taken].lang = acc.lang
      BY <2>2, <2>3 DEF Gathered
    <2>7. input # <<>>
      BY <1>1, <2>5, EmptySeq
    <2>8. input[Taken].closes
      BY <1>4, <2>2, <2>7 DEF Gathered
    <2> QED BY <2>2, <2>5, <2>6, <2>8
  <1>5. ASSUME NEW lang \in Languages, NEW n \in 1 .. MaxBar,
               NEW ends \in [1 .. n -> Ends], StartBar(lang, ends)
        PROVE  AllSentences(input', done', out')
    <2>1. /\ pending = <<>> /\ done' = done /\ n \in Nat \ {0}
          /\ Len(input') = Len(input) + n
          /\ \A i \in 1 .. Len(input) : input'[i] = input[i]
          /\ \A i \in 1 .. n : input'[Len(input) + i].lang = lang
      BY <1>5, BarTaken
    <2>2. ~done
      BY <1>5 DEF StartBar
    <2>3. Continues(input, FALSE, input', done') /\ Continues(input, done, input', done')
      BY <1>1, <2>1, <2>2 DEF Continues
    <2>4. AllSentences(input', done', out)
      BY <1>1, <1>2, <2>3, StillSentences
    <2>5. ASSUME acc.atoms # <<>>, EndsBefore(lang) PROVE MayEndAt(input', done', Taken)
      <3>1. input'[Taken] = input[Taken] /\ Taken < Len(input')
        BY <1>1, <1>4, <2>1, <2>5
      <3>2. CASE acc.lang # lang
        <4>1. 1 \in 1 .. n
          BY <2>1
        <4>2. input'[Taken + 1].lang = lang
          BY <1>4, <2>1, <2>5, <4>1
        <4> QED BY <1>4, <2>1, <2>5, <3>1, <3>2, <4>2 DEF MayEndAt
      <3>3. CASE input[Taken].ends # "none"
        <4>1. input[Taken].ends \in Ends
          <5>1. Taken \in 1 .. Len(input)
            BY <1>4, <2>1, <2>5
          <5>2. input \in Seq(Atom)
            BY DEF SentenceTypes
          <5>3. input[Taken] \in Atom
            BY <5>1, <5>2, ElementOfSeq
          <5> QED BY <5>3 DEF Atom
        <4> QED BY <1>4, <2>1, <2>5, <3>1, <3>3, <4>1 DEF MayEndAt, Ends
      <3> QED BY <1>4, <2>1, <2>5, <3>2, <3>3 DEF EndsBefore
    <2>6. CASE Overlong /\ out' = out \o RawBars
      BY <2>4, <2>6, RawBarsAside
    <2>7. CASE ~Overlong /\ out' = out \o Collected /\ acc'.atoms = <<>>
      <3>1. acc.atoms # <<>> => EndsBefore(lang)
        BY <1>5, <2>7 DEF StartBar
      <3> QED BY <2>3, <2>4, <2>5, <2>7, <3>1, CollectedIsSentence
    <2>8. CASE out' = out
      BY <2>4, <2>8
    <2> QED BY <1>5, <2>6, <2>7, <2>8, BarTaken
  <1>6. ASSUME NEW lang \in Languages, SpecialBar(lang)
        PROVE  AllSentences(input', done', out')
    <2> DEFINE e == Yield(lang, <<Len(input) + 1>>)
    <2>1. /\ pending = <<>> /\ done' = done
          /\ Len(input') = Len(input) + 1
          /\ \A i \in 1 .. Len(input) : input'[i] = input[i]
          /\ input'[Len(input) + 1].lang = lang
          /\ input'[Len(input) + 1].special
          /\ e \in Output
      BY <1>6, SpecialTaken
    <2>2. ~done
      BY <1>6 DEF SpecialBar
    <2>3. Continues(input, FALSE, input', done') /\ Continues(input, done, input', done')
      BY <1>1, <2>1, <2>2 DEF Continues
    <2>4. AllSentences(input', done', out)
      BY <1>1, <1>2, <2>3, StillSentences
    <2>5. acc.atoms # <<>> => MayEndAt(input', done', Taken)
      BY <1>1, <1>4, <2>1 DEF MayEndAt
    <2>6. PICK before \in Seq(Output) :
            /\ \/ Overlong /\ before = RawBars
               \/ ~Overlong /\ before = Collected
            /\ out' = Append(out \o before, e)
      BY <1>6, SpecialTaken
    <2>7. AllSentences(input', done', out \o before)
      BY <2>3, <2>4, <2>5, <2>6, RawBarsAside, CollectedIsSentence
    <2>8. IsSentence(input', done', e)
      <3>1. e.atoms = <<Len(input) + 1>> /\ e.lang = lang
        BY DEF Yield
      <3> HIDE DEF e
      <3>2. Len(e.atoms) = 1 /\ e.atoms[1] = Len(input) + 1 /\ e.atoms # <<>>
        BY <3>1
      <3>3. Len(input) + 1 \in 1 .. Len(input')
        BY <1>1, <2>1
      <3>4. FitsTogether(input', e.lang, e.atoms)
        BY <2>1, <3>1, <3>2, <3>3 DEF FitsTogether
      <3>5. MayEndAt(input', done', Len(input) + 1)
        BY <2>1 DEF MayEndAt
      <3> QED BY <3>2, <3>4, <3>5 DEF IsSentence
    <2>9. out \o before \in Seq(Output)
      BY <1>1, <2>6, ConcatProperties
    <2> HIDE DEF e
    <2> QED BY <2>1, <2>6, <2>7, <2>8, <2>9, OneMoreSentence
  <1>7. ASSUME VisitAtom PROVE AllSentences(input', done', out')
    <2> DEFINE a == Head(pending)
               collected == Append(acc.atoms, a)
               e == Yield(acc.lang, collected)
    <2>1. /\ pending # <<>> /\ a \in Places /\ a = Taken + 1
          /\ input' = input /\ done' = done /\ acc.lang \in Languages
          /\ \/ Splits(a) /\ out' = Append(out, e)
             \/ ~Splits(a) /\ out' = out
      BY <1>7, AtomVisited
    <2>2. /\ collected \in Seq(Places)
          /\ Len(collected) = Len(acc.atoms) + 1
          /\ \A i \in 1 .. Len(acc.atoms) : collected[i] = acc.atoms[i]
          /\ collected[Len(acc.atoms) + 1] = a
      BY <1>1, <2>1, AppendProperties
    <2>3. Len(acc.atoms) \in Nat
      BY <1>1, LenProperties
    <2>4. e \in Output
      <3>1. Places \subseteq Nat
        BY <1>1 DEF Places
      <3>2. collected \in Seq(Nat)
        BY <2>2, <3>1, Widening
      <3> QED BY <2>1, <3>2 DEF Yield, Output
    <2>5. e.atoms = collected /\ e.lang = acc.lang
      BY DEF Yield
    <2>6. input[a].lang = acc.lang /\ ~input[a].special
      <3>1. Head(pending) = pending[1] /\ 1 \in 1 .. Len(pending)
        BY <1>1, <2>1, EmptySeq, HeadTailProperties DEF SentenceTypes
      <3> QED BY <3>1 DEF Gathered
    <2> HIDE DEF a, collected, e
    <2>7. CASE Splits(a)
      <3>1. input[a].ends = "end"
        BY <2>7 DEF Splits
      <3>2. \A m \in 1 .. Len(collected) :
              \/ m \in 1 .. Len(acc.atoms) /\ collected[m] = acc.atoms[m]
              \/ m = Len(collected) /\ collected[m] = a
        BY <2>2, <2>3
      <3>3. FitsTogether(input, acc.lang, collected)
        <4> SUFFICES ASSUME NEW m \in 1 .. Len(collected)
                     PROVE  /\ collected[m] \in 1 .. Len(input)
                            /\ input[collected[m]].lang = acc.lang
                            /\ m < Len(collected) => input[collected[m]].ends # "end"
                            /\ ~input[collected[m]].special
          BY DEF FitsTogether
        <4>1. collected[m] \in 1 .. Len(input)
          BY <2>2, ElementOfSeq DEF Places
        <4>2. CASE m \in 1 .. Len(acc.atoms) /\ collected[m] = acc.atoms[m]
          BY <2>1, <4>1, <4>2 DEF Gathered
        <4>3. CASE m = Len(collected) /\ collected[m] = a
          BY <2>2, <2>3, <2>6, <4>1, <4>3
        <4> QED BY <3>2, <4>2, <4>3
      <3>4. collected # <<>> /\ collected[Len(collected)] = a
        BY <2>2, <2>3, EmptySeq
      <3>5. IsSentence(input, done, e)
        BY <2>5, <3>1, <3>3, <3>4 DEF IsSentence, MayEndAt
      <3> QED BY <1>1, <1>2, <2>1, <2>4, <2>7, <3>5, OneMoreSentence
    <2>8. CASE ~Splits(a)
      BY <1>2, <2>1, <2>8
    <2> QED BY <2>7, <2>8
  <1>8. ASSUME EndOfInput PROVE AllSentences(input', done', out')
    <2>1. /\ pending = <<>> /\ ~done /\ done' /\ input' = input
          /\ out' = out \o Collected
      BY <1>8 DEF EndOfInput
    <2>2. Continues(input, FALSE, input', done') /\ Continues(input, done, input', done')
      BY <1>1, <2>1 DEF Continues
    <2>3. AllSentences(input', done', out)
      BY <1>1, <1>2, <2>2, StillSentences
    <2>4. acc.atoms # <<>> => MayEndAt(input', done', Taken)
      BY <1>4, <2>1 DEF MayEndAt
    <2> QED BY <2>1, <2>2, <2>3, <2>4, CollectedIsSentence
  <1> QED BY <1>5, <1>6, <1>7, <1>8 DEF SentenceNext

LEMMA NextGathered ==
  ASSUME SentenceTypes, PendingIsRest, Gathered, SentenceNext
  PROVE  Gathered'
  <1>1. /\ Len(input) \in Nat /\ Len(pending) \in Nat /\ Taken \in Nat
        /\ acc.atoms \in Seq(Places)
    BY LenProperties DEF SentenceTypes, PendingIsRest, Taken
  <1>2. Len(<<>>) = 0
    OBVIOUS
  <1>3. ASSUME NEW lang \in Languages, NEW n \in 1 .. MaxBar,
               NEW ends \in [1 .. n -> Ends], StartBar(lang, ends)
        PROVE  Gathered'
    <2>1. /\ pending = <<>> /\ n \in Nat \ {0}
          /\ Len(input') = Len(input) + n /\ Len(pending') = n
          /\ \A i \in 1 .. Len(input) : input'[i] = input[i]
          /\ \A i \in 1 .. n : pending'[i] = Len(input) + i
          /\ \A i \in 1 .. n :
               input'[Len(input) + i].lang = lang /\ ~input'[Len(input) + i].special
          /\ acc' = [lang |-> lang, atoms |-> acc'.atoms]
      BY <1>3, BarTaken
    <2>2. acc'.lang = lang
      BY <2>1
    <2>3. pending' # <<>>
      BY <1>2, <2>1
    <2>4. \A i \in 1 .. Len(pending') :
            input'[pending'[i]].lang = acc'.lang /\ ~input'[pending'[i]].special
      BY <2>1, <2>2
    <2>5. Taken' = Taken
      BY <1>1, <1>2, <2>1 DEF Taken
    <2>6. CASE acc'.atoms = <<>>
      BY <1>2, <2>3, <2>4, <2>6 DEF Gathered
    <2>7. CASE acc'.atoms = acc.atoms /\ acc.atoms # <<>> /\ ~EndsBefore(lang)
      <3>1. acc.atoms[Len(acc.atoms)] = Taken
        BY <2>7 DEF Gathered
      <3>2. acc.lang = lang /\ input[Taken].ends = "none"
        BY <2>7, <3>1 DEF EndsBefore
      <3>3. ASSUME NEW m \in 1 .. Len(acc.atoms)
            PROVE  LET a == input'[acc.atoms[m]] IN
                   a.lang = lang /\ ~a.special /\ a.ends # "end"
        <4>1. acc.atoms[m] \in 1 .. Len(input)
          BY <1>1, ElementOfSeq DEF Places
        <4>2. input'[acc.atoms[m]] = input[acc.atoms[m]]
          BY <2>1, <4>1
        <4>3. Len(acc.atoms) \in Nat
          BY <1>1, LenProperties
        <4>4. m < Len(acc.atoms) \/ m = Len(acc.atoms)
          BY <4>3
        <4>5. input[acc.atoms[m]].ends # "end"
          BY <3>1, <3>2, <4>4 DEF Gathered
        <4> QED BY <3>2, <4>2, <4>5 DEF Gathered
      <3> QED BY <2>2, <2>3, <2>4, <2>5, <2>7, <3>1, <3>3 DEF Gathered
    <2> QED BY <1>3, <2>6, <2>7, BarTaken
  <1>4. ASSUME NEW lang \in Languages, SpecialBar(lang)
        PROVE  Gathered'
    <2>1. /\ pending' = <<>> /\ Len(input') = Len(input) + 1
          /\ input'[Len(input) + 1].closes
          /\ acc'.atoms = <<>>
      BY <1>4, SpecialTaken DEF SentenceTypes
    <2> QED BY <1>2, <2>1 DEF Gathered
  <1>5. ASSUME VisitAtom PROVE Gathered'
    <2> DEFINE a == Head(pending)
               collected == Append(acc.atoms, a)
    <2>1. /\ pending # <<>> /\ pending \in Seq(Places) /\ pending' = Tail(pending)
          /\ a \in Places /\ a = Taken + 1 /\ input' = input
          /\ pending' = <<>> <=> Len(pending) = 1
          /\ acc' = [acc EXCEPT !.atoms = acc'.atoms]
          /\ \/ Splits(a) /\ acc'.atoms = <<>>
             \/ ~Splits(a) /\ acc'.atoms = collected
      BY <1>5, AtomVisited
    <2>2. /\ Len(pending) \in Nat \ {0} /\ a = pending[1]
          /\ Len(pending') = Len(pending) - 1
          /\ \A i \in 1 .. Len(pending') : pending'[i] = pending[i + 1]
      BY <1>1, <2>1, EmptySeq, HeadTailProperties
    <2>3. acc'.lang = acc.lang
      <3>1. acc \in [lang : Languages \cup {"none"}, atoms : Seq(Places)]
        BY DEF SentenceTypes
      <3> QED BY <2>1, <3>1
    <2>4. Taken' = Taken + 1
      BY <1>1, <2>1, <2>2 DEF Taken
    <2>5. input[a].closes <=> Len(pending) = 1
      <3>1. 1 \in 1 .. Len(pending)
        BY <2>2
      <3>2. input[pending[1]].closes <=> 1 = Len(pending)
        BY <3>1 DEF PendingIsRest
      <3> QED BY <2>2, <3>2
    <2>6. input[a].lang = acc.lang /\ ~input[a].special
      <3>1. 1 \in 1 .. Len(pending)
        BY <2>2
      <3> QED BY <2>2, <3>1 DEF Gathered
    <2> HIDE DEF a
    <2>7. \A i \in 1 .. Len(pending') :
            input'[pending'[i]].lang = acc'.lang /\ ~input'[pending'[i]].special
      <3> SUFFICES ASSUME NEW i \in 1 .. Len(pending')
                   PROVE  input'[pending'[i]].lang = acc'.lang /\ ~input'[pending'[i]].special
        OBVIOUS
      <3>1. i + 1 \in 1 .. Len(pending) /\ pending'[i] = pending[i + 1]
        BY <2>2
      <3>2. input[pending[i + 1]].lang = acc.lang /\ ~input[pending[i + 1]].special
        BY <3>1 DEF Gathered
      <3> QED BY <2>1, <2>3, <3>1, <3>2
    <2>8. pending' = <<>> => input'[Len(input')].closes
      <3> SUFFICES ASSUME pending' = <<>> PROVE input[Len(input)].closes
        BY <2>1
      <3>1. Len(pending) = 1
        BY <2>1
      <3>2. a = Len(input)
        BY <1>1, <2>1, <3>1 DEF Taken
      <3> QED BY <2>5, <3>1, <3>2
    <2>9. CASE acc'.atoms = <<>>
      BY <1>2, <2>7, <2>8, <2>9 DEF Gathered
    <2>10. CASE acc'.atoms = collected /\ ~Splits(a)
      <3>1. /\ Len(collected) = Len(acc.atoms) + 1
            /\ \A i \in 1 .. Len(acc.atoms) : collected[i] = acc.atoms[i]
            /\ collected[Len(acc.atoms) + 1] = a
        BY <1>1, <2>1, AppendProperties
      <3>2. Len(acc.atoms) \in Nat
        BY <1>1, LenProperties
      <3> HIDE DEF collected
      <3>3. ASSUME NEW m \in 1 .. Len(collected)
            PROVE  LET b == input[collected[m]] IN
                   /\ b.lang = acc.lang
                   /\ ~b.special
                   /\ m < Len(collected) \/ pending' # <<>> => b.ends # "end"
        <4>1. CASE m \in 1 .. Len(acc.atoms)
          <5>1. collected[m] = acc.atoms[m]
            BY <3>1, <4>1
          <5>2. /\ input[acc.atoms[m]].lang = acc.lang /\ ~input[acc.atoms[m]].special
                /\ input[acc.atoms[m]].ends # "end"
            BY <2>1, <4>1 DEF Gathered
          <5> QED BY <5>1, <5>2
        <4>2. CASE m = Len(collected)
          <5>1. collected[m] = a /\ ~(m < Len(collected))
            BY <3>1, <3>2, <4>2
          <5>2. pending' # <<>> => input[a].ends # "end"
            BY <2>1, <2>5, <2>10 DEF Splits
          <5> QED BY <2>6, <5>1, <5>2
        <4> QED BY <3>1, <3>2, <4>1, <4>2
      <3>4. collected[Len(collected)] = Taken'
        BY <2>1, <2>4, <3>1
      <3> QED BY <2>1, <2>3, <2>7, <2>8, <2>10, <3>3, <3>4 DEF Gathered
    <2> QED BY <2>1, <2>9, <2>10
  <1>6. ASSUME EndOfInput PROVE Gathered'
    <2>1. acc'.atoms = <<>> /\ input' = input /\ pending' = pending /\ pending = <<>>
      BY <1>6 DEF EndOfInput, SentenceTypes
    <2> QED BY <1>2, <2>1 DEF Gathered
  <1> QED BY <1>3, <1>4, <1>5, <1>6 DEF SentenceNext

-----------------------------------------------------------------------------
(* The theorems                                                            *)

LEMMA InitSentenceInv == SentenceInit => SentenceInv
  <1> SUFFICES ASSUME SentenceInit PROVE SentenceInv
    OBVIOUS
  <1>1. SentenceTypes /\ PendingIsRest
    BY InitTypes
  <1>2. Range(<<>>) = {} /\ Len(<<>>) = 0 /\ DOMAIN <<>> = {}
    BY EmptySeq DEF Range
  <1>3. /\ acc.atoms = <<>> /\ pending = <<>> /\ used = <<>> /\ kept = <<>>
        /\ out = <<>> /\ input = <<>>
    BY DEF SentenceInit
  <1>4. BarsCoverAcc
    BY <1>2, <1>3 DEF BarsCoverAcc
  <1>5. NothingLost
    BY <1>2, <1>3 DEF NothingLost
  <1>6. ListsAreBounded
    BY <1>2, <1>3, LimitsAssumption DEF ListsAreBounded
  <1>7. ParagraphsAreBounded
    BY <1>2, <1>3 DEF ParagraphsAreBounded
  <1> QED BY <1>1, <1>4, <1>5, <1>6, <1>7 DEF SentenceInv

LEMMA NextSentenceInv == SentenceInv /\ [SentenceNext]_sentenceVars => SentenceInv'
  <1> SUFFICES ASSUME SentenceInv, [SentenceNext]_sentenceVars PROVE SentenceInv'
    OBVIOUS
  <1>1. CASE SentenceNext
    <2>1. SentenceTypes' /\ PendingIsRest'
      BY <1>1, NextTypes, NextPending DEF SentenceInv
    <2>2. BarsCoverAcc' /\ NothingLost'
      BY <1>1, NextCovers, NextNothingLost DEF SentenceInv
    <2>3. ListsAreBounded'
      BY <1>1, NextLists DEF SentenceInv
    <2>4. ParagraphsAreBounded'
      BY <1>1, <2>3, NextBounded DEF SentenceInv
    <2> QED BY <2>1, <2>2, <2>3, <2>4 DEF SentenceInv
  <1>2. CASE UNCHANGED sentenceVars
    <2> USE <1>2 DEF sentenceVars
    <2>1. SentenceTypes' /\ PendingIsRest'
      BY DEF SentenceInv, SentenceTypes, PendingIsRest, Places, Taken
    <2>2. BarsCoverAcc' /\ NothingLost'
      BY DEF SentenceInv, BarsCoverAcc, NothingLost, AtomsOf
    <2>3. ListsAreBounded' /\ ParagraphsAreBounded'
      BY DEF SentenceInv, ListsAreBounded, ParagraphsAreBounded
    <2> QED BY <2>1, <2>2, <2>3 DEF SentenceInv
  <1> QED BY <1>1, <1>2

LEMMA SentenceInvCorrect == SentenceSpec => []SentenceInv
  BY InitSentenceInv, NextSentenceInv, PTL DEF SentenceSpec

\* strict_sentence_paragraphs keeps its variables in shape.
THEOREM SentenceTypeCorrect == SentenceSpec => []SentenceTypeOK
  <1>1. SentenceInv => SentenceTypeOK
    <2> SUFFICES ASSUME SentenceInv PROVE SentenceTypeOK
      OBVIOUS
    <2>1. Places \subseteq Nat
      BY LenProperties DEF Places, SentenceInv, SentenceTypes
    <2>2. Seq(Places) \subseteq Seq(Nat)
      BY <2>1, Widening
    <2>3. acc.atoms = <<>> \/ acc \in Paragraph
      <3> SUFFICES ASSUME acc.atoms # <<>> PROVE acc \in Paragraph
        OBVIOUS
      <3>1. /\ acc \in [lang : Languages \cup {"none"}, atoms : Seq(Places)]
            /\ acc.lang \in Languages
        BY DEF SentenceInv, SentenceTypes
      <3> QED BY <2>2, <3>1 DEF Paragraph
    <2> QED BY <2>3 DEF SentenceInv, SentenceTypes, SentenceTypeOK, Places
  <1> QED BY <1>1, SentenceInvCorrect, PTL

\* No atom of whisper's is lost, also when the fallback for endless sentences
\* throws away what was collected: however long bars and sentences are.
THEOREM NothingLostCorrect == SentenceSpec => []NothingLost
  <1>1. SentenceInv => NothingLost
    BY DEF SentenceInv
  <1> QED BY <1>1, SentenceInvCorrect, PTL

\* No paragraph exceeds the limit by more than a bar.
THEOREM ParagraphsAreBoundedCorrect == SentenceSpec => []ParagraphsAreBounded
  <1>1. SentenceInv => ParagraphsAreBounded
    BY DEF SentenceInv
  <1> QED BY <1>1, SentenceInvCorrect, PTL

\* What comes out as sentences comes out in whisper's order, nothing of it twice:
\* only the bars of the fallback can repeat atoms.
THEOREM SentencesInOrderCorrect == SentenceSpec => []SentencesInOrder
  <1>1. SentenceInit => FlowInOrder
    <2> SUFFICES ASSUME SentenceInit PROVE FlowInOrder
      OBVIOUS
    <2>1. out = <<>> /\ acc.atoms = <<>> /\ DOMAIN <<>> = {}
      BY DEF SentenceInit
    <2> QED BY <2>1 DEF FlowInOrder, InOrder, Precede, UpTo, Increasing
  <1>2. SentenceInv /\ FlowInOrder /\ [SentenceNext]_sentenceVars => FlowInOrder'
    <2> SUFFICES ASSUME SentenceInv, FlowInOrder, [SentenceNext]_sentenceVars
                 PROVE  FlowInOrder'
      OBVIOUS
    <2>1. CASE SentenceNext
      BY <2>1, NextFlow DEF SentenceInv
    <2>2. CASE UNCHANGED sentenceVars
      BY <2>2 DEF sentenceVars, FlowInOrder, InOrder, Precede, UpTo, Increasing, Taken
    <2> QED BY <2>1, <2>2
  <1>3. FlowInOrder => SentencesInOrder
    BY DEF FlowInOrder, InOrder, SentencesInOrder, Regular
  <1> QED BY <1>1, <1>2, <1>3, SentenceInvCorrect, PTL DEF SentenceSpec

\* Every paragraph is one sentence, of one language and with no unprotected end
\* inside; and where it ends there is a reason: a sentence end, another language, a
\* special bar or the end of the input, however bars and sentences overlap.
THEOREM SplitsAreRightCorrect == SentenceSpec => []SplitsAreRight
  <1>1. SentenceInit => Gathered /\ SentencesSoFar
    <2> SUFFICES ASSUME SentenceInit PROVE Gathered /\ SentencesSoFar
      OBVIOUS
    <2>1. /\ input = <<>> /\ pending = <<>> /\ acc.atoms = <<>> /\ out = <<>>
          /\ Len(<<>>) = 0
      BY DEF SentenceInit
    <2> QED BY <2>1 DEF Gathered, SentencesSoFar, AllSentences
  <1>2. SentenceInv /\ Gathered /\ SentencesSoFar /\ [SentenceNext]_sentenceVars
          => (Gathered /\ SentencesSoFar)'
    <2> SUFFICES ASSUME SentenceInv, Gathered, SentencesSoFar, [SentenceNext]_sentenceVars
                 PROVE  Gathered' /\ SentencesSoFar'
      OBVIOUS
    <2>1. CASE SentenceNext
      BY <2>1, NextGathered, NextSentences DEF SentenceInv
    <2>2. CASE UNCHANGED sentenceVars
      BY <2>2 DEF sentenceVars, Gathered, SentencesSoFar, AllSentences, Taken
    <2> QED BY <2>1, <2>2
  <1>3. SentenceInv /\ SentencesSoFar => SplitsAreRight
    <2> SUFFICES ASSUME SentenceInv, SentencesSoFar,
                        NEW i \in DOMAIN out, ~out[i].raw
                 PROVE  /\ \A m \in DOMAIN out[i].atoms :
                             LET a == input[out[i].atoms[m]] IN
                             /\ a.lang = out[i].lang
                             /\ m < Len(out[i].atoms) => a.ends # "end"
                             /\ a.special => Len(out[i].atoms) = 1
                        /\ MayEndAt(input, done, out[i].atoms[Len(out[i].atoms)])
      BY DEF SplitsAreRight, OneSentenceEach, BreaksHaveReason, Regular, MayEndAt
    <2>1. out \in Seq(Output) /\ i \in 1 .. Len(out)
      BY LenProperties DEF SentenceInv, SentenceTypes
    <2>2. IsSentence(input, done, out[i])
      BY <2>1 DEF SentencesSoFar, AllSentences
    <2>3. out[i] \in Output
      BY <2>1, ElementOfSeq
    <2>4. DOMAIN out[i].atoms = 1 .. Len(out[i].atoms)
      BY <2>3, LenProperties DEF Output
    <2> QED BY <2>2, <2>4 DEF IsSentence, FitsTogether
  <1> QED BY <1>1, <1>2, <1>3, SentenceInvCorrect, PTL DEF SentenceSpec

=============================================================================
