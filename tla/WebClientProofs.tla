--------------------------- MODULE WebClientProofs ---------------------------
(***************************************************************************)
(* Machine-checked proofs about the parts of the user interface: speakers,  *)
(* pages and their cache, widgets, progress of tasks, exports, and all of    *)
(* them as they are checked together.                                      *)
(***************************************************************************)
EXTENDS MCWebClient, AudioPlayerProofs, FiniteSetTheorems

-----------------------------------------------------------------------------
(* Speakers: what is known of the paragraphs and of an open dialog.          *)

ParagraphSet == [id : Ids, speaker : Speakers]

\* Ids of paragraphs are given once, in rising order.
ParagraphInv ==
  /\ children \in Seq(ParagraphSet)
  /\ \A i \in DOMAIN children : children[i].id <= 2 + edits
  /\ \A i, j \in DOMAIN children : children[i].id = children[j].id => i = j

\* A dialog that is not stale knows where its paragraph is.
DialogInv ==
  \/ dialog = NoDialog
  \/ /\ dialog \in [kind : {"new"}, id : Ids, index : Nat, stale : BOOLEAN]
     /\ ~dialog.stale => /\ dialog.index \in DOMAIN children
                         /\ children[dialog.index].id = dialog.id
  \/ dialog \in [kind : {"rename"}, speaker : Speakers \ {Nobody}]

EditingInv ==
  /\ readOnly \in BOOLEAN /\ edits \in 0 .. MaxEdits
  /\ DOMAIN speakerNames \subseteq 1 .. MaxSpeakers
  /\ ParagraphInv /\ DialogInv

LEMMA FreshIdIsFresh ==
  ASSUME CanAdd
  PROVE  FreshId \in 1 .. MaxSpeakers /\ FreshId \notin DOMAIN speakerNames /\ FreshId \notin SpeakerIds
  BY DEF CanAdd, FreshId, FreshIds

\* Where a speaker ends is not before where he begins.
LEMMA SpeakerEndExists ==
  ASSUME ParagraphInv, NEW idx \in DOMAIN children
  PROVE  SpeakerEnd(idx) \in idx .. Len(children)
  <1> DEFINE n == Len(children)
             Same(end) == \A i \in idx .. end : children[i].speaker = children[idx].speaker
             Left == {d \in Nat : d <= n - idx /\ Same(n - d)}
  <1>1. n \in Nat /\ DOMAIN children = 1 .. n /\ idx \in 1 .. n
    BY LenProperties DEF ParagraphInv
  <1> HIDE DEF n
  <1>2. n - idx \in Left
    BY <1>1
  <1>3. PICK d \in Left : \A e \in Left : d <= e
    <2> HIDE DEF Left
    <2>1. Left \in SUBSET Nat
      BY DEF Left
    <2> QED BY <1>2, <2>1, LeastNat
  <1> DEFINE end == n - d
  <1>4. d \in Nat /\ d <= n - idx /\ Same(end) /\ end \in idx .. n
    BY <1>1, <1>3
  <1>5. end = n \/ children[end + 1].speaker # children[idx].speaker
    <2> SUFFICES ASSUME end # n, children[end + 1].speaker = children[idx].speaker PROVE FALSE
      OBVIOUS
    <2>1. d - 1 \in Nat /\ n - (d - 1) = end + 1 /\ d - 1 <= n - idx
      BY <1>1, <1>4
    <2>2. \A i \in idx .. end + 1 : i \in idx .. end \/ i = end + 1
      BY <1>1, <1>4
    <2>3. Same(end + 1)
      BY <1>4, <2>2
    <2> HIDE DEF Same, end
    <2>4. d - 1 \in Left
      BY <2>1, <2>3
    <2> QED BY <1>3, <1>4, <2>4
  <1>6. \E e \in idx .. n : /\ \A i \in idx .. e : children[i].speaker = children[idx].speaker
                            /\ e = n \/ children[e + 1].speaker # children[idx].speaker
    BY <1>4, <1>5
  <1> HIDE DEF end, Left, Same
  <1> QED BY <1>6 DEF SpeakerEnd, n

\* Only what one speaker says gets another speaker, and it begins where asked.
LEMMA SetSpeakerStep ==
  ASSUME EditingInv, NEW idx \in DOMAIN children, NEW s \in Speakers, SetSpeaker(idx, s)
  PROVE  /\ children' \in Seq(ParagraphSet) /\ DOMAIN children' = DOMAIN children
         /\ \A i \in DOMAIN children : /\ children'[i].id = children[i].id
                                       /\ children'[i].speaker \in {children[i].speaker, s}
                                       /\ i < idx => children'[i] = children[i]
         /\ children'[idx].speaker = s
  <1>1. Len(children) \in Nat /\ DOMAIN children = 1 .. Len(children) /\ children \in Seq(ParagraphSet)
    BY LenProperties DEF EditingInv, ParagraphInv
  <1>2. \A i \in DOMAIN children : children[i] \in ParagraphSet
    BY <1>1, ElementOfSeq
  <1>3. \A i \in DOMAIN children :
          children'[i] = IF i \in idx .. SpeakerEnd(idx)
                         THEN [children[i] EXCEPT !.speaker = s] ELSE children[i]
    BY DEF SetSpeaker
  <1>4. \A i \in DOMAIN children : [children[i] EXCEPT !.speaker = s] \in ParagraphSet
    BY <1>2 DEF ParagraphSet
  <1>5. \A i \in DOMAIN children : children'[i] \in ParagraphSet
    BY <1>2, <1>3, <1>4
  <1>6. children' = [i \in 1 .. Len(children) |-> children'[i]]
    BY <1>1 DEF SetSpeaker
  <1>7. children' \in Seq(ParagraphSet) /\ DOMAIN children' = DOMAIN children
    BY <1>1, <1>5, <1>6, IsASeq
  <1>8. SpeakerEnd(idx) \in idx .. Len(children)
    BY SpeakerEndExists DEF EditingInv
  <1>9. \A i \in DOMAIN children : /\ children'[i].id = children[i].id
                                   /\ children'[i].speaker \in {children[i].speaker, s}
    BY <1>2, <1>3 DEF ParagraphSet
  <1>10. \A i \in DOMAIN children : i < idx => i \notin idx .. SpeakerEnd(idx)
    BY <1>1, <1>8
  <1>11. idx \in idx .. SpeakerEnd(idx)
    BY <1>1, <1>8
  <1>12. children'[idx].speaker = s
    BY <1>2, <1>3, <1>11 DEF ParagraphSet
  <1> QED BY <1>3, <1>7, <1>9, <1>10, <1>12

-----------------------------------------------------------------------------
(* Paragraphs that are inserted and removed.                               *)

LEMMA InsertAtStep ==
  ASSUME NEW S, NEW s \in Seq(S), NEW e \in S, NEW i \in 1 .. Len(s)
  PROVE  /\ InsertAt(s, i, e) \in Seq(S) /\ DOMAIN InsertAt(s, i, e) = 1 .. Len(s) + 1
         /\ \A j \in 1 .. i - 1 : InsertAt(s, i, e)[j] = s[j]
         /\ InsertAt(s, i, e)[i] = e
         /\ \A j \in i .. Len(s) : InsertAt(s, i, e)[j + 1] = s[j]
  <1> DEFINE a == SubSeq(s, 1, i - 1)
             b == <<e>>
             c == SubSeq(s, i, Len(s))
  <1>1. Len(s) \in Nat /\ i \in Nat /\ i >= 1 /\ i <= Len(s) /\ \A j \in 1 .. Len(s) : s[j] \in S
    BY LenProperties, ElementOfSeq
  <1>2. a \in Seq(S) /\ Len(a) = i - 1 /\ \A j \in 1 .. i - 1 : a[j] = s[j]
    <2>1. 1 \in Int /\ i - 1 \in Int /\ \A j \in 1 .. i - 1 : s[j] \in S
      BY <1>1
    <2>2. /\ a \in Seq(S) /\ Len(a) = IF 1 <= i - 1 THEN (i - 1) - 1 + 1 ELSE 0
          /\ \A j \in 1 .. (i - 1) - 1 + 1 : a[j] = s[1 + j - 1]
      BY <2>1, SubSeqProperties
    <2> HIDE DEF a
    <2> QED BY <1>1, <2>2
  <1>3. c \in Seq(S) /\ Len(c) = Len(s) - i + 1 /\ \A j \in 1 .. Len(s) - i + 1 : c[j] = s[i + j - 1]
    <2>1. i \in Int /\ Len(s) \in Int /\ \A j \in i .. Len(s) : s[j] \in S
      BY <1>1
    <2>2. /\ c \in Seq(S) /\ Len(c) = IF i <= Len(s) THEN Len(s) - i + 1 ELSE 0
          /\ \A j \in 1 .. Len(s) - i + 1 : c[j] = s[i + j - 1]
      BY <2>1, SubSeqProperties
    <2> HIDE DEF c
    <2> QED BY <1>1, <2>2
  <1>4. b \in Seq(S) /\ Len(b) = 1 /\ b[1] = e
    OBVIOUS
  <1>5. InsertAt(s, i, e) = (a \o b) \o c
    BY DEF InsertAt
  <1> HIDE DEF a, b, c
  <1>6. /\ a \o b \in Seq(S) /\ Len(a \o b) = i
        /\ \A j \in 1 .. i : (a \o b)[j] = IF j <= i - 1 THEN s[j] ELSE e
    <2>1. /\ a \o b \in Seq(S) /\ Len(a \o b) = Len(a) + Len(b)
          /\ \A j \in 1 .. Len(a) + Len(b) : (a \o b)[j] = IF j <= Len(a) THEN a[j] ELSE b[j - Len(a)]
      BY <1>2, <1>4, ConcatProperties
    <2> QED BY <1>1, <1>2, <1>4, <2>1
  <1>7. /\ (a \o b) \o c \in Seq(S) /\ Len((a \o b) \o c) = Len(a \o b) + Len(c)
        /\ \A j \in 1 .. Len(a \o b) + Len(c) :
             ((a \o b) \o c)[j] = IF j <= Len(a \o b) THEN (a \o b)[j] ELSE c[j - Len(a \o b)]
    <2> DEFINE d == a \o b
    <2>1. d \in Seq(S)
      BY <1>6
    <2> HIDE DEF d
    <2>2. /\ d \o c \in Seq(S) /\ Len(d \o c) = Len(d) + Len(c)
          /\ \A j \in 1 .. Len(d) + Len(c) : (d \o c)[j] = IF j <= Len(d) THEN d[j] ELSE c[j - Len(d)]
      BY <1>3, <2>1, ConcatProperties
    <2> QED BY <2>2 DEF d
  <1>8. Len((a \o b) \o c) = Len(s) + 1 /\ Len(a \o b) + Len(c) = Len(s) + 1
    BY <1>1, <1>3, <1>6, <1>7
  <1>9. ASSUME NEW j \in 1 .. i PROVE ((a \o b) \o c)[j] = (a \o b)[j]
    BY <1>1, <1>6, <1>7, <1>8
  <1>10. ASSUME NEW j \in i .. Len(s) PROVE ((a \o b) \o c)[j + 1] = s[j]
    <2>1. ((a \o b) \o c)[j + 1] = c[j + 1 - i]
      BY <1>1, <1>6, <1>7, <1>8
    <2>2. j + 1 - i \in 1 .. Len(s) - i + 1 /\ i + (j + 1 - i) - 1 = j
      BY <1>1
    <2> QED BY <1>3, <2>1, <2>2
  <1>11. (\A j \in 1 .. i - 1 : (a \o b)[j] = s[j]) /\ (a \o b)[i] = e
    BY <1>1, <1>6
  <1>12. 1 .. i - 1 \subseteq 1 .. i /\ i \in 1 .. i
    BY <1>1
  <1>13. DOMAIN ((a \o b) \o c) = 1 .. Len(s) + 1
    BY <1>7, <1>8, LenProperties
  <1> QED BY <1>5, <1>7, <1>9, <1>10, <1>11, <1>12, <1>13

LEMMA RemoveAtStep ==
  ASSUME NEW S, NEW s \in Seq(S), NEW i \in 1 .. Len(s)
  PROVE  /\ RemoveAt(s, i) \in Seq(S) /\ DOMAIN RemoveAt(s, i) = 1 .. Len(s) - 1
         /\ \A j \in 1 .. Len(s) - 1 : RemoveAt(s, i)[j] = IF j < i THEN s[j] ELSE s[j + 1]
  <1> DEFINE a == SubSeq(s, 1, i - 1)
             c == SubSeq(s, i + 1, Len(s))
  <1>1. Len(s) \in Nat /\ i \in Nat /\ i >= 1 /\ i <= Len(s) /\ \A j \in 1 .. Len(s) : s[j] \in S
    BY LenProperties, ElementOfSeq
  <1>2. a \in Seq(S) /\ Len(a) = i - 1 /\ \A j \in 1 .. i - 1 : a[j] = s[j]
    <2>1. 1 \in Int /\ i - 1 \in Int /\ \A j \in 1 .. i - 1 : s[j] \in S
      BY <1>1
    <2>2. /\ a \in Seq(S) /\ Len(a) = IF 1 <= i - 1 THEN (i - 1) - 1 + 1 ELSE 0
          /\ \A j \in 1 .. (i - 1) - 1 + 1 : a[j] = s[1 + j - 1]
      BY <2>1, SubSeqProperties
    <2> HIDE DEF a
    <2> QED BY <1>1, <2>2
  <1>3. c \in Seq(S) /\ Len(c) = Len(s) - i /\ \A j \in 1 .. Len(s) - i : c[j] = s[i + j]
    <2>1. i + 1 \in Int /\ Len(s) \in Int /\ \A j \in i + 1 .. Len(s) : s[j] \in S
      BY <1>1
    <2>2. /\ c \in Seq(S) /\ Len(c) = IF i + 1 <= Len(s) THEN Len(s) - (i + 1) + 1 ELSE 0
          /\ \A j \in 1 .. Len(s) - (i + 1) + 1 : c[j] = s[(i + 1) + j - 1]
      BY <2>1, SubSeqProperties
    <2> HIDE DEF c
    <2> QED BY <1>1, <2>2
  <1>4. RemoveAt(s, i) = a \o c
    BY DEF RemoveAt
  <1> HIDE DEF a, c
  <1>5. /\ a \o c \in Seq(S) /\ Len(a \o c) = Len(a) + Len(c)
        /\ \A j \in 1 .. Len(a) + Len(c) : (a \o c)[j] = IF j <= Len(a) THEN a[j] ELSE c[j - Len(a)]
    BY <1>2, <1>3, ConcatProperties
  <1>6. Len(a) + Len(c) = Len(s) - 1
    BY <1>1, <1>2, <1>3
  <1>7. ASSUME NEW j \in 1 .. Len(s) - 1 PROVE (a \o c)[j] = IF j < i THEN s[j] ELSE s[j + 1]
    <2>1. (a \o c)[j] = IF j <= i - 1 THEN a[j] ELSE c[j - (i - 1)]
      BY <1>2, <1>5, <1>6
    <2>2. CASE j < i
      BY <1>1, <1>2, <2>1, <2>2
    <2>3. CASE ~(j < i)
      <3>1. j - (i - 1) \in 1 .. Len(s) - i /\ i + (j - (i - 1)) = j + 1
        BY <1>1, <2>3
      <3> QED BY <1>1, <1>3, <2>1, <2>3, <3>1
    <2> QED BY <2>2, <2>3
  <1>8. DOMAIN (a \o c) = 1 .. Len(s) - 1
    BY <1>5, <1>6, LenProperties
  <1> QED BY <1>4, <1>5, <1>7, <1>8

-----------------------------------------------------------------------------
(* Speakers: the invariant.                                                *)

LEMMA EditingTyped == EditingInv => EditingTypeOK
  <1> SUFFICES ASSUME EditingInv PROVE EditingTypeOK
    OBVIOUS
  <1>1. \A i \in DOMAIN children : children[i] \in [id : Ids, speaker : Speakers]
    <2>1. children \in Seq(ParagraphSet)
      BY DEF EditingInv, ParagraphInv
    <2>2. \A i \in DOMAIN children : children[i] \in ParagraphSet
      BY <2>1, LenProperties, ElementOfSeq
    <2> QED BY <2>2 DEF ParagraphSet
  <1>2. IsInjective([i \in DOMAIN children |-> children[i].id])
    BY DEF EditingInv, ParagraphInv, IsInjective
  <1>3. dialog.kind \in {"none", "new", "rename"}
    BY DEF EditingInv, DialogInv, NoDialog
  <1> QED BY <1>1, <1>2, <1>3 DEF EditingInv, EditingTypeOK

LEMMA EditingAtStart == EditingInit => EditingInv
  <1> SUFFICES ASSUME EditingInit PROVE EditingInv
    OBVIOUS
  <1>1. PICK a \in {Nobody, 1}, b \in {Nobody, 1} : children = <<Paragraph(1, a), Paragraph(2, b)>>
    BY DEF EditingInit
  <1>2. 1 \in Ids /\ 2 \in Ids /\ a \in Speakers /\ b \in Speakers
    BY EditingAssumption DEF Ids, Speakers, Nobody
  <1>3. Paragraph(1, a) \in ParagraphSet /\ Paragraph(2, b) \in ParagraphSet
    BY <1>2 DEF Paragraph, ParagraphSet
  <1>4. children \in Seq(ParagraphSet)
    BY <1>1, <1>3
  <1>5. /\ DOMAIN children = {1, 2} /\ children[1] = Paragraph(1, a) /\ children[2] = Paragraph(2, b)
    BY <1>1
  <1>6. children[1].id = 1 /\ children[2].id = 2 /\ edits = 0
    <2>1. Paragraph(1, a).id = 1 /\ Paragraph(2, b).id = 2
      BY DEF Paragraph
    <2> QED BY <1>5, <2>1 DEF EditingInit
  <1>7. ParagraphInv
    BY <1>4, <1>5, <1>6 DEF ParagraphInv
  <1>8. DOMAIN speakerNames \subseteq 1 .. MaxSpeakers
    <2>1. DOMAIN <<>> = {}
      BY EmptySeq
    <2>2. 1 \in 1 .. MaxSpeakers
      BY EditingAssumption
    <2>3. speakerNames = <<>> \/ DOMAIN speakerNames = {1}
      BY DEF EditingInit
    <2> QED BY <2>1, <2>2, <2>3
  <1>9. readOnly \in BOOLEAN /\ edits \in 0 .. MaxEdits /\ dialog = NoDialog
    <2>1. 0 \in 0 .. MaxEdits
      BY EditingAssumption
    <2> QED BY <2>1 DEF EditingInit
  <1> QED BY <1>7, <1>8, <1>9 DEF EditingInv, DialogInv

LEMMA AddNewSpeakerStep ==
  ASSUME EditingInv, CanAdd, NEW name, AddNewSpeaker(name)
  PROVE  /\ DOMAIN speakerNames' = DOMAIN speakerNames \cup {FreshId}
         /\ DOMAIN speakerNames' \subseteq 1 .. MaxSpeakers
         /\ FreshId \in Speakers \ {Nobody}
         /\ \A s \in DOMAIN speakerNames' :
              speakerNames'[s] = IF s = FreshId THEN name ELSE speakerNames[s]
  BY FreshIdIsFresh, EditingAssumption DEF AddNewSpeaker, ChangeSpeakerName, EditingInv, Speakers, Nobody

LEMMA ParagraphsKept ==
  ASSUME ParagraphInv, children' \in Seq(ParagraphSet), DOMAIN children' = DOMAIN children,
         \A i \in DOMAIN children : children'[i].id = children[i].id, UNCHANGED edits
  PROVE  ParagraphInv'
  BY DEF ParagraphInv

LEMMA IndexInNat == ASSUME ParagraphInv PROVE \A i \in DOMAIN children : i \in Nat
  BY LenProperties DEF ParagraphInv

LEMMA DropdownStep ==
  ASSUME EditingInv, NEW i \in DOMAIN children,
         \/ ChooseSpeaker(i) \/ ChooseOption(i) \/ UnsetSpeaker(i)
         \/ OpenNewSpeaker(i) \/ OpenRename(i)
  PROVE  EditingInv'
  <1>1. ASSUME NEW s \in Speakers, SetSpeaker(i, s), UNCHANGED <<readOnly, dialog, edits>>,
               dialog = NoDialog, DOMAIN speakerNames' \subseteq 1 .. MaxSpeakers
        PROVE  EditingInv'
    <2>1. ParagraphInv'
      BY <1>1, SetSpeakerStep, ParagraphsKept DEF EditingInv
    <2> QED BY <1>1, <2>1 DEF EditingInv, DialogInv
  <1>2. CASE ChooseSpeaker(i)
    <2>1. PICK s \in SpeakersInUse : SetSpeaker(i, s)
      BY <1>2 DEF ChooseSpeaker
    <2>2. s \in Speakers
      <3>1. PICK j \in DOMAIN children : s = children[j].speaker
        BY DEF SpeakersInUse, SpeakerIds
      <3>2. children[j] \in ParagraphSet
        BY LenProperties, ElementOfSeq DEF EditingInv, ParagraphInv
      <3> QED BY <3>1, <3>2 DEF ParagraphSet
    <2> QED BY <1>1, <1>2, <2>1, <2>2 DEF ChooseSpeaker, CanChoose, EditingInv
  <1>3. CASE ChooseOption(i)
    <2>1. PICK name \in AdditionalSpeakers : AddNewSpeaker(name)
      BY <1>3 DEF ChooseOption
    <2>2. FreshId \in Speakers /\ DOMAIN speakerNames' \subseteq 1 .. MaxSpeakers
      BY <1>3, <2>1, AddNewSpeakerStep DEF ChooseOption
    <2> QED BY <1>1, <1>3, <2>2 DEF ChooseOption, CanChoose
  <1>4. CASE UnsetSpeaker(i)
    <2>1. Nobody \in Speakers
      BY EditingAssumption DEF Nobody, Speakers
    <2> QED BY <1>1, <1>4, <2>1 DEF UnsetSpeaker, CanChoose, EditingInv
  <1>5. children[i] \in ParagraphSet
    BY LenProperties, ElementOfSeq DEF EditingInv, ParagraphInv
  <1>6. CASE OpenNewSpeaker(i)
    <2>1. dialog' \in [kind : {"new"}, id : Ids, index : Nat, stale : BOOLEAN]
      BY <1>5, <1>6, IndexInNat DEF OpenNewSpeaker, ParagraphSet, EditingInv
    <2>2. dialog'.index = i /\ dialog'.id = children[i].id
      BY <1>6 DEF OpenNewSpeaker
    <2> QED BY <1>6, <2>1, <2>2 DEF OpenNewSpeaker, EditingInv, ParagraphInv, DialogInv
  <1>7. CASE OpenRename(i)
    <2>1. dialog' \in [kind : {"rename"}, speaker : Speakers \ {Nobody}]
      BY <1>5, <1>7 DEF OpenRename, ParagraphSet
    <2> QED BY <1>7, <2>1 DEF OpenRename, EditingInv, ParagraphInv, DialogInv
  <1> QED BY <1>2, <1>3, <1>4, <1>6, <1>7

LEMMA DialogStep ==
  ASSUME EditingInv,
         CloseDialog \/ \E name \in Names : SubmitNewSpeaker(name) \/ SubmitRename(name)
  PROVE  EditingInv'
  <1>1. CASE CloseDialog
    BY <1>1 DEF CloseDialog, EditingInv, ParagraphInv, DialogInv
  <1>2. ASSUME NEW name \in Names, SubmitNewSpeaker(name) PROVE EditingInv'
    <2>1. FreshId \in Speakers /\ DOMAIN speakerNames' \subseteq 1 .. MaxSpeakers
      BY <1>2, AddNewSpeakerStep DEF SubmitNewSpeaker
    <2>2. ParagraphInv'
      <3>1. CASE dialog.index \in DOMAIN children
        BY <1>2, <2>1, <3>1, SetSpeakerStep, ParagraphsKept DEF SubmitNewSpeaker, EditingInv
      <3>2. CASE dialog.index \notin DOMAIN children
        BY <1>2, <3>2 DEF SubmitNewSpeaker, EditingInv, ParagraphInv
      <3> QED BY <3>1, <3>2
    <2> QED BY <1>2, <2>1, <2>2 DEF SubmitNewSpeaker, EditingInv, DialogInv
  <1>3. ASSUME NEW name \in Names, SubmitRename(name) PROVE EditingInv'
    <2>1. dialog.speaker \in 1 .. MaxSpeakers
      BY <1>3, EditingAssumption DEF SubmitRename, EditingInv, DialogInv, NoDialog, Speakers, Nobody
    <2>2. DOMAIN speakerNames' \subseteq 1 .. MaxSpeakers
      BY <1>3, <2>1 DEF SubmitRename, ChangeSpeakerName, EditingInv
    <2> QED BY <1>3, <2>2 DEF SubmitRename, EditingInv, ParagraphInv, DialogInv
  <1> QED BY <1>1, <1>2, <1>3

\* What findPath answers for a dialog that is not stale is where its paragraph is.
LEMMA RenderedStep ==
  ASSUME DialogInv, NEW paragraphs, NEW edited, \A i \in DOMAIN paragraphs : i \in Nat,
         dialog' = Rendered(dialog, paragraphs, edited), children' = paragraphs
  PROVE  DialogInv'
  <1>1. CASE dialog.kind # "new" \/ dialog.stale
    <2>1. dialog' = dialog
      BY <1>1 DEF Rendered
    <2> QED BY <1>1, <2>1 DEF DialogInv, NoDialog
  <1>2. CASE dialog.kind = "new" /\ ~dialog.stale
    <2> DEFINE here == {i \in DOMAIN paragraphs : paragraphs[i].id = dialog.id}
    <2>1. dialog \in [kind : {"new"}, id : Ids, index : Nat, stale : BOOLEAN]
      BY <1>2 DEF DialogInv, NoDialog
    <2>2. dialog' = IF dialog.id \in edited \/ here = {} THEN [dialog EXCEPT !.stale = TRUE]
                    ELSE [dialog EXCEPT !.index = CHOOSE i \in here : TRUE]
      BY <1>2 DEF Rendered
    <2>3. CASE dialog' = [dialog EXCEPT !.stale = TRUE]
      BY <2>1, <2>3 DEF DialogInv
    <2>4. CASE here # {} /\ dialog' = [dialog EXCEPT !.index = CHOOSE i \in here : TRUE]
      <3>1. PICK k : k \in here /\ k = CHOOSE i \in here : TRUE
        BY <2>4
      <3>2. k \in Nat /\ k \in DOMAIN paragraphs /\ paragraphs[k].id = dialog.id
        BY <3>1
      <3>3. dialog' = [dialog EXCEPT !.index = k]
        BY <2>4, <3>1
      <3> HIDE DEF here
      <3>4. /\ dialog' \in [kind : {"new"}, id : Ids, index : Nat, stale : BOOLEAN]
            /\ dialog'.index = k /\ dialog'.id = dialog.id
        BY <2>1, <3>2, <3>3
      <3> QED BY <3>2, <3>4 DEF DialogInv
    <2> QED BY <2>2, <2>3, <2>4
  <1> QED BY <1>1, <1>2

LEMMA OthersStep == ASSUME EditingInv, OthersEdit PROVE EditingInv'
  <1>0. /\ Len(children) \in Nat /\ DOMAIN children = 1 .. Len(children)
        /\ children \in Seq(ParagraphSet)
    BY LenProperties DEF EditingInv, ParagraphInv
  <1>1. PICK i \in 1 .. Len(children) :
          \/ /\ UNCHANGED children
             /\ dialog' = Rendered(dialog, children, {children[i].id})
          \/ /\ children' \in {InsertAt(children, i, Paragraph(3 + edits, children[i].speaker)),
                              RemoveAt(children, i)}
             /\ dialog' = Rendered(dialog, children', {})
    BY <1>0 DEF OthersEdit
  <1>2. /\ Len(children) \in Nat /\ DOMAIN children = 1 .. Len(children)
        /\ children \in Seq(ParagraphSet) /\ children[i] \in ParagraphSet
    BY <1>0, ElementOfSeq
  <1>3. edits' = edits + 1 /\ edits \in Nat /\ edits < MaxEdits /\ UNCHANGED <<readOnly, speakerNames>>
    BY EditingAssumption DEF OthersEdit, EditingInv
  <1> DEFINE new == Paragraph(3 + edits, children[i].speaker)
  <1>4. new \in ParagraphSet /\ new.id = 3 + edits
    <2>1. 3 + edits \in Ids
      BY <1>3, EditingAssumption DEF Ids
    <2> QED BY <1>2, <2>1 DEF Paragraph, ParagraphSet
  <1> HIDE DEF new
  <1>5. \A j \in 1 .. Len(children) : children[j].id \in Nat /\ children[j].id < 3 + edits
    <2>1. \A j \in DOMAIN children : children[j] \in ParagraphSet
      BY <1>2, ElementOfSeq
    <2>2. Ids \subseteq Nat
      BY EditingAssumption DEF Ids
    <2>3. \A j \in DOMAIN children : children[j].id \in Nat
      BY <2>1, <2>2 DEF ParagraphSet
    <2> QED BY <1>2, <1>3, <2>3 DEF EditingInv, ParagraphInv
  <1>6. ParagraphInv' /\ \A j \in DOMAIN children' : j \in Nat
    <2>1. CASE UNCHANGED children
      BY <1>2, <1>3, <1>5, <2>1 DEF EditingInv, ParagraphInv
    <2>2. CASE children' = InsertAt(children, i, new)
      <3>1. /\ children' \in Seq(ParagraphSet) /\ DOMAIN children' = 1 .. Len(children) + 1
            /\ \A j \in 1 .. i - 1 : children'[j] = children[j]
            /\ children'[i] = new
            /\ \A j \in i .. Len(children) : children'[j + 1] = children[j]
        <4> DEFINE longer == InsertAt(children, i, new)
        <4>1. i \in 1 .. Len(children) /\ children \in Seq(ParagraphSet) /\ new \in ParagraphSet
          BY <1>2, <1>4
        <4>2. /\ longer \in Seq(ParagraphSet) /\ DOMAIN longer = 1 .. Len(children) + 1
              /\ \A j \in 1 .. i - 1 : longer[j] = children[j]
              /\ longer[i] = new
              /\ \A j \in i .. Len(children) : longer[j + 1] = children[j]
          BY <4>1, InsertAtStep
        <4> HIDE DEF longer
        <4> QED BY <2>2, <4>2 DEF longer
      <3>2. \A j \in 1 .. Len(children) + 1 :
              /\ j \in Nat
              /\ j < i => j \in 1 .. i - 1 /\ j \in 1 .. Len(children)
              /\ j > i => j - 1 \in i .. Len(children) /\ j - 1 \in 1 .. Len(children)
                         /\ (j - 1) + 1 = j
              /\ j < i \/ j = i \/ j > i
        BY <1>2
      <3>3. \A j \in 1 .. Len(children) + 1 :
              /\ j < i => children'[j].id = children[j].id
              /\ j > i => children'[j].id = children[j - 1].id
              /\ j = i => children'[j].id = 3 + edits
        BY <1>2, <1>4, <3>1, <3>2
      <3>4. ASSUME NEW j \in 1 .. Len(children) + 1 PROVE children'[j].id <= 2 + edits'
        <4>1. \A n \in Nat : n < 3 + edits => n <= 2 + edits'
          BY <1>3
        <4>2. 3 + edits <= 2 + edits'
          BY <1>3
        <4>3. /\ j \in 1 .. Len(children) => children[j].id <= 2 + edits'
              /\ j + 1 \in 1 .. Len(children) => children[j + 1].id <= 2 + edits'
              /\ j - 1 \in 1 .. Len(children) => children[j - 1].id <= 2 + edits'
          BY <1>5, <4>1
        <4> QED BY <3>2, <3>3, <4>2, <4>3
      <3>5. ASSUME NEW j \in 1 .. Len(children) + 1, NEW k \in 1 .. Len(children) + 1,
                   children'[j].id = children'[k].id
            PROVE  j = k
        <4>1. \A a, b \in 1 .. Len(children) : children[a].id = children[b].id => a = b
          BY <1>2 DEF EditingInv, ParagraphInv
        <4>2. i \in Nat /\ j \in Nat /\ k \in Nat
          BY <1>2, <3>1, <3>2
        <4> DEFINE o(m) == IF m < i THEN m ELSE m - 1
        <4>3. ASSUME NEW m \in 1 .. Len(children) + 1, m # i
              PROVE  o(m) \in 1 .. Len(children) /\ children'[m].id = children[o(m)].id
          <5>1. CASE m < i
            BY <3>2, <3>3, <4>2, <5>1
          <5>2. CASE m > i
            BY <3>2, <3>3, <4>2, <5>2
          <5> QED BY <3>2, <4>2, <4>3, <5>1, <5>2
        <4>4. CASE j = i /\ k = i
          BY <4>4
        <4>5. CASE j = i /\ k # i
          <5>1. children'[k].id # 3 + edits
            BY <1>5, <4>3, <4>5
          <5> QED BY <3>3, <3>5, <4>5, <5>1
        <4>6. CASE j # i /\ k = i
          <5>1. children'[j].id # 3 + edits
            BY <1>5, <4>3, <4>6
          <5> QED BY <3>3, <3>5, <4>6, <5>1
        <4>7. CASE j # i /\ k # i
          <5>1. children[o(j)].id = children[o(k)].id /\ o(j) \in 1 .. Len(children) /\ o(k) \in 1 .. Len(children)
            BY <3>5, <4>3, <4>7
          <5>2. o(j) = o(k)
            <6> HIDE DEF o
            <6> QED BY <4>1, <5>1
          <5> QED BY <4>2, <4>7, <5>2
        <4> QED BY <4>4, <4>5, <4>6, <4>7
      <3> QED BY <3>1, <3>2, <3>4, <3>5 DEF ParagraphInv
    <2>3. CASE children' = RemoveAt(children, i)
      <3>1. /\ children' \in Seq(ParagraphSet) /\ DOMAIN children' = 1 .. Len(children) - 1
            /\ \A j \in 1 .. Len(children) - 1 :
                 children'[j] = IF j < i THEN children[j] ELSE children[j + 1]
        BY <1>2, <2>3, RemoveAtStep
      <3>2. \A j \in 1 .. Len(children) - 1 :
              j \in Nat /\ j \in 1 .. Len(children) /\ j + 1 \in 1 .. Len(children)
        BY <1>2
      <3>3. \A j \in 1 .. Len(children) - 1 :
              children'[j].id = IF j < i THEN children[j].id ELSE children[j + 1].id
        BY <3>1
      <3>4. ASSUME NEW j \in 1 .. Len(children) - 1 PROVE children'[j].id <= 2 + edits'
        <4>1. \A n \in Nat : n < 3 + edits => n <= 2 + edits'
          BY <1>3
        <4>2. 3 + edits <= 2 + edits'
          BY <1>3
        <4>3. /\ j \in 1 .. Len(children) => children[j].id <= 2 + edits'
              /\ j + 1 \in 1 .. Len(children) => children[j + 1].id <= 2 + edits'
              /\ j - 1 \in 1 .. Len(children) => children[j - 1].id <= 2 + edits'
          BY <1>5, <4>1
        <4> QED BY <3>2, <3>3, <4>2, <4>3
      <3>5. ASSUME NEW j \in 1 .. Len(children) - 1, NEW k \in 1 .. Len(children) - 1,
                   children'[j].id = children'[k].id
            PROVE  j = k
        <4>1. \A a, b \in 1 .. Len(children) : children[a].id = children[b].id => a = b
          BY <1>2 DEF EditingInv, ParagraphInv
        <4>2. i \in Nat /\ j \in Nat /\ k \in Nat
          BY <1>2, <3>2
        <4> DEFINE o(m) == IF m < i THEN m ELSE m + 1
        <4>3. ASSUME NEW m \in 1 .. Len(children) - 1
              PROVE  o(m) \in 1 .. Len(children) /\ children'[m].id = children[o(m)].id
          <5>1. CASE m < i
            BY <3>2, <3>3, <5>1
          <5>2. CASE ~(m < i)
            BY <3>2, <3>3, <5>2
          <5> QED BY <5>1, <5>2
        <4>4. children[o(j)].id = children[o(k)].id /\ o(j) \in 1 .. Len(children) /\ o(k) \in 1 .. Len(children)
          BY <3>5, <4>3
        <4>5. o(j) = o(k)
          <5> HIDE DEF o
          <5> QED BY <4>1, <4>4
        <4> QED BY <4>2, <4>5
      <3> QED BY <3>1, <3>2, <3>4, <3>5 DEF ParagraphInv
    <2> QED BY <1>1, <2>1, <2>2, <2>3 DEF new
  <1>7. DialogInv'
    <2>1. PICK edited : dialog' = Rendered(dialog, children', edited)
      BY <1>1
    <2> QED BY <1>6, <2>1, RenderedStep DEF EditingInv
  <1>8. edits' \in 0 .. MaxEdits
    BY <1>3, EditingAssumption
  <1> QED BY <1>3, <1>6, <1>7, <1>8 DEF EditingInv

LEMMA OthersSpeakStep == ASSUME EditingInv, OthersSpeak PROVE EditingInv'
  <1>1. PICK chosen \in SUBSET DOMAIN children, speaker \in Speakers :
          /\ children' = [i \in DOMAIN children |->
                            IF i \in chosen THEN [children[i] EXCEPT !.speaker = speaker]
                            ELSE children[i]]
          /\ dialog' = Rendered(dialog, children', {children[i].id : i \in chosen})
          /\ \/ UNCHANGED speakerNames
             \/ speaker # Nobody /\ \E name \in Names \cup Options : ChangeSpeakerName(speaker, name)
    BY DEF OthersSpeak
  <1>2. edits' = edits + 1 /\ edits \in Nat /\ edits < MaxEdits /\ UNCHANGED readOnly
    BY EditingAssumption DEF OthersSpeak, EditingInv
  <1>3. /\ Len(children) \in Nat /\ DOMAIN children = 1 .. Len(children)
        /\ \A i \in DOMAIN children : children[i] \in ParagraphSet
    BY LenProperties, ElementOfSeq DEF EditingInv, ParagraphInv
  <1>4. \A i \in DOMAIN children : /\ [children[i] EXCEPT !.speaker = speaker] \in ParagraphSet
                                   /\ [children[i] EXCEPT !.speaker = speaker].id = children[i].id
    BY <1>3 DEF ParagraphSet
  <1>5. \A i \in DOMAIN children : children'[i] \in ParagraphSet /\ children'[i].id = children[i].id
    BY <1>1, <1>3, <1>4
  <1>6. children' \in Seq(ParagraphSet) /\ DOMAIN children' = DOMAIN children
    <2>1. children' = [i \in 1 .. Len(children) |-> children'[i]]
      BY <1>1, <1>3
    <2> QED BY <1>3, <1>5, <2>1, IsASeq
  <1>7. ParagraphInv'
    <2>1. \A i \in DOMAIN children : children[i].id <= 2 + edits /\ children[i].id \in Nat
      BY <1>3, EditingAssumption DEF EditingInv, ParagraphInv, ParagraphSet, Ids
    <2>2. \A i \in DOMAIN children' : children'[i].id <= 2 + edits'
      BY <1>2, <1>5, <1>6, <2>1
    <2> QED BY <1>5, <1>6, <2>2 DEF EditingInv, ParagraphInv
  <1>8. DialogInv'
    <2>1. \A i \in DOMAIN children' : i \in Nat
      BY <1>3, <1>6
    <2> QED BY <1>1, <2>1, RenderedStep DEF EditingInv
  <1>9. DOMAIN speakerNames' \subseteq 1 .. MaxSpeakers
    <2>1. CASE UNCHANGED speakerNames
      BY <2>1 DEF EditingInv
    <2>2. ASSUME NEW name, speaker # Nobody, ChangeSpeakerName(speaker, name)
          PROVE  DOMAIN speakerNames' \subseteq 1 .. MaxSpeakers
      <3>1. speaker \in 1 .. MaxSpeakers
        BY <2>2, EditingAssumption DEF Speakers, Nobody
      <3> QED BY <2>2, <3>1 DEF ChangeSpeakerName, EditingInv
    <2> QED BY <1>1, <2>1, <2>2
  <1>10. edits' \in 0 .. MaxEdits
    BY <1>2, EditingAssumption
  <1> QED BY <1>2, <1>7, <1>8, <1>9, <1>10 DEF EditingInv

LEMMA EditingStep == EditingInv /\ [EditingNext]_editingVars => EditingInv'
  <1> SUFFICES ASSUME EditingInv, [EditingNext]_editingVars PROVE EditingInv'
    OBVIOUS
  <1>1. CASE UNCHANGED editingVars
    BY <1>1 DEF editingVars, EditingInv, ParagraphInv, DialogInv
  <1>2. CASE EditingNext
    BY <1>2, DropdownStep, DialogStep, OthersStep, OthersSpeakStep DEF EditingNext
  <1> QED BY <1>1, <1>2

-----------------------------------------------------------------------------
(* Speakers: what the properties need.                                     *)

LEMMA SpeakerIdsTyped ==
  ASSUME EditingInv PROVE SpeakerIds \subseteq Speakers /\ SpeakersInUse \subseteq 1 .. MaxSpeakers
  <1>1. ASSUME NEW s \in SpeakerIds PROVE s \in Speakers
    <2>1. PICK j \in DOMAIN children : s = children[j].speaker
      BY DEF SpeakerIds
    <2>2. children[j] \in ParagraphSet
      BY LenProperties, ElementOfSeq DEF EditingInv, ParagraphInv
    <2> QED BY <2>1, <2>2 DEF ParagraphSet
  <1> QED BY <1>1, EditingAssumption DEF SpeakersInUse, Speakers, Nobody

LEMMA SpeakersAfter ==
  ASSUME EditingInv, NEW i \in DOMAIN children, NEW s \in Speakers, SetSpeaker(i, s)
  PROVE  SpeakersInUse' \subseteq SpeakersInUse \cup ({s} \ {Nobody})
  BY SetSpeakerStep DEF SpeakersInUse, SpeakerIds

\* Only the items of the dropdown leave both the dialog and others' changes alone.
LEMMA DropdownOnly ==
  ASSUME EditingInv, EditingNext, edits' = edits, dialog' = dialog
  PROVE  \E i \in DOMAIN children : ChooseSpeaker(i) \/ ChooseOption(i) \/ UnsetSpeaker(i)
  <1>1. ~OthersEdit /\ ~OthersSpeak
    <2>1. edits \in Nat
      BY EditingAssumption DEF EditingInv
    <2> QED BY <2>1 DEF OthersEdit, OthersSpeak
  <1>2. \A i \in DOMAIN children : ~OpenNewSpeaker(i) /\ ~OpenRename(i)
    BY DEF OpenNewSpeaker, OpenRename, CanChoose, NoDialog
  <1>3. ~CloseDialog /\ \A name \in Names : ~SubmitNewSpeaker(name) /\ ~SubmitRename(name)
    <2>1. ~CloseDialog
      BY DEF CloseDialog
    <2>2. ASSUME NEW name, SubmitNewSpeaker(name) \/ SubmitRename(name) PROVE FALSE
      <3>1. dialog' = NoDialog /\ dialog.kind # "none"
        BY <2>2 DEF SubmitNewSpeaker, SubmitRename
      <3> QED BY <3>1 DEF NoDialog
    <2> QED BY <2>1, <2>2
  <1> QED BY <1>1, <1>2, <1>3 DEF EditingNext

\* A chosen speaker was in use, or is new and has a name nobody in use has.
LEMMA ChoiceStep ==
  ASSUME EditingInv, EditingNext, edits' = edits, dialog' = dialog,
         NEW s \in SpeakersInUse', NEW t \in SpeakersInUse', s # t,
         GetSpeakerName(s)' = GetSpeakerName(t)'
  PROVE  {s, t} \subseteq SpeakersInUse /\ GetSpeakerName(s) = GetSpeakerName(t)
  <1>1. PICK i \in DOMAIN children : ChooseSpeaker(i) \/ ChooseOption(i) \/ UnsetSpeaker(i)
    BY DropdownOnly
  <1>2. CASE SpeakersInUse' \subseteq SpeakersInUse /\ UNCHANGED speakerNames
    BY <1>2 DEF GetSpeakerName
  <1>3. CASE ChooseSpeaker(i)
    <2>1. PICK u \in SpeakersInUse : SetSpeaker(i, u)
      BY <1>3 DEF ChooseSpeaker
    <2>2. u \in Speakers
      BY SpeakerIdsTyped DEF SpeakersInUse
    <2> QED BY <1>2, <1>3, <2>1, <2>2, SpeakersAfter DEF ChooseSpeaker
  <1>4. CASE UnsetSpeaker(i)
    <2>1. Nobody \in Speakers
      BY EditingAssumption DEF Nobody, Speakers
    <2> QED BY <1>2, <1>4, <2>1, SpeakersAfter DEF UnsetSpeaker
  <1>5. CASE ChooseOption(i)
    <2>1. PICK name \in AdditionalSpeakers : AddNewSpeaker(name)
      BY <1>5 DEF ChooseOption
    <2>2. PICK f \in Speakers \ {Nobody} :
          /\ f = FreshId /\ f \notin SpeakersInUse
          /\ DOMAIN speakerNames' = DOMAIN speakerNames \cup {f}
          /\ \A u \in DOMAIN speakerNames' : speakerNames'[u] = IF u = f THEN name ELSE speakerNames[u]
      BY <1>5, <2>1, FreshIdIsFresh, AddNewSpeakerStep DEF ChooseOption, SpeakersInUse
    <2>3. SpeakersInUse' \subseteq SpeakersInUse \cup {f}
      BY <1>5, <2>2, SpeakersAfter DEF ChooseOption
    <2>4. \A u \in SpeakersInUse : GetSpeakerName(u) # name
      BY <2>1 DEF AdditionalSpeakers
    <2>5. ASSUME NEW u \in SpeakersInUse PROVE GetSpeakerName(u)' = GetSpeakerName(u)
      <3>1. u \in DOMAIN speakerNames' <=> u \in DOMAIN speakerNames
        BY <2>2
      <3>2. u \in DOMAIN speakerNames => speakerNames'[u] = speakerNames[u]
        BY <2>2
      <3> QED BY <3>1, <3>2 DEF GetSpeakerName
    <2>6. GetSpeakerName(f)' = name
      <3>1. f # Nobody /\ f \in DOMAIN speakerNames' /\ speakerNames'[f] = name
        BY <2>2
      <3> QED BY <3>1 DEF GetSpeakerName
    <2>7. s # f /\ t # f
      <3>1. CASE s = f
        <4>1. t \in SpeakersInUse
          BY <2>3, <3>1
        <4> QED BY <2>4, <2>5, <2>6, <3>1, <4>1
      <3>2. CASE t = f
        <4>1. s \in SpeakersInUse
          BY <2>3, <3>2
        <4> QED BY <2>4, <2>5, <2>6, <3>2, <4>1
      <3> QED BY <3>1, <3>2
    <2>8. s \in SpeakersInUse /\ t \in SpeakersInUse
      BY <2>3, <2>7
    <2> QED BY <2>5, <2>8
  <1> QED BY <1>1, <1>3, <1>4, <1>5

\* Only the dialog's submit button gives a speaker a name while the dialog closes.
LEMMA NewSpeakerStep ==
  ASSUME EditingInv, EditingNext, NEW i \in DOMAIN children,
         dialog.kind = "new", dialog' = NoDialog, speakerNames' # speakerNames,
         children[i].id = dialog.id, ~dialog.stale
  PROVE  /\ children'[i].speaker \in DOMAIN speakerNames' \ DOMAIN speakerNames
         /\ \A j \in 1 .. i - 1 : children'[j] = children[j]
  <1>1. PICK name \in Names : SubmitNewSpeaker(name)
    <2>1. dialog # NoDialog
      BY DEF NoDialog
    <2>2. \A k \in DOMAIN children :
            ~(ChooseSpeaker(k) \/ ChooseOption(k) \/ UnsetSpeaker(k) \/ OpenNewSpeaker(k) \/ OpenRename(k))
      BY <2>1 DEF ChooseSpeaker, ChooseOption, UnsetSpeaker, OpenNewSpeaker, OpenRename, CanChoose
    <2>3. ~CloseDialog /\ ~OthersEdit /\ ~OthersSpeak
      <3>1. \A edited : Rendered(dialog, children', edited) # NoDialog
        <4>1. dialog.kind = "new" /\ dialog \in [kind : {"new"}, id : Ids, index : Nat, stale : BOOLEAN]
          BY DEF EditingInv, DialogInv, NoDialog
        <4>2. /\ [dialog EXCEPT !.stale = TRUE].kind = "new"
              /\ \A n : [dialog EXCEPT !.index = n].kind = "new"
          BY <4>1
        <4> QED BY <4>1, <4>2 DEF Rendered, NoDialog
      <3> QED BY <3>1 DEF CloseDialog, OthersEdit, OthersSpeak
    <2>4. \A n \in Names : ~SubmitRename(n)
      BY DEF SubmitRename
    <2> QED BY <2>2, <2>3, <2>4 DEF EditingNext
  <1>2. dialog.index = i /\ i \in DOMAIN children
    BY DEF EditingInv, DialogInv, ParagraphInv, NoDialog
  <1>3. /\ FreshId \in Speakers /\ FreshId \notin DOMAIN speakerNames
        /\ FreshId \in DOMAIN speakerNames'
    BY <1>1, FreshIdIsFresh, AddNewSpeakerStep DEF SubmitNewSpeaker
  <1>4. SetSpeaker(i, FreshId)
    BY <1>1, <1>2 DEF SubmitNewSpeaker
  <1>5. /\ children'[i].speaker = FreshId
        /\ \A j \in DOMAIN children : j < i => children'[j] = children[j]
    BY <1>3, <1>4, SetSpeakerStep
  <1>6. \A j \in 1 .. i - 1 : j \in DOMAIN children /\ j < i
    <2>1. Len(children) \in Nat /\ DOMAIN children = 1 .. Len(children)
      BY LenProperties DEF EditingInv, ParagraphInv
    <2>2. i \in 1 .. Len(children)
      BY <2>1
    <2>3. \A j \in 1 .. i - 1 : j \in 1 .. Len(children) /\ j < i
      BY <2>1, <2>2
    <2> QED BY <2>1, <2>3
  <1> QED BY <1>3, <1>5, <1>6

LEMMA EditingInvCorrect == EditingSpec => []EditingInv
  BY EditingAtStart, EditingStep, PTL DEF EditingSpec

\* The transcript keeps its shape: ids of paragraphs stay distinct and every
\* speaker is one that was given.
THEOREM EditingTypeCorrect == EditingSpec => []EditingTypeOK
  BY EditingTyped, EditingInvCorrect, PTL

\* Whatever is chosen in the dropdown, and however many others name speakers: no
\* choice makes two speakers have one name.
THEOREM ChoicesKeepSpeakersApartCorrect == EditingSpec => ChoicesKeepSpeakersApart
  <1> DEFINE Apart == \A s, t \in SpeakersInUse' :
                         /\ edits' = edits /\ dialog' = dialog
                         /\ s # t /\ GetSpeakerName(s)' = GetSpeakerName(t)'
                         => /\ {s, t} \subseteq SpeakersInUse
                            /\ GetSpeakerName(s) = GetSpeakerName(t)
  <1>1. EditingInv /\ [EditingNext]_editingVars => [Apart]_editingVars
    BY ChoiceStep
  <1> QED BY <1>1, EditingInvCorrect, PTL DEF EditingSpec, ChoicesKeepSpeakersApart

\* A new speaker goes to the paragraph for which the dialog was opened.
THEOREM NewSpeakerHitsParagraphCorrect == EditingSpec => NewSpeakerHitsParagraph
  <1> DEFINE Hits == \A i \in DOMAIN children :
                 /\ dialog.kind = "new" /\ dialog' = NoDialog /\ speakerNames' # speakerNames
                 /\ children[i].id = dialog.id /\ ~dialog.stale
                 => /\ children'[i].speaker \in DOMAIN speakerNames' \ DOMAIN speakerNames
                    /\ \A j \in 1 .. i - 1 : children'[j] = children[j]
  <1>1. EditingInv /\ [EditingNext]_editingVars => [Hits]_editingVars
    BY NewSpeakerStep
  <1> QED BY <1>1, EditingInvCorrect, PTL DEF EditingSpec, NewSpeakerHitsParagraph

-----------------------------------------------------------------------------
(* Pages: what is known of the cache, the requests and the answers.          *)

Fetches == {"idle", "asked", "read", "failed"}

\* An entry per key, of which it does not matter what the data are.
Cached(c) ==
  /\ c = [k \in Keys |-> c[k]]
  /\ \A k \in Keys : /\ c[k] = [data |-> c[k].data, fetch |-> c[k].fetch, answer |-> c[k].answer]
                     /\ c[k].fetch \in Fetches

Requested(r) ==
  /\ DOMAIN r = {"op", "arg", "old", "session", "id", "phase", "applied"}
  /\ r.op \in Operations /\ r.phase \in {"sent", "done", "failed"} /\ r.applied \in BOOLEAN
  /\ r.id \in 0 .. MaxAsked - 1
  /\ r.op = "rename" => r.arg \in NewTitles
  /\ r.op = "share" => r.arg \in ShareLinks
  /\ r.op = "create" => r.arg = "new"

WebShape ==
  /\ Cached(swr)
  /\ \A r \in asked : Requested(r)
  /\ server \in [title : NewTitles \cup {FirstTitle}, links : SUBSET ShareLinks,
                 documents : SUBSET (Gallery \cup {"new"}), sessions : SUBSET (1 .. MaxAsked + 1)]
  /\ form \in [editing : BOOLEAN, modal : BOOLEAN, loading : BOOLEAN]
  /\ page \in Pages /\ auth \in 0 .. MaxAsked + 1 /\ hasShareToken \in BOOLEAN
  /\ topic \in Keys /\ used \in 0 .. MaxAsked /\ unheard \subseteq Keys

\* Requests that have changed what the backend has of a key, or what is shown.
AppliedTo(k) == \E r \in asked : KeyOf(r.op) = k /\ r.applied
Disturbed(k) == \E r \in asked : KeyOf(r.op) = k /\ (r.applied \/ r.op = "rename")

Current(k, v) ==
  CASE k = "document" -> Head(v).name = server.title
    [] k = "shareTokens" -> Head(v) = server.links
    [] k = "documents" -> Head(v) = server.documents
    [] OTHER -> TRUE

ShownAt(k) == k \in Mounted(page, form) /\ swr[k].fetch = "idle" /\ swr[k].data # NoData
AwaitedAt(k) == swr[k].fetch = "read" /\ swr[k].answer # NoData

\* What is shown, and what is about to be, are of the last change that was heard of.
FreshAt(k) ==
  /\ ShownAt(k) /\ k \notin unheard /\ ~Disturbed(k) => Current(k, swr[k].data)
  /\ AwaitedAt(k) /\ k \notin unheard /\ ~AppliedTo(k) => Current(k, swr[k].answer)

\* Who is known not to be signed in has no session.
MeInv == swr["me"].fetch = "idle" /\ swr["me"].data = NoData => auth = 0

WebInv == WebShape /\ MeInv /\ \A k \in Keys \ {"me"} : FreshAt(k)

LEMMA EntryType ==
  ASSUME NEW c, Cached(c), NEW k \in Keys
  PROVE  /\ c[k] = [data |-> c[k].data, fetch |-> c[k].fetch, answer |-> c[k].answer]
         /\ c[k].fetch \in Fetches
  BY DEF Cached

\* A function on the keys whose values are entries is a cache.
LEMMA CachedByEntry ==
  ASSUME NEW c, NEW d, c = [k \in Keys |-> d[k]],
         \A k \in Keys : /\ d[k] = [data |-> d[k].data, fetch |-> d[k].fetch, answer |-> d[k].answer]
                         /\ d[k].fetch \in Fetches
  PROVE  Cached(c) /\ \A k \in Keys : c[k] = d[k]
  <1>1. \A k \in Keys : c[k] = d[k]
    OBVIOUS
  <1> QED BY <1>1 DEF Cached

LEMMA MountedKeys == \A p, f : Mounted(p, f) \subseteq Keys /\ "me" \in Mounted(p, f)
  BY DEF Mounted, Keys



LEMMA MutatedStep ==
  ASSUME NEW c, Cached(c), NEW keys
  PROVE  /\ Cached(Mutated(c, keys))
         /\ \A k \in Keys : /\ Mutated(c, keys)[k].data = c[k].data
                            /\ k \in keys => /\ Mutated(c, keys)[k].fetch = "asked"
                                             /\ Mutated(c, keys)[k].answer = NoData
                            /\ k \notin keys => Mutated(c, keys)[k] = c[k]
  <1> DEFINE e(k) == [c[k] EXCEPT !.fetch = "asked", !.answer = NoData]
             m == Mutated(c, keys)
  <1>1. \A k \in Keys : m[k] = IF k \in keys THEN e(k) ELSE c[k]
    BY DEF Mutated
  <1>2. ASSUME NEW k \in Keys
        PROVE  e(k) = [data |-> c[k].data, fetch |-> "asked", answer |-> NoData]
    <2>1. c[k] = [data |-> c[k].data, fetch |-> c[k].fetch, answer |-> c[k].answer]
      BY EntryType
    <2> DEFINE n == [c[k] EXCEPT !.fetch = "asked", !.answer = NoData]
    <2>2. n = [x \in {"data", "fetch", "answer"} |-> n[x]]
      BY <2>1
    <2>3. n.answer = NoData
      BY <2>1
    <2>4. n.data = c[k].data
      BY <2>1
    <2>5. n.fetch = "asked"
      BY <2>1
    <2>6. e(k) = n
      OBVIOUS
    <2> HIDE DEF n, e
    <2>7. n = [data |-> n.data, fetch |-> n.fetch, answer |-> n.answer]
      BY <2>2
    <2> QED BY <2>3, <2>4, <2>5, <2>6, <2>7
  <1>3. m = [k \in Keys |-> m[k]]
    BY DEF Mutated
  <1> HIDE DEF e, m
  <1>4. ASSUME NEW k \in Keys
        PROVE  /\ m[k] = [data |-> m[k].data, fetch |-> m[k].fetch, answer |-> m[k].answer]
               /\ m[k].fetch \in Fetches /\ m[k].data = c[k].data
               /\ k \in keys => m[k].fetch = "asked" /\ m[k].answer = NoData
               /\ k \notin keys => m[k] = c[k]
    <2>1. CASE k \in keys
      BY <1>1, <1>2, <2>1 DEF Fetches
    <2>2. CASE k \notin keys
      BY <1>1, <2>2, EntryType
    <2> QED BY <2>1, <2>2
  <1>5. Cached(m)
    BY <1>3, <1>4 DEF Cached
  <1> QED BY <1>4, <1>5 DEF m

LEMMA EntrySetStep ==
  ASSUME NEW c, Cached(c), NEW k \in Keys, NEW e,
         e = [data |-> e.data, fetch |-> e.fetch, answer |-> e.answer], e.fetch \in Fetches
  PROVE  /\ Cached([c EXCEPT ![k] = e]) /\ [c EXCEPT ![k] = e][k] = e
         /\ \A j \in Keys \ {k} : [c EXCEPT ![k] = e][j] = c[j]
  <1> DEFINE m == [c EXCEPT ![k] = e]
  <1>1. DOMAIN c = Keys
    BY DEF Cached
  <1>2. m = [j \in Keys |-> m[j]] /\ \A j \in Keys : m[j] = IF j = k THEN e ELSE c[j]
    BY <1>1
  <1> HIDE DEF m
  <1>3. \A j \in Keys : /\ m[j] = [data |-> m[j].data, fetch |-> m[j].fetch, answer |-> m[j].answer]
                        /\ m[j].fetch \in Fetches
    <2>1. \A j \in Keys : m[j] = e \/ m[j] = c[j]
      BY <1>2
    <2> QED BY <2>1, EntryType
  <1>4. Cached(m)
    BY <1>2, <1>3 DEF Cached
  <1> QED BY <1>2, <1>4 DEF m

LEMMA OverwrittenStep ==
  ASSUME NEW c, Cached(c), NEW k \in Keys, NEW v
  PROVE  /\ Cached(Overwritten(c, k, v)) /\ Overwritten(c, k, v)[k].fetch = "idle"
         /\ \A j \in Keys \ {k} : Overwritten(c, k, v)[j] = c[j]
  <1> DEFINE e == [data |-> <<v>>, answer |-> NoData, fetch |-> "idle"]
  <1>1. /\ e = [data |-> e.data, fetch |-> e.fetch, answer |-> e.answer] /\ e.fetch \in Fetches
        /\ e.fetch = "idle"
    BY DEF Fetches
  <1>2. Overwritten(c, k, v) = [c EXCEPT ![k] = e]
    BY DEF Overwritten
  <1> HIDE DEF e
  <1>3. /\ Cached([c EXCEPT ![k] = e]) /\ [c EXCEPT ![k] = e][k] = e
        /\ \A j \in Keys \ {k} : [c EXCEPT ![k] = e][j] = c[j]
    BY <1>1, EntrySetStep
  <1> QED BY <1>1, <1>2, <1>3

\* Keys that come into use are fetched; those that stay in use are left alone.
LEMMA AppearedStep ==
  ASSUME NEW c, Cached(c), NEW p, NEW f
  PROVE  /\ Cached(Appeared(c, p, f))
         /\ \A k \in Keys : LET e == Appeared(c, p, f)[k] IN
              /\ k \in Mounted(p, f) => e.data = c[k].data
              /\ k \in Mounted(p, f) /\ k \notin Mounted(page, form) => e.fetch # "idle"
              /\ e.fetch = "idle" => c[k].fetch = "idle"
              /\ e.fetch = "read" => c[k].fetch = "read" /\ e.answer = c[k].answer
              /\ k \in Mounted(page, form) => e.fetch = c[k].fetch
  <1> DEFINE new == Mounted(p, f) \ Mounted(page, form)
             asks == {k \in new : c[k].fetch = "idle"}
             d(k) == IF k \in Mounted(p, f) THEN c[k] ELSE [c[k] EXCEPT !.data = NoData]
             kept2 == [k \in Keys |-> d(k)]
             m == Mutated(kept2, asks)
  <1>1. Appeared(c, p, f) = m
    BY DEF Appeared
  <1>2. ASSUME NEW k \in Keys
        PROVE  /\ kept2[k] = [data |-> kept2[k].data, fetch |-> kept2[k].fetch, answer |-> kept2[k].answer]
               /\ kept2[k].fetch = c[k].fetch /\ kept2[k].answer = c[k].answer
               /\ k \in Mounted(p, f) => kept2[k].data = c[k].data
    <2>1. c[k] = [data |-> c[k].data, fetch |-> c[k].fetch, answer |-> c[k].answer]
      BY EntryType
    <2>2. kept2[k] = IF k \in Mounted(p, f) THEN c[k]
                     ELSE [data |-> NoData, fetch |-> c[k].fetch, answer |-> c[k].answer]
      BY <2>1
    <2> QED BY <2>1, <2>2
  <1>3. kept2 = [k \in Keys |-> kept2[k]]
    OBVIOUS
  <1>4. \A k \in asks : k \in new /\ c[k].fetch = "idle"
    OBVIOUS
  <1>5. \A k \in new : c[k].fetch = "idle" => k \in asks
    OBVIOUS
  <1>6. \A k \in new : k \in Mounted(p, f) /\ k \notin Mounted(page, form)
    OBVIOUS
  <1>7. \A k : k \in Mounted(p, f) /\ k \notin Mounted(page, form) => k \in new
    OBVIOUS
  <1> HIDE DEF d, kept2, asks, new
  <1>8. Cached(kept2)
    BY <1>2, <1>3, EntryType DEF Cached
  <1>9. /\ Cached(m)
        /\ \A k \in Keys : /\ m[k].data = kept2[k].data
                           /\ k \in asks => m[k].fetch = "asked" /\ m[k].answer = NoData
                           /\ k \notin asks => m[k] = kept2[k]
    BY <1>8, MutatedStep
  <1> HIDE DEF m
  <1>10. ASSUME NEW k \in Keys
         PROVE  /\ k \in Mounted(p, f) => m[k].data = c[k].data
                /\ k \in Mounted(p, f) /\ k \notin Mounted(page, form) => m[k].fetch # "idle"
                /\ m[k].fetch = "idle" => c[k].fetch = "idle"
                /\ m[k].fetch = "read" => c[k].fetch = "read" /\ m[k].answer = c[k].answer
                /\ k \in Mounted(page, form) => m[k].fetch = c[k].fetch
    <2>1. CASE k \in asks
      BY <1>2, <1>4, <1>6, <1>9, <2>1
    <2>2. CASE k \notin asks
      BY <1>2, <1>5, <1>7, <1>9, <2>2
    <2> QED BY <2>1, <2>2
  <1> QED BY <1>1, <1>9, <1>10

-----------------------------------------------------------------------------
(* Pages: what a step leaves of it.                                          *)

ContentKept ==
  /\ server'.title = server.title /\ server'.links = server.links
  /\ server'.documents = server.documents

RequestsKept(k) == (AppliedTo(k) => AppliedTo(k)') /\ (Disturbed(k) => Disturbed(k)')

EntryKept(k) ==
  /\ ShownAt(k)' => ShownAt(k) /\ swr'[k].data = swr[k].data
  /\ AwaitedAt(k)' => AwaitedAt(k) /\ swr'[k].answer = swr[k].answer

LEMMA FreshKept ==
  ASSUME NEW k \in Keys \ {"me"}, FreshAt(k), ContentKept, RequestsKept(k), EntryKept(k),
         k \in unheard => k \in unheard'
  PROVE  FreshAt(k)'
  <1>1. \A v : Current(k, v) => Current(k, v)'
    BY DEF Current, ContentKept
  <1>2. ShownAt(k)' /\ k \notin unheard' /\ ~Disturbed(k)' => Current(k, swr[k].data)'
    BY <1>1 DEF FreshAt, RequestsKept, EntryKept, Current
  <1>3. AwaitedAt(k)' /\ k \notin unheard' /\ ~AppliedTo(k)' => Current(k, swr[k].answer)'
    BY <1>1 DEF FreshAt, RequestsKept, EntryKept, Current
  <1> QED BY <1>2, <1>3 DEF FreshAt

\* Nothing is claimed of a key that is being fetched.
LEMMA FreshAsked ==
  ASSUME NEW k, swr'[k].fetch = "asked" \/ (swr'[k].fetch = "idle" /\ k \notin Mounted(page', form'))
  PROVE  FreshAt(k)'
  BY DEF FreshAt, ShownAt, AwaitedAt

LEMMA MountedByModal ==
  ASSUME NEW p, NEW f, NEW g, f.modal = g.modal PROVE Mounted(p, f) = Mounted(p, g)
  BY DEF Mounted

LEMMA EntrySame ==
  ASSUME NEW k, swr'[k] = swr[k], k \in Mounted(page', form') => k \in Mounted(page, form)
  PROVE  EntryKept(k)
  BY DEF EntryKept, ShownAt, AwaitedAt

LEMMA AppearedKept ==
  ASSUME NEW c, Cached(c), swr' = Appeared(c, page', form'), NEW k \in Keys, c[k] = swr[k]
  PROVE  /\ EntryKept(k)
         /\ k \in Mounted(page', form') \ Mounted(page, form) => swr'[k].fetch # "idle"
         /\ swr'[k].fetch = "read" => swr[k].fetch = "read"
  <1> DEFINE e == Appeared(c, page', form')[k]
  <1>1. /\ k \in Mounted(page', form') => e.data = c[k].data
        /\ k \in Mounted(page', form') /\ k \notin Mounted(page, form) => e.fetch # "idle"
        /\ e.fetch = "idle" => c[k].fetch = "idle"
        /\ e.fetch = "read" => c[k].fetch = "read" /\ e.answer = c[k].answer
    BY AppearedStep
  <1>2. e = swr'[k]
    OBVIOUS
  <1> HIDE DEF e
  <1> QED BY <1>1, <1>2 DEF EntryKept, ShownAt, AwaitedAt

LEMMA MeKept ==
  ASSUME MeInv, swr'["me"].fetch = swr["me"].fetch, swr'["me"].data = swr["me"].data, auth' = auth
  PROVE  MeInv'
  BY DEF MeInv

LEMMA RequestsByRecord ==
  ASSUME NEW k, \A r \in asked : \E q \in asked' : q.op = r.op /\ (r.applied => q.applied)
  PROVE  RequestsKept(k)
  BY DEF RequestsKept, AppliedTo, Disturbed

LEMMA RequestsBut ==
  ASSUME NEW r \in asked, asked' = asked \ {r}, NEW k,
         k # KeyOf(r.op) \/ (~r.applied /\ r.op # "rename")
  PROVE  RequestsKept(k)
  BY DEF RequestsKept, AppliedTo, Disturbed

-----------------------------------------------------------------------------
(* Pages: steps that leave the cache alone.                                  *)

LEMMA SendStep ==
  ASSUME WebShape, NEW op \in Operations, NEW arg, NEW old, Send(op, arg, old),
         op = "rename" => arg \in NewTitles, op = "share" => arg \in ShareLinks,
         op = "create" => arg = "new"
  PROVE  /\ \A r \in asked' : Requested(r)
         /\ used' \in 0 .. MaxAsked /\ \A k : RequestsKept(k)
         /\ op = "rename" => Disturbed("document")'
         /\ UNCHANGED <<server, page, auth, hasShareToken, topic, unheard>>
  <1> DEFINE q == [op |-> op, arg |-> arg, old |-> old, session |-> auth,
                   id |-> used, phase |-> "sent", applied |-> FALSE]
  <1>1. used \in Nat /\ used < MaxAsked /\ used' = used + 1 /\ asked' = asked \cup {q}
    BY DEF Send, WebShape
  <1>2. Requested(q)
    BY <1>1, WebPagesAssumption DEF Requested
  <1>3. q.op = op
    OBVIOUS
  <1> HIDE DEF q
  <1>4. \A r \in asked' : Requested(r)
    BY <1>1, <1>2 DEF WebShape
  <1>5. ASSUME NEW k PROVE RequestsKept(k)
    BY <1>1, RequestsByRecord
  <1>6. op = "rename" => Disturbed("document")'
    BY <1>1, <1>3 DEF Disturbed, KeyOf
  <1>7. used' \in 0 .. MaxAsked
    BY <1>1, WebPagesAssumption
  <1> QED BY <1>4, <1>5, <1>6, <1>7 DEF Send

LEMMA QuietStep ==
  ASSUME WebInv, UNCHANGED <<swr, page, auth, hasShareToken, topic, unheard>>,
         form' \in [editing : BOOLEAN, modal : BOOLEAN, loading : BOOLEAN],
         form'.modal = form.modal, ContentKept,
         server' \in [title : NewTitles \cup {FirstTitle}, links : SUBSET ShareLinks,
                 documents : SUBSET (Gallery \cup {"new"}), sessions : SUBSET (1 .. MaxAsked + 1)],
         used' \in 0 .. MaxAsked, \A r \in asked' : Requested(r),
         \A k \in Keys : RequestsKept(k)
  PROVE  WebInv'
  <1>1. WebShape'
    BY DEF WebInv, WebShape, Cached
  <1>2. MeInv'
    BY DEF WebInv, MeInv
  <1>3. Mounted(page', form') = Mounted(page, form)
    BY MountedByModal
  <1>4. ASSUME NEW k \in Keys \ {"me"} PROVE FreshAt(k)'
    <2>1. EntryKept(k)
      BY <1>3, EntrySame
    <2> QED BY <2>1, FreshKept DEF WebInv
  <1> QED BY <1>1, <1>2, <1>4 DEF WebInv

LEMMA FormStep ==
  ASSUME form \in [editing : BOOLEAN, modal : BOOLEAN, loading : BOOLEAN]
  PROVE  /\ \A b \in BOOLEAN : LET f == [form EXCEPT !.editing = b] IN
              f \in [editing : BOOLEAN, modal : BOOLEAN, loading : BOOLEAN] /\ f.modal = form.modal
         /\ \A b \in BOOLEAN : LET f == [form EXCEPT !.loading = b] IN
              f \in [editing : BOOLEAN, modal : BOOLEAN, loading : BOOLEAN] /\ f.modal = form.modal
  OBVIOUS

Quiet ==
  \/ SessionExpires \/ Login \/ UserMenu \/ EditTitle \/ SubmitShare \/ SubmitNew
  \/ \E link \in ShareLinks : DeleteLink(link)
  \/ \E doc \in Gallery \cup {"new"} : DeleteDocument(doc)

LEMMA QuietActions == ASSUME WebInv, Quiet PROVE WebInv'
  <1> USE DEF WebInv
  <1>0. /\ form \in [editing : BOOLEAN, modal : BOOLEAN, loading : BOOLEAN]
        /\ server \in [title : NewTitles \cup {FirstTitle}, links : SUBSET ShareLinks,
                 documents : SUBSET (Gallery \cup {"new"}), sessions : SUBSET (1 .. MaxAsked + 1)]
        /\ used \in 0 .. MaxAsked /\ \A r \in asked : Requested(r)
    BY DEF WebShape
  <1>1. CASE SessionExpires
    <2>1. server' = [server EXCEPT !.sessions = {}] /\ UNCHANGED <<swr, asked, page, auth, form, hasShareToken, topic, used, unheard>>
      BY <1>1 DEF SessionExpires
    <2>2. /\ server' \in [title : NewTitles \cup {FirstTitle}, links : SUBSET ShareLinks,
                 documents : SUBSET (Gallery \cup {"new"}), sessions : SUBSET (1 .. MaxAsked + 1)]
          /\ ContentKept
      BY <1>0, <2>1 DEF ContentKept
    <2>3. \A k \in Keys : RequestsKept(k)
      BY <2>1, RequestsByRecord
    <2> QED BY <1>0, <2>1, <2>2, <2>3, QuietStep
  <1>2. ASSUME NEW op \in Operations, NEW arg, Send(op, arg, NoData),
               op # "rename", op = "share" => arg \in ShareLinks, op = "create" => arg = "new",
               UNCHANGED swr, form' \in [editing : BOOLEAN, modal : BOOLEAN, loading : BOOLEAN],
               form'.modal = form.modal
        PROVE  WebInv'
    <2>1. /\ \A r \in asked' : Requested(r)
          /\ used' \in 0 .. MaxAsked /\ \A k : RequestsKept(k)
          /\ UNCHANGED <<server, page, auth, hasShareToken, topic, unheard>>
      BY <1>2, SendStep
    <2>2. ContentKept
      BY <2>1 DEF ContentKept
    <2> QED BY <1>0, <1>2, <2>1, <2>2, QuietStep
  <1>3. ASSUME NEW op \in Operations, NEW arg, Send(op, arg, NoData),
               op \notin {"rename", "share", "create"}, UNCHANGED <<swr, form>>
        PROVE  WebInv'
    BY <1>0, <1>2, <1>3
  <1>4. CASE Login
    <2>1. "login" \in Operations /\ "login" \notin {"rename", "share", "create"}
      BY DEF Operations
    <2> QED BY <1>3, <1>4, <2>1 DEF Login
  <1>5. CASE UserMenu
    <2>1. \A op \in {"logout", "changePassword"} : op \in Operations /\ op \notin {"rename", "share", "create"}
      BY DEF Operations
    <2> QED BY <1>3, <1>5, <2>1 DEF UserMenu
  <1>6. CASE EditTitle
    <2>1. /\ form' = [form EXCEPT !.editing = ~form.editing]
          /\ UNCHANGED <<server, swr, asked, page, auth, hasShareToken, topic, used, unheard>>
      BY <1>6 DEF EditTitle
    <2>2. (~form.editing) \in BOOLEAN
      OBVIOUS
    <2>3. form' \in [editing : BOOLEAN, modal : BOOLEAN, loading : BOOLEAN] /\ form'.modal = form.modal
      BY <1>0, <2>1, <2>2, FormStep
    <2>4. ContentKept /\ \A k \in Keys : RequestsKept(k)
      BY <2>1, RequestsByRecord DEF ContentKept
    <2> QED BY <1>0, <2>1, <2>3, <2>4, QuietStep
  <1>7. form' = [form EXCEPT !.loading = TRUE] =>
          form' \in [editing : BOOLEAN, modal : BOOLEAN, loading : BOOLEAN] /\ form'.modal = form.modal
    BY <1>0, FormStep
  <1>8. CASE SubmitShare
    <2>1. "share" \in Operations
      BY DEF Operations
    <2>2. PICK link \in ShareLinks : Send("share", link, NoData)
      BY <1>8 DEF SubmitShare
    <2>3. UNCHANGED swr /\ form' = [form EXCEPT !.loading = TRUE]
      BY <1>8 DEF SubmitShare
    <2> QED BY <1>2, <1>7, <2>1, <2>2, <2>3
  <1>9. CASE SubmitNew
    <2>1. "create" \in Operations
      BY DEF Operations
    <2> QED BY <1>2, <1>7, <1>9, <2>1 DEF SubmitNew
  <1>10. ASSUME NEW link \in ShareLinks, DeleteLink(link) PROVE WebInv'
    <2>1. "unshare" \in Operations /\ "unshare" \notin {"rename", "share", "create"}
      BY DEF Operations
    <2> QED BY <1>3, <1>10, <2>1 DEF DeleteLink
  <1>11. ASSUME NEW doc, DeleteDocument(doc) PROVE WebInv'
    <2>1. "delete" \in Operations /\ "delete" \notin {"rename", "share", "create"}
      BY DEF Operations
    <2> QED BY <1>3, <1>11, <2>1 DEF DeleteDocument
  <1> QED BY <1>1, <1>4, <1>5, <1>6, <1>8, <1>9, <1>10, <1>11 DEF Quiet

-----------------------------------------------------------------------------
(* Pages: the backend.                                                       *)

LEMMA AppliedTyped ==
  ASSUME WebShape, NEW r \in asked
  PROVE  /\ Applied(r) \in [title : NewTitles \cup {FirstTitle}, links : SUBSET ShareLinks,
                   documents : SUBSET (Gallery \cup {"new"}), sessions : SUBSET (1 .. MaxAsked + 1)]
         /\ KeyOf(r.op) # "document" => Applied(r).title = server.title
         /\ KeyOf(r.op) # "shareTokens" => Applied(r).links = server.links
         /\ KeyOf(r.op) # "documents" => Applied(r).documents = server.documents
  <1> DEFINE S == [title : NewTitles \cup {FirstTitle}, links : SUBSET ShareLinks,
                   documents : SUBSET (Gallery \cup {"new"}), sessions : SUBSET (1 .. MaxAsked + 1)]
  <1>1. server \in S /\ Requested(r)
    BY DEF WebShape
  <1>2. /\ r.op \in Operations /\ r.id \in 0 .. MaxAsked - 1
        /\ r.op = "rename" => r.arg \in NewTitles
        /\ r.op = "share" => r.arg \in ShareLinks
        /\ r.op = "create" => r.arg = "new"
    BY <1>1 DEF Requested
  <1>3. CASE r.op = "login"
    <2>1. r.id + 2 \in 1 .. MaxAsked + 1
      BY <1>2, WebPagesAssumption
    <2> QED BY <1>1, <1>3, <2>1 DEF Applied
  <1>4. CASE r.op = "logout"
    BY <1>1, <1>4 DEF Applied
  <1>5. CASE r.op = "changePassword"
    BY <1>1, <1>5 DEF Applied
  <1>6. CASE r.op = "rename"
    BY <1>1, <1>2, <1>6 DEF Applied, KeyOf
  <1>7. CASE r.op = "share"
    BY <1>1, <1>2, <1>7 DEF Applied, KeyOf
  <1>8. CASE r.op = "unshare"
    BY <1>1, <1>8 DEF Applied, KeyOf
  <1>9. CASE r.op = "delete"
    BY <1>1, <1>9 DEF Applied, KeyOf
  <1>10. CASE r.op = "create"
    BY <1>1, <1>2, <1>10 DEF Applied, KeyOf
  <1> QED BY <1>2, <1>3, <1>4, <1>5, <1>6, <1>7, <1>8, <1>9, <1>10 DEF Operations

LEMMA FailsStep == ASSUME WebInv, NEW r, RequestFails(r) PROVE WebInv'
  <1> DEFINE q == [r EXCEPT !.phase = "failed"]
  <1>1. /\ r \in asked /\ asked' = (asked \ {r}) \cup {q}
        /\ UNCHANGED <<server, swr, page, auth, form, hasShareToken, topic, used, unheard>>
    BY DEF RequestFails
  <1>2. Requested(r)
    BY <1>1 DEF WebInv, WebShape
  <1>3. DOMAIN q = DOMAIN r /\ q.phase = "failed"
    BY <1>2 DEF Requested
  <1>4. \A f \in {"op", "arg", "old", "session", "id", "applied"} : q[f] = r[f]
    BY <1>2 DEF Requested
  <1>5. q.op = r.op /\ q.arg = r.arg /\ q.id = r.id /\ q.applied = r.applied
    BY <1>4
  <1> HIDE DEF q
  <1>6. Requested(q)
    BY <1>2, <1>3, <1>5 DEF Requested
  <1>7. \A s \in asked' : Requested(s)
    BY <1>1, <1>6 DEF WebInv, WebShape
  <1>8. ASSUME NEW k \in Keys PROVE RequestsKept(k)
    BY <1>1, <1>5, RequestsByRecord
  <1>9. /\ form \in [editing : BOOLEAN, modal : BOOLEAN, loading : BOOLEAN]
        /\ server \in [title : NewTitles \cup {FirstTitle}, links : SUBSET ShareLinks,
                 documents : SUBSET (Gallery \cup {"new"}), sessions : SUBSET (1 .. MaxAsked + 1)]
        /\ used \in 0 .. MaxAsked
    BY DEF WebInv, WebShape
  <1> QED BY <1>1, <1>7, <1>8, <1>9, QuietStep DEF ContentKept

\* The key of a request that is served waits for the answer to be heard of.
LEMMA ServeStep == ASSUME WebInv, NEW r, Serve(r) PROVE WebInv'
  <1> DEFINE q == [r EXCEPT !.phase = "done", !.applied = TRUE]
  <1>1. /\ r \in asked /\ asked' = (asked \ {r}) \cup {q} /\ server' = Applied(r)
        /\ UNCHANGED <<swr, page, auth, form, hasShareToken, topic, used, unheard>>
    BY DEF Serve
  <1>2. Requested(r)
    BY <1>1 DEF WebInv, WebShape
  <1>3. DOMAIN q = DOMAIN r /\ q.phase = "done"
    BY <1>2 DEF Requested
  <1>4. \A f \in {"op", "arg", "old", "session", "id"} : q[f] = r[f]
    BY <1>2 DEF Requested
  <1>5. q.op = r.op /\ q.arg = r.arg /\ q.id = r.id
    BY <1>4
  <1>6. q.applied = TRUE
    BY <1>2 DEF Requested
  <1> HIDE DEF q
  <1>7. Requested(q)
    BY <1>2, <1>3, <1>5, <1>6 DEF Requested
  <1>8. \A s \in asked' : Requested(s)
    BY <1>1, <1>7 DEF WebInv, WebShape
  <1>9. /\ server' \in [title : NewTitles \cup {FirstTitle}, links : SUBSET ShareLinks,
                 documents : SUBSET (Gallery \cup {"new"}), sessions : SUBSET (1 .. MaxAsked + 1)]
        /\ KeyOf(r.op) # "document" => server'.title = server.title
        /\ KeyOf(r.op) # "shareTokens" => server'.links = server.links
        /\ KeyOf(r.op) # "documents" => server'.documents = server.documents
    BY <1>1, AppliedTyped DEF WebInv
  <1>10. WebShape'
    BY <1>1, <1>8, <1>9 DEF WebInv, WebShape, Cached
  <1>11. MeInv'
    BY <1>1 DEF WebInv, MeInv
  <1>12. ASSUME NEW k \in Keys \ {"me"} PROVE FreshAt(k)'
    <2>1. RequestsKept(k)
      BY <1>1, <1>5, <1>6, RequestsByRecord
    <2>2. EntryKept(k)
      BY <1>1, EntrySame
    <2>3. CASE k = KeyOf(r.op)
      <3>1. AppliedTo(k)'
        BY <1>1, <1>5, <1>6, <2>3 DEF AppliedTo
      <3>2. Disturbed(k)'
        BY <1>1, <1>5, <1>6, <2>3 DEF Disturbed
      <3> QED BY <3>1, <3>2 DEF FreshAt
    <2>4. CASE k # KeyOf(r.op)
      <3>1. \A v : Current(k, v) => Current(k, v)'
        BY <1>9, <2>4 DEF Current
      <3>2. ShownAt(k)' /\ k \notin unheard' /\ ~Disturbed(k)' => Current(k, swr[k].data)'
        BY <1>1, <2>1, <2>2, <3>1 DEF WebInv, FreshAt, RequestsKept, EntryKept, Current
      <3>3. AwaitedAt(k)' /\ k \notin unheard' /\ ~AppliedTo(k)' => Current(k, swr[k].answer)'
        BY <1>1, <2>1, <2>2, <3>1 DEF WebInv, FreshAt, RequestsKept, EntryKept, Current
      <3> QED BY <3>2, <3>3 DEF FreshAt
    <2> QED BY <2>3, <2>4
  <1> QED BY <1>10, <1>11, <1>12 DEF WebInv

-----------------------------------------------------------------------------
(* Pages: fetches.                                                           *)

Content == <<server, asked, page, auth, form, hasShareToken, topic, used>>

\* What all steps of the cache have in common.
LEMMA CacheStep ==
  ASSUME WebInv, Cached(swr'), UNCHANGED Content, unheard' \subseteq unheard, MeInv',
         \A k \in Keys \ {"me"} : FreshAt(k)' \/ (EntryKept(k) /\ (k \in unheard => k \in unheard'))
  PROVE  WebInv'
  <1>1. WebShape'
    BY DEF WebInv, WebShape, Content
  <1>2. ContentKept
    BY DEF ContentKept, Content
  <1>3. ASSUME NEW k \in Keys PROVE RequestsKept(k)
    BY RequestsByRecord DEF Content
  <1>4. ASSUME NEW k \in Keys \ {"me"} PROVE FreshAt(k)'
    BY <1>2, <1>3, FreshKept DEF WebInv
  <1> QED BY <1>1, <1>4 DEF WebInv

LEMMA AnswerIsCurrent ==
  ASSUME NEW k \in Keys \ {"me"}, Answer(k) # NoData PROVE Current(k, Answer(k))
  <1>1. CASE k = "document"
    BY <1>1 DEF Answer, Current
  <1>2. CASE k = "shareTokens"
    BY <1>2 DEF Answer, Current
  <1>3. CASE k = "documents"
    BY <1>3 DEF Answer, Current
  <1> QED BY <1>1, <1>2, <1>3 DEF Keys

\* An answer that is taken up is shown if anything shows it.
LEMMA ReceivedStep ==
  ASSUME Cached(swr), NEW k \in Keys, NEW a
  PROVE  LET e == Received(k, a) IN
         /\ e = [data |-> e.data, fetch |-> e.fetch, answer |-> e.answer]
         /\ e.fetch \in {"idle", "asked", "failed"}
         /\ e.fetch = "idle" /\ k \in Mounted(page, form) =>
              (a # NoData /\ e.data = a) \/ (k = "me" /\ auth = 0)
  BY DEF Received

LEMMA ReadStep == ASSUME WebInv, NEW k \in Keys, Read(k) PROVE WebInv'
  <1> DEFINE o == [swr[k] EXCEPT !.fetch = "read", !.answer = Answer(k)]
             n == Received(k, Answer(k))
             e == IF k \in {topic, "me"} THEN o ELSE n
  <1>1. /\ swr' = [swr EXCEPT ![k] = e] /\ unheard' = unheard \ {k} /\ UNCHANGED Content
    BY DEF Read, Content
  <1>2. Cached(swr)
    BY DEF WebInv, WebShape
  <1>3. swr[k] = [data |-> swr[k].data, fetch |-> swr[k].fetch, answer |-> swr[k].answer]
    BY <1>2, EntryType
  <1>4. o = [data |-> o.data, fetch |-> o.fetch, answer |-> o.answer]
    <2>1. o = [x \in {"data", "fetch", "answer"} |-> o[x]]
      BY <1>3
    <2> HIDE DEF o
    <2> QED BY <2>1
  <1>5. o.answer = Answer(k)
    BY <1>3
  <1>6. o.fetch = "read"
    BY <1>3
  <1>7. /\ n = [data |-> n.data, fetch |-> n.fetch, answer |-> n.answer]
        /\ n.fetch \in {"idle", "asked", "failed"}
        /\ n.fetch = "idle" /\ k \in Mounted(page, form) =>
             (Answer(k) # NoData /\ n.data = Answer(k)) \/ (k = "me" /\ auth = 0)
    BY <1>2, ReceivedStep
  <1>8. e = o \/ (e = n /\ k # "me")
    OBVIOUS
  <1> HIDE DEF o, n, e
  <1>9. e = [data |-> e.data, fetch |-> e.fetch, answer |-> e.answer] /\ e.fetch \in Fetches
    BY <1>4, <1>6, <1>7, <1>8 DEF Fetches
  <1>10. Cached(swr') /\ swr'[k] = e /\ \A j \in Keys \ {k} : swr'[j] = swr[j]
    <2>1. /\ Cached([swr EXCEPT ![k] = e]) /\ [swr EXCEPT ![k] = e][k] = e
          /\ \A j \in Keys \ {k} : [swr EXCEPT ![k] = e][j] = swr[j]
      BY <1>2, <1>9, EntrySetStep
    <2> QED BY <1>1, <2>1
  <1>11. MeInv'
    <2>1. CASE k = "me"
      BY <1>6, <1>8, <1>10, <2>1 DEF MeInv
    <2>2. CASE k # "me"
      <3>1. swr'["me"] = swr["me"]
        BY <1>10, <2>2 DEF Keys
      <3> QED BY <1>1, <3>1 DEF WebInv, MeInv, Content
    <2> QED BY <2>1, <2>2
  <1>12. ASSUME NEW j \in Keys \ {"me"}
         PROVE  FreshAt(j)' \/ (EntryKept(j) /\ (j \in unheard => j \in unheard'))
    <2>1. CASE j # k
      BY <1>1, <1>10, <2>1, EntrySame DEF Content
    <2>2. CASE j = k
      <3> DEFINE a == Answer(k)
      <3>1. a # NoData => Current(k, a)
        BY <2>2, AnswerIsCurrent
      <3>2. \A v : Current(k, v) => Current(k, v)'
        BY <1>1 DEF Current, Content
      <3>3. ShownAt(k)' => a # NoData /\ swr'[k].data = a
        BY <1>1, <1>6, <1>7, <1>8, <1>10, <2>2 DEF ShownAt, Content
      <3>4. AwaitedAt(k)' => a # NoData /\ swr'[k].answer = a
        BY <1>5, <1>7, <1>8, <1>10, <2>2 DEF AwaitedAt
      <3> HIDE DEF a
      <3>5. ShownAt(k)' => Current(k, swr[k].data)'
        BY <3>1, <3>2, <3>3 DEF Current
      <3>6. AwaitedAt(k)' => Current(k, swr[k].answer)'
        BY <3>1, <3>2, <3>4 DEF Current
      <3> QED BY <2>2, <3>5, <3>6 DEF FreshAt
    <2> QED BY <2>1, <2>2
  <1>13. unheard' \subseteq unheard
    BY <1>1
  <1> QED BY <1>1, <1>10, <1>11, <1>12, <1>13, CacheStep

LEMMA DeliverStep == ASSUME WebInv, NEW k \in Keys, Deliver(k) PROVE WebInv'
  <1> DEFINE a == swr[k].answer
             e == Received(k, a)
  <1>1. /\ swr' = [swr EXCEPT ![k] = e] /\ UNCHANGED unheard /\ UNCHANGED Content
        /\ swr[k].fetch = "read"
    BY DEF Deliver, Content
  <1>2. Cached(swr)
    BY DEF WebInv, WebShape
  <1>3. /\ e = [data |-> e.data, fetch |-> e.fetch, answer |-> e.answer]
        /\ e.fetch \in {"idle", "asked", "failed"}
        /\ e.fetch = "idle" /\ k \in Mounted(page, form) =>
             (a # NoData /\ e.data = a) \/ (k = "me" /\ auth = 0)
    BY <1>2, ReceivedStep
  <1> HIDE DEF e
  <1>4. e.fetch \in Fetches
    BY <1>3 DEF Fetches
  <1>5. Cached(swr') /\ swr'[k] = e /\ \A j \in Keys \ {k} : swr'[j] = swr[j]
    <2>1. /\ Cached([swr EXCEPT ![k] = e]) /\ [swr EXCEPT ![k] = e][k] = e
          /\ \A j \in Keys \ {k} : [swr EXCEPT ![k] = e][j] = swr[j]
      BY <1>2, <1>3, <1>4, EntrySetStep
    <2> QED BY <1>1, <2>1
  <1>6. MeInv'
    <2>1. CASE k = "me"
      BY <1>1, <1>3, <1>5, <2>1, MountedKeys DEF MeInv, Content
    <2>2. CASE k # "me"
      <3>1. swr'["me"] = swr["me"]
        BY <1>5, <2>2 DEF Keys
      <3> QED BY <1>1, <3>1 DEF WebInv, MeInv, Content
    <2> QED BY <2>1, <2>2
  <1>7. ASSUME NEW j \in Keys \ {"me"}
        PROVE  FreshAt(j)' \/ (EntryKept(j) /\ (j \in unheard => j \in unheard'))
    <2>1. CASE j # k
      BY <1>1, <1>5, <2>1, EntrySame DEF Content
    <2>2. CASE j = k
      <3>1. a # NoData /\ k \notin unheard /\ ~AppliedTo(k) => Current(k, a)
        BY <1>1, <2>2 DEF WebInv, FreshAt, AwaitedAt
      <3>2. ~Disturbed(k)' => ~AppliedTo(k)
        BY <1>1 DEF Disturbed, AppliedTo, Content
      <3>3. ShownAt(k)' => a # NoData /\ swr'[k].data = a
        BY <1>1, <1>3, <1>5, <2>2 DEF ShownAt, Content
      <3>4. \A v : Current(k, v) => Current(k, v)'
        BY <1>1 DEF Current, Content
      <3>5. ShownAt(k)' /\ k \notin unheard' /\ ~Disturbed(k)' => Current(k, swr[k].data)'
        BY <1>1, <3>1, <3>2, <3>3, <3>4 DEF Current
      <3>6. ~AwaitedAt(k)'
        BY <1>3, <1>5 DEF AwaitedAt
      <3> QED BY <2>2, <3>5, <3>6 DEF FreshAt
    <2> QED BY <2>1, <2>2
  <1>8. unheard' \subseteq unheard
    BY <1>1
  <1> QED BY <1>1, <1>5, <1>6, <1>7, <1>8, CacheStep

LEMMA RefetchStep == ASSUME WebInv, NEW k \in Keys, Refetch(k) PROVE WebInv'
  <1>1. swr' = Mutated(swr, {k}) /\ UNCHANGED unheard /\ UNCHANGED Content
    BY DEF Refetch, Content
  <1>2. Cached(swr)
    BY DEF WebInv, WebShape
  <1>3. /\ Cached(swr')
        /\ \A j \in Keys : /\ j = k => swr'[j].fetch = "asked"
                           /\ j # k => swr'[j] = swr[j]
    BY <1>1, <1>2, MutatedStep
  <1>4. MeInv'
    BY <1>1, <1>3 DEF WebInv, MeInv, Keys, Content
  <1>5. ASSUME NEW j \in Keys \ {"me"}
        PROVE  FreshAt(j)' \/ (EntryKept(j) /\ (j \in unheard => j \in unheard'))
    BY <1>1, <1>3, EntrySame, FreshAsked DEF Content
  <1>6. unheard' \subseteq unheard
    BY <1>1
  <1> QED BY <1>1, <1>3, <1>4, <1>5, <1>6, CacheStep

LEMMA FetchFailsStep == ASSUME WebInv, FetchFails PROVE WebInv'
  <1> DEFINE e == [swr["me"] EXCEPT !.fetch = "failed"]
  <1>1. swr' = [swr EXCEPT !["me"] = e] /\ UNCHANGED unheard /\ UNCHANGED Content
    BY DEF FetchFails, Content
  <1>2. Cached(swr) /\ "me" \in Keys
    BY DEF WebInv, WebShape, Keys
  <1>3. swr["me"] = [data |-> swr["me"].data, fetch |-> swr["me"].fetch, answer |-> swr["me"].answer]
    BY <1>2, EntryType
  <1>4. e = [data |-> e.data, fetch |-> e.fetch, answer |-> e.answer]
    <2>1. e = [x \in {"data", "fetch", "answer"} |-> e[x]]
      BY <1>3
    <2> HIDE DEF e
    <2> QED BY <2>1
  <1>5. e.fetch = "failed"
    BY <1>3
  <1> HIDE DEF e
  <1>6. Cached(swr') /\ swr'["me"] = e /\ \A j \in Keys \ {"me"} : swr'[j] = swr[j]
    <2>1. e.fetch \in Fetches
      BY <1>5 DEF Fetches
    <2>2. /\ Cached([swr EXCEPT !["me"] = e]) /\ [swr EXCEPT !["me"] = e]["me"] = e
          /\ \A j \in Keys \ {"me"} : [swr EXCEPT !["me"] = e][j] = swr[j]
      BY <1>2, <1>4, <2>1, EntrySetStep
    <2> QED BY <1>1, <2>2
  <1>7. MeInv'
    BY <1>5, <1>6 DEF MeInv
  <1>8. ASSUME NEW j \in Keys \ {"me"}
        PROVE  FreshAt(j)' \/ (EntryKept(j) /\ (j \in unheard => j \in unheard'))
    BY <1>1, <1>6, EntrySame DEF Content
  <1>9. unheard' \subseteq unheard
    BY <1>1
  <1> QED BY <1>1, <1>6, <1>7, <1>8, <1>9, CacheStep

-----------------------------------------------------------------------------
(* Pages: the ways from one to another.                                      *)

Forms == [editing : BOOLEAN, modal : BOOLEAN, loading : BOOLEAN]

LEMMA TabStep ==
  ASSUME WebInv, Cached(swr'), UNCHANGED <<server, hasShareToken, topic>>,
         used' \in 0 .. MaxAsked, \A r \in asked' : Requested(r), page' \in Pages,
         auth' \in 0 .. MaxAsked + 1, form' \in Forms, unheard' \subseteq Keys, MeInv',
         \A k \in Keys \ {"me"} :
            FreshAt(k)' \/ (RequestsKept(k) /\ EntryKept(k) /\ (k \in unheard => k \in unheard'))
  PROVE  WebInv'
  <1>1. WebShape'
    BY DEF WebInv, WebShape, Forms
  <1>2. ContentKept
    BY DEF ContentKept
  <1>3. ASSUME NEW k \in Keys \ {"me"} PROVE FreshAt(k)'
    BY <1>2, FreshKept DEF WebInv
  <1> QED BY <1>1, <1>3 DEF WebInv

LEMMA GotoStep ==
  ASSUME NEW c, Cached(c), \A k \in Keys \ {"me"} : c[k] = swr[k],
         NEW p \in Pages, Goto(p, c)
  PROVE  /\ Cached(swr') /\ page' \in Pages /\ form' \in Forms
         /\ swr'["me"].fetch = c["me"].fetch /\ swr'["me"].data = c["me"].data
         /\ \A k \in Keys \ {"me"} :
              /\ EntryKept(k)
              /\ k \in Mounted(page', form') \ Mounted(page, form) => swr'[k].fetch # "idle"
              /\ swr'[k].fetch = "read" => swr[k].fetch = "read"
  <1>1. page' = p /\ form' = NoForm /\ swr' = Appeared(c, page', form')
    BY DEF Goto
  <1>2. form' \in Forms
    BY <1>1 DEF NoForm, Forms
  <1>3. Cached(swr')
    BY <1>1, AppearedStep
  <1>4. "me" \in Keys /\ "me" \in Mounted(page, form) /\ "me" \in Mounted(page', form')
    BY MountedKeys DEF Keys
  <1>5. swr'["me"].fetch = c["me"].fetch /\ swr'["me"].data = c["me"].data
    BY <1>1, <1>4, AppearedStep
  <1>6. ASSUME NEW k \in Keys \ {"me"}
        PROVE  /\ EntryKept(k)
               /\ k \in Mounted(page', form') \ Mounted(page, form) => swr'[k].fetch # "idle"
               /\ swr'[k].fetch = "read" => swr[k].fetch = "read"
    BY <1>1, AppearedKept
  <1> QED BY <1>1, <1>2, <1>3, <1>5, <1>6

LEMMA TabShape ==
  ASSUME WebInv
  PROVE  /\ Cached(swr) /\ form \in Forms /\ page \in Pages /\ auth \in 0 .. MaxAsked + 1
         /\ used \in 0 .. MaxAsked /\ unheard \subseteq Keys /\ \A r \in asked : Requested(r)
         /\ MeInv /\ "me" \in Keys
  BY DEF WebInv, WebShape, Forms, Keys

LEMMA RedirectStep == ASSUME WebInv, Redirect PROVE WebInv'
  <1> DEFINE c == IF UnderWay THEN swr ELSE Mutated(swr, {"me"})
  <1>1. PICK p \in Pages : Goto(p, c)
    BY DEF Redirect, Pages
  <1>2. UNCHANGED <<server, asked, auth, hasShareToken, topic, used, unheard>>
    BY DEF Redirect
  <1>3. /\ Cached(c) /\ c["me"].fetch # "idle"
        /\ \A k \in Keys \ {"me"} : c[k] = swr[k]
    <2>1. CASE UnderWay
      BY <2>1, TabShape DEF UnderWay
    <2>2. CASE ~UnderWay
      <3>1. /\ Cached(Mutated(swr, {"me"})) /\ Mutated(swr, {"me"})["me"].fetch = "asked"
            /\ \A k \in Keys \ {"me"} : Mutated(swr, {"me"})[k] = swr[k]
        BY TabShape, MutatedStep
      <3> QED BY <2>2, <3>1
    <2> QED BY <2>1, <2>2
  <1> HIDE DEF c
  <1>4. /\ Cached(swr') /\ page' \in Pages /\ form' \in Forms
        /\ swr'["me"].fetch # "idle" /\ \A k \in Keys \ {"me"} : EntryKept(k)
    BY <1>1, <1>3, GotoStep
  <1>5. MeInv'
    BY <1>4 DEF MeInv
  <1>6. \A k \in Keys : RequestsKept(k)
    BY <1>2, RequestsByRecord
  <1> QED BY <1>2, <1>4, <1>5, <1>6, TabShape, TabStep

LEMMA FollowLinkStep == ASSUME WebInv, FollowLink PROVE WebInv'
  <1>1. PICK p \in Pages : Goto(p, swr)
    BY DEF FollowLink, Pages, Private
  <1>2. UNCHANGED <<server, asked, auth, hasShareToken, topic, used, unheard>>
    BY DEF FollowLink
  <1>3. /\ Cached(swr') /\ page' \in Pages /\ form' \in Forms
        /\ swr'["me"].fetch = swr["me"].fetch /\ swr'["me"].data = swr["me"].data
        /\ \A k \in Keys \ {"me"} : EntryKept(k)
    BY <1>1, TabShape, GotoStep
  <1>4. MeInv'
    BY <1>2, <1>3, TabShape, MeKept
  <1>5. \A k \in Keys : RequestsKept(k)
    BY <1>2, RequestsByRecord
  <1> QED BY <1>2, <1>3, <1>4, <1>5, TabShape, TabStep

LEMMA ShareModalStep ==
  ASSUME WebInv, ToggleShareModal
  PROVE  WebInv'
  <1>1. /\ swr' = Appeared(swr, page', form')
        /\ UNCHANGED <<server, asked, page, auth, hasShareToken, topic, used, unheard>>
    <2>1. /\ swr' = Appeared(swr, page, form')
          /\ UNCHANGED <<server, asked, page, auth, hasShareToken, topic, used, unheard>>
      BY DEF ToggleShareModal
    <2> QED BY <2>1
  <1>2. form' \in Forms
    <2>1. form' = [form EXCEPT !.modal = ~form.modal, !.loading = FALSE]
      BY DEF ToggleShareModal
    <2>2. (~form.modal) \in BOOLEAN
      OBVIOUS
    <2> QED BY <2>1, <2>2, TabShape DEF Forms
  <1>3. Cached(swr')
    BY <1>1, TabShape, AppearedStep
  <1>4. "me" \in Keys /\ "me" \in Mounted(page, form) /\ "me" \in Mounted(page', form')
    BY MountedKeys DEF Keys
  <1>5. swr'["me"].fetch = swr["me"].fetch /\ swr'["me"].data = swr["me"].data
    BY <1>1, <1>4, TabShape, AppearedStep
  <1>6. MeInv'
    BY <1>1, <1>5, TabShape, MeKept
  <1>7. \A k \in Keys : EntryKept(k)
    BY <1>1, TabShape, AppearedKept
  <1>8. \A k \in Keys : RequestsKept(k)
    BY <1>1, RequestsByRecord
  <1> QED BY <1>1, <1>2, <1>3, <1>6, <1>7, <1>8, TabStep, TabShape

LEMMA FreshCached ==
  ASSUME NEW p
  PROVE  /\ Cached(Fresh(p)) /\ Fresh(p)["me"].fetch = "asked"
         /\ \A k \in Keys : Fresh(p)[k].data = NoData /\ Fresh(p)[k].answer = NoData
  <1> DEFINE e(k) == [data |-> NoData, answer |-> NoData,
                      fetch |-> IF k \in Mounted(p, NoForm) THEN "asked" ELSE "idle"]
             c == [k \in Keys |-> e(k)]
  <1>1. Fresh(p) = c
    BY DEF Fresh
  <1>2. \A k \in Keys : /\ c[k] = [data |-> c[k].data, fetch |-> c[k].fetch, answer |-> c[k].answer]
                        /\ c[k].fetch \in Fetches /\ c[k].data = NoData /\ c[k].answer = NoData
                        /\ k \in Mounted(p, NoForm) => c[k].fetch = "asked"
    BY DEF Fetches
  <1>3. c = [k \in Keys |-> c[k]]
    OBVIOUS
  <1> HIDE DEF c
  <1>4. Cached(c)
    BY <1>2, <1>3 DEF Cached
  <1>5. "me" \in Keys /\ "me" \in Mounted(p, NoForm)
    BY MountedKeys DEF Keys
  <1> QED BY <1>1, <1>2, <1>4, <1>5

LEMMA ReloadedStep ==
  ASSUME WebInv, NEW p \in Pages, Reloaded(p), auth' \in 0 .. MaxAsked + 1,
         UNCHANGED <<server, hasShareToken, topic, used>>
  PROVE  WebInv'
  <1>1. page' = p /\ form' = NoForm /\ swr' = Fresh(p) /\ asked' = {} /\ unheard' = {}
    BY DEF Reloaded
  <1>2. /\ Cached(swr') /\ swr'["me"].fetch = "asked"
        /\ \A k \in Keys : swr'[k].data = NoData /\ swr'[k].answer = NoData
    BY <1>1, FreshCached
  <1>3. MeInv'
    BY <1>2 DEF MeInv
  <1>4. form' \in Forms
    BY <1>1 DEF NoForm, Forms
  <1>5. \A k \in Keys : FreshAt(k)'
    BY <1>2 DEF FreshAt, ShownAt, AwaitedAt
  <1>6. page' \in Pages /\ unheard' \subseteq Keys /\ \A r \in asked' : Requested(r)
    BY <1>1
  <1>7. used' \in 0 .. MaxAsked
    BY TabShape
  <1>8. UNCHANGED <<server, hasShareToken, topic>> /\ Cached(swr') /\ auth' \in 0 .. MaxAsked + 1
    BY <1>2
  <1>9. ASSUME NEW k \in Keys \ {"me"}
        PROVE  FreshAt(k)' \/ (RequestsKept(k) /\ EntryKept(k) /\ (k \in unheard => k \in unheard'))
    BY <1>5
  <1> QED BY <1>3, <1>4, <1>6, <1>7, <1>8, <1>9, TabStep

-----------------------------------------------------------------------------
(* Pages: answers to requests.                                               *)

\* After an answer, a key is as before unless the answer was about it.
LEMMA SettledStep ==
  ASSUME WebInv, NEW r \in asked, Settle(r), Cached(swr'), page' \in Pages,
         auth' \in 0 .. MaxAsked + 1, form' \in Forms, MeInv',
         unheard \subseteq unheard', unheard' \subseteq Keys,
         \A k \in Keys \ {"me"} :
            FreshAt(k)' \/ (EntryKept(k) /\ (k # KeyOf(r.op) \/ (~r.applied /\ r.op # "rename")))
  PROVE  WebInv'
  <1>1. asked' = asked \ {r} /\ UNCHANGED <<server, hasShareToken, topic, used>>
    BY DEF Settle
  <1>2. used' \in 0 .. MaxAsked /\ \A q \in asked' : Requested(q)
    BY <1>1, TabShape
  <1>3. ASSUME NEW k \in Keys \ {"me"}
        PROVE  FreshAt(k)' \/ (RequestsKept(k) /\ EntryKept(k) /\ (k \in unheard => k \in unheard'))
    BY <1>1, RequestsBut
  <1> QED BY <1>1, <1>2, <1>3, TabStep

\* A key that nothing shows, and whose fetch is not one that is now void.
LEMMA AnsweredUnused ==
  ASSUME WebInv, NEW r \in asked, Settle(r), NEW k \in Keys \ {"me"},
         k \notin Mounted(page', form') \/ swr'[k].fetch # "idle",
         AwaitedAt(k)' => AwaitedAt(k) /\ swr'[k].answer = swr[k].answer,
         unheard \subseteq unheard',
         r.applied /\ swr'[k].fetch = "read" => k \in unheard'
  PROVE  FreshAt(k)'
  <1>1. asked' = asked \ {r} /\ UNCHANGED server
    BY DEF Settle
  <1>2. ~ShownAt(k)'
    BY DEF ShownAt
  <1>3. \A v : Current(k, v) => Current(k, v)'
    BY <1>1 DEF Current
  <1>4. ASSUME AwaitedAt(k)', k \notin unheard', ~AppliedTo(k)' PROVE Current(k, swr[k].answer)'
    <2>1. ~r.applied
      BY <1>4 DEF AwaitedAt
    <2>2. ~AppliedTo(k)
      BY <1>1, <1>4, <2>1 DEF AppliedTo
    <2>3. Current(k, swr[k].answer)
      BY <1>4, <2>2 DEF WebInv, FreshAt
    <2> QED BY <1>3, <1>4, <2>3 DEF Current
  <1> QED BY <1>2, <1>4 DEF FreshAt

LEMMA Heard ==
  ASSUME WebInv, NEW r \in asked, NEW mutated \in BOOLEAN, HeardOf(r, mutated)
  PROVE  /\ unheard \subseteq unheard' /\ unheard' \subseteq Keys
         /\ r.applied /\ KeyOf(r.op) \in Mounted(page, form) /\ ~mutated => KeyOf(r.op) \in unheard'
         /\ r.applied /\ KeyOf(r.op) \notin Mounted(page, form) /\ swr[KeyOf(r.op)].fetch = "read"
              => KeyOf(r.op) \in unheard'
  <1>1. KeyOf(r.op) \in Keys
    BY DEF KeyOf, Keys
  <1> QED BY <1>1, TabShape DEF HeardOf

LEMMA AnsweredStep ==
  ASSUME WebInv, NEW r \in asked, Settle(r), NEW k \in Keys \ {"me"}, k = KeyOf(r.op),
         NEW c, Cached(c), \A j \in Keys \ {k} : c[j] = swr[j],
         NEW mutated \in BOOLEAN, c[k] = swr[k] \/ (c[k].fetch = "idle" /\ mutated),
         r.op = "rename" => mutated,
         swr' = IF mutated THEN Mutated(c, InUse(k)) ELSE c,
         HeardOf(r, mutated), UNCHANGED <<page, auth>>, form' \in Forms, form'.modal = form.modal
  PROVE  WebInv'
  <1>1. Mounted(page', form') = Mounted(page, form)
    BY MountedByModal
  <1>2. /\ Cached(swr')
        /\ \A j \in Keys \ {k} : swr'[j] = swr[j]
        /\ mutated /\ k \in Mounted(page, form) => swr'[k].fetch = "asked"
        /\ ~mutated \/ k \notin Mounted(page, form) => swr'[k] = c[k]
    <2>1. CASE mutated
      <3>1. /\ Cached(Mutated(c, InUse(k)))
            /\ \A j \in Keys : /\ j \in InUse(k) => Mutated(c, InUse(k))[j].fetch = "asked"
                               /\ j \notin InUse(k) => Mutated(c, InUse(k))[j] = c[j]
        BY MutatedStep
      <3> QED BY <2>1, <3>1 DEF InUse
    <2>2. CASE ~mutated
      BY <2>2
    <2> QED BY <2>1, <2>2
  <1>3. MeInv'
    <2>1. swr'["me"] = swr["me"]
      BY <1>2 DEF Keys
    <2> QED BY <2>1, TabShape, MeKept
  <1>4. /\ unheard \subseteq unheard' /\ unheard' \subseteq Keys
        /\ r.applied /\ k \in Mounted(page, form) /\ ~mutated => k \in unheard'
        /\ r.applied /\ k \notin Mounted(page, form) /\ swr[k].fetch = "read" => k \in unheard'
    BY Heard
  <1>5. FreshAt(k)' \/ (EntryKept(k) /\ ~r.applied /\ r.op # "rename")
    <2>1. CASE k \in Mounted(page, form) /\ mutated
      BY <1>2, <2>1, FreshAsked
    <2>2. CASE k \in Mounted(page, form) /\ ~mutated
      <3>1. CASE r.applied
        BY <1>4, <2>2, <3>1 DEF FreshAt
      <3>2. CASE ~r.applied
        BY <1>1, <1>2, <2>2, <3>2, EntrySame
      <3> QED BY <3>1, <3>2
    <2>3. CASE k \notin Mounted(page, form)
      <3>1. CASE c[k] = swr[k]
        <4>1. swr'[k] = swr[k]
          BY <1>2, <2>3, <3>1
        <4>2. AwaitedAt(k)' => AwaitedAt(k) /\ swr'[k].answer = swr[k].answer
          BY <4>1 DEF AwaitedAt
        <4>3. r.applied /\ swr'[k].fetch = "read" => k \in unheard'
          BY <1>4, <2>3, <4>1
        <4> QED BY <1>1, <1>4, <2>3, <4>2, <4>3, AnsweredUnused
      <3>2. CASE c[k].fetch = "idle"
        BY <1>1, <1>2, <2>3, <3>2, FreshAsked
      <3> QED BY <3>1, <3>2
    <2> QED BY <2>1, <2>2, <2>3
  <1>6. ASSUME NEW j \in Keys \ {"me"}
        PROVE  FreshAt(j)' \/ (EntryKept(j) /\ (j # KeyOf(r.op) \/ (~r.applied /\ r.op # "rename")))
    <2>1. CASE j = k
      BY <1>5, <2>1
    <2>2. CASE j # k
      BY <1>1, <1>2, <2>2, EntrySame
    <2> QED BY <2>1, <2>2
  <1> QED BY <1>2, <1>3, <1>4, <1>6, TabShape, SettledStep

LEMMA SubmitTitleStep == ASSUME WebInv, NEW title \in NewTitles, SubmitTitle(title) PROVE WebInv'
  <1>1. PICK data : Send("rename", title, data)
    BY DEF SubmitTitle
  <1>2. PICK v : swr' = Overwritten(swr, "document", v)
    BY DEF SubmitTitle
  <1>3. form' \in Forms /\ form'.modal = form.modal
    <2>1. form' = [form EXCEPT !.editing = FALSE]
      BY DEF SubmitTitle
    <2> QED BY <2>1, TabShape DEF Forms
  <1>4. /\ \A r \in asked' : Requested(r)
        /\ used' \in 0 .. MaxAsked /\ (\A k : RequestsKept(k)) /\ Disturbed("document")'
        /\ UNCHANGED <<server, page, auth, hasShareToken, topic, unheard>>
    <2>1. WebShape /\ "rename" \in Operations
      BY DEF WebInv, Operations
    <2> QED BY <1>1, <2>1, SendStep
  <1>5. /\ Cached(swr') /\ swr'["document"].fetch = "idle"
        /\ \A j \in Keys \ {"document"} : swr'[j] = swr[j]
    <2>1. "document" \in Keys
      BY DEF Keys
    <2> QED BY <1>2, <2>1, TabShape, OverwrittenStep
  <1>6. Mounted(page', form') = Mounted(page, form)
    BY <1>3, <1>4, MountedByModal
  <1>7. MeInv'
    <2>1. swr'["me"] = swr["me"]
      BY <1>5 DEF Keys
    <2> QED BY <1>4, <2>1, TabShape, MeKept
  <1>8. FreshAt("document")'
    BY <1>4, <1>5 DEF FreshAt, AwaitedAt
  <1>9. ASSUME NEW k \in Keys \ {"me"}
        PROVE  FreshAt(k)' \/ (RequestsKept(k) /\ EntryKept(k) /\ (k \in unheard => k \in unheard'))
    <2>1. CASE k = "document"
      BY <1>8, <2>1
    <2>2. CASE k # "document"
      BY <1>4, <1>5, <1>6, <2>2, EntrySame
    <2> QED BY <2>1, <2>2
  <1> QED BY <1>3, <1>4, <1>5, <1>7, <1>9, TabShape, TabStep

LEMMA LoginStep == ASSUME WebInv, NEW r, LoginAnswered(r) PROVE WebInv'
  <1>1. r \in asked /\ r.op = "login" /\ Settle(r) /\ UNCHANGED unheard
    BY DEF LoginAnswered, Taken
  <1>2. KeyOf(r.op) = "me"
    BY <1>1 DEF KeyOf
  <1>3. CASE r.phase = "done"
    <2> DEFINE c == Mutated(swr, {"me"})
    <2>1. auth' = r.id + 2 /\ Goto("home", c)
      BY <1>3 DEF LoginAnswered
    <2>2. /\ Cached(c) /\ c["me"].fetch = "asked"
          /\ \A k \in Keys \ {"me"} : c[k] = swr[k]
      BY TabShape, MutatedStep
    <2> HIDE DEF c
    <2>3. /\ Cached(swr') /\ page' \in Pages /\ form' \in Forms
          /\ swr'["me"].fetch = "asked" /\ \A k \in Keys \ {"me"} : EntryKept(k)
      BY <2>1, <2>2, GotoStep DEF Pages
    <2>4. MeInv'
      BY <2>3 DEF MeInv
    <2>5. auth' \in 0 .. MaxAsked + 1
      <3>1. r.id \in 0 .. MaxAsked - 1
        BY <1>1, TabShape DEF Requested
      <3> QED BY <2>1, <3>1, WebPagesAssumption
    <2> QED BY <1>1, <1>2, <2>3, <2>4, <2>5, TabShape, SettledStep
  <1>4. CASE r.phase # "done"
    <2>1. UNCHANGED <<auth, page, form, swr>>
      BY <1>4 DEF LoginAnswered
    <2>2. MeInv'
      BY <2>1, TabShape, MeKept
    <2>3. \A k \in Keys \ {"me"} : EntryKept(k)
      BY <2>1, EntrySame
    <2>4. Cached(swr')
      BY <2>1, TabShape
    <2> QED BY <1>1, <1>2, <2>1, <2>2, <2>3, <2>4, TabShape, SettledStep
  <1> QED BY <1>3, <1>4

LEMMA LogoutStep == ASSUME WebInv, NEW r, LogoutAnswered(r) PROVE WebInv'
  <1>1. "home" \in Pages /\ 0 \in 0 .. MaxAsked + 1
    BY WebPagesAssumption DEF Pages
  <1> QED BY <1>1, ReloadedStep DEF LogoutAnswered

LEMMA ChangePasswordStep == ASSUME WebInv, NEW r, ChangePasswordAnswered(r) PROVE WebInv'
  <1>1. r \in asked /\ r.op = "changePassword" /\ UNCHANGED <<server, auth, hasShareToken, topic, used>>
    BY DEF ChangePasswordAnswered, Taken
  <1>2. KeyOf(r.op) = "me"
    BY <1>1 DEF KeyOf
  <1>3. CASE r.phase = "done"
    <2>1. Reloaded(page)
      BY <1>3 DEF ChangePasswordAnswered
    <2> QED BY <1>1, <2>1, TabShape, ReloadedStep
  <1>4. CASE r.phase # "done"
    <2>1. UNCHANGED <<page, form, swr, unheard>> /\ asked' = asked \ {r}
      BY <1>4 DEF ChangePasswordAnswered
    <2>2. MeInv' /\ Settle(r)
      BY <1>1, <2>1, TabShape, MeKept DEF Settle
    <2>3. \A k \in Keys \ {"me"} : EntryKept(k)
      BY <2>1, EntrySame
    <2>4. Cached(swr') /\ auth' \in 0 .. MaxAsked + 1
      BY <1>1, <2>1, TabShape
    <2> QED BY <1>1, <1>2, <2>1, <2>2, <2>3, <2>4, TabShape, SettledStep
  <1> QED BY <1>3, <1>4

LEMMA RenameStep == ASSUME WebInv, NEW r, RenameAnswered(r) PROVE WebInv'
  <1> DEFINE c == IF r.phase = "failed" THEN Overwritten(swr, "document", Head(r.old)) ELSE swr
  <1>1. /\ r \in asked /\ r.op = "rename" /\ Settle(r) /\ HeardOf(r, TRUE)
        /\ swr' = Mutated(c, InUse("document")) /\ UNCHANGED <<page, auth, form>>
    BY DEF RenameAnswered, Taken
  <1>2. "document" \in Keys \ {"me"} /\ "document" = KeyOf(r.op)
    BY <1>1 DEF KeyOf, Keys
  <1>3. /\ Cached(c) /\ \A j \in Keys \ {"document"} : c[j] = swr[j]
        /\ c["document"] = swr["document"] \/ c["document"].fetch = "idle"
    BY <1>2, TabShape, OverwrittenStep
  <1> HIDE DEF c
  <1>4. form' \in Forms /\ form'.modal = form.modal
    BY <1>1, TabShape
  <1> QED BY <1>1, <1>2, <1>3, <1>4, AnsweredStep

LEMMA ShareStep == ASSUME WebInv, NEW r, ShareAnswered(r) PROVE WebInv'
  <1> DEFINE done == r.phase = "done"
  <1>1. /\ r \in asked /\ r.op = "share" /\ Settle(r) /\ HeardOf(r, done)
        /\ swr' = (IF done THEN Mutated(swr, InUse("shareTokens")) ELSE swr) /\ UNCHANGED <<page, auth>>
        /\ done \in BOOLEAN
    BY DEF ShareAnswered, Taken
  <1>2. "shareTokens" \in Keys \ {"me"} /\ "shareTokens" = KeyOf(r.op)
    BY <1>1 DEF KeyOf, Keys
  <1>3. form' \in Forms /\ form'.modal = form.modal
    <2>1. form' = form \/ form' = [form EXCEPT !.loading = FALSE]
      BY DEF ShareAnswered
    <2> QED BY <2>1, TabShape DEF Forms
  <1> HIDE DEF done
  <1> QED BY <1>1, <1>2, <1>3, TabShape, AnsweredStep

LEMMA UnshareStep == ASSUME WebInv, NEW r, UnshareAnswered(r) PROVE WebInv'
  <1>1. /\ r \in asked /\ r.op = "unshare" /\ Settle(r) /\ HeardOf(r, TRUE)
        /\ swr' = Mutated(swr, InUse("shareTokens")) /\ UNCHANGED <<page, auth, form>>
    BY DEF UnshareAnswered, Taken
  <1>2. "shareTokens" \in Keys \ {"me"} /\ "shareTokens" = KeyOf(r.op)
    BY <1>1 DEF KeyOf, Keys
  <1>3. form' \in Forms /\ form'.modal = form.modal
    BY <1>1, TabShape
  <1> QED BY <1>1, <1>2, <1>3, TabShape, AnsweredStep

LEMMA DeleteStep == ASSUME WebInv, NEW r, DeleteAnswered(r) PROVE WebInv'
  <1> DEFINE done == r.phase = "done"
  <1>1. /\ r \in asked /\ r.op = "delete" /\ Settle(r) /\ HeardOf(r, done)
        /\ swr' = (IF done THEN Mutated(swr, InUse("documents")) ELSE swr)
        /\ UNCHANGED <<page, auth, form>> /\ done \in BOOLEAN
    BY DEF DeleteAnswered, Taken
  <1>2. "documents" \in Keys \ {"me"} /\ "documents" = KeyOf(r.op)
    BY <1>1 DEF KeyOf, Keys
  <1>3. form' \in Forms /\ form'.modal = form.modal
    BY <1>1, TabShape
  <1> HIDE DEF done
  <1> QED BY <1>1, <1>2, <1>3, TabShape, AnsweredStep

\* The gallery appears before it is told of the new document.
LEMMA CreateStep == ASSUME WebInv, NEW r, CreateAnswered(r) PROVE WebInv'
  <1>1. /\ r \in asked /\ r.op = "create" /\ Settle(r) /\ HeardOf(r, FALSE) /\ UNCHANGED auth
    BY DEF CreateAnswered, Taken
  <1> DEFINE k == "documents"
  <1>2. k \in Keys \ {"me"} /\ k = KeyOf(r.op)
    BY <1>1 DEF KeyOf, Keys
  <1>3. CASE r.phase = "done"
    <2>1. Goto("home", swr)
      BY <1>3 DEF CreateAnswered
    <2>2. /\ Cached(swr') /\ page' \in Pages /\ form' \in Forms
          /\ swr'["me"].fetch = swr["me"].fetch /\ swr'["me"].data = swr["me"].data
          /\ \A j \in Keys \ {"me"} :
               /\ EntryKept(j)
               /\ j \in Mounted(page', form') \ Mounted(page, form) => swr'[j].fetch # "idle"
               /\ swr'[j].fetch = "read" => swr[j].fetch = "read"
      BY <2>1, TabShape, GotoStep DEF Pages
    <2>3. MeInv'
      BY <1>1, <2>2, TabShape, MeKept
    <2>4. /\ unheard \subseteq unheard' /\ unheard' \subseteq Keys
          /\ r.applied /\ k \in Mounted(page, form) => k \in unheard'
          /\ r.applied /\ k \notin Mounted(page, form) /\ swr[k].fetch = "read" => k \in unheard'
      BY <1>1, <1>2, Heard
    <2>5. r.applied => FreshAt(k)'
      <3>1. CASE k \in unheard'
        BY <3>1 DEF FreshAt
      <3>2. CASE k \notin unheard'
        <4> SUFFICES ASSUME r.applied PROVE FreshAt(k)'
          OBVIOUS
        <4>1. k \notin Mounted(page, form) /\ swr[k].fetch # "read"
          BY <2>4, <3>2
        <4>2. swr'[k].fetch # "read" /\ (k \in Mounted(page', form') => swr'[k].fetch # "idle")
          BY <1>2, <2>2, <4>1
        <4> QED BY <4>2 DEF FreshAt, ShownAt, AwaitedAt
      <3> QED BY <3>1, <3>2
    <2>6. ASSUME NEW j \in Keys \ {"me"}
          PROVE  FreshAt(j)' \/ (EntryKept(j) /\ (j # KeyOf(r.op) \/ (~r.applied /\ r.op # "rename")))
      BY <1>1, <1>2, <2>2, <2>5
    <2>7. auth' \in 0 .. MaxAsked + 1
      BY <1>1, TabShape
    <2> QED BY <1>1, <2>2, <2>3, <2>4, <2>6, <2>7, SettledStep
  <1>4. CASE r.phase # "done"
    <2>1. UNCHANGED <<page, swr>> /\ (form' = form \/ form' = [form EXCEPT !.loading = FALSE])
      BY <1>4 DEF CreateAnswered
    <2>2. form' \in Forms /\ form'.modal = form.modal
      BY <2>1, TabShape DEF Forms
    <2> QED BY <1>1, <1>2, <2>1, <2>2, TabShape, AnsweredStep
  <1> QED BY <1>3, <1>4

-----------------------------------------------------------------------------
(* Pages: the theorems.                                                      *)

LEMMA WebAtStart == ASSUME WebInit PROVE WebInv
  <1>1. /\ server = [title |-> FirstTitle, links |-> {}, documents |-> Gallery, sessions |-> {1}]
        /\ page \in Pages /\ auth \in {0, 1} /\ hasShareToken \in BOOLEAN /\ topic \in Keys
        /\ swr = Fresh(page) /\ asked = {} /\ form = NoForm /\ used = 0 /\ unheard = {}
    BY DEF WebInit, Pages, Private
  <1>2. /\ Cached(swr) /\ swr["me"].fetch = "asked"
        /\ \A k \in Keys : swr[k].data = NoData /\ swr[k].answer = NoData
    BY <1>1, FreshCached
  <1>3. /\ server \in [title : NewTitles \cup {FirstTitle}, links : SUBSET ShareLinks,
                 documents : SUBSET (Gallery \cup {"new"}), sessions : SUBSET (1 .. MaxAsked + 1)]
        /\ auth \in 0 .. MaxAsked + 1 /\ used \in 0 .. MaxAsked
    <2>1. 1 \in 1 .. MaxAsked + 1 /\ 0 \in 0 .. MaxAsked /\ 0 \in 0 .. MaxAsked + 1 /\ 1 \in 0 .. MaxAsked + 1
      BY WebPagesAssumption
    <2> QED BY <1>1, <2>1
  <1>4. form \in [editing : BOOLEAN, modal : BOOLEAN, loading : BOOLEAN]
    BY <1>1 DEF NoForm
  <1>5. WebShape
    BY <1>1, <1>2, <1>3, <1>4 DEF WebShape
  <1>6. MeInv
    BY <1>2 DEF MeInv
  <1>7. \A k \in Keys : FreshAt(k)
    BY <1>2 DEF FreshAt, ShownAt, AwaitedAt
  <1> QED BY <1>5, <1>6, <1>7 DEF WebInv

LEMMA WebStep == ASSUME WebInv, [WebNext]_webVars PROVE WebInv'
  <1>1. CASE UNCHANGED webVars
    BY <1>1 DEF webVars, WebInv, WebShape, MeInv, FreshAt, ShownAt, AwaitedAt, Disturbed, AppliedTo,
                Current, Cached
  <1>2. ASSUME NEW k \in Keys, Read(k) \/ Deliver(k) \/ Refetch(k) PROVE WebInv'
    BY <1>2, ReadStep, DeliverStep, RefetchStep
  <1>3. ASSUME NEW title \in NewTitles, SubmitTitle(title) PROVE WebInv'
    BY <1>3, SubmitTitleStep
  <1>4. ASSUME NEW r \in asked,
               \/ Serve(r) \/ RequestFails(r)
               \/ LoginAnswered(r) \/ LogoutAnswered(r) \/ ChangePasswordAnswered(r)
               \/ RenameAnswered(r) \/ ShareAnswered(r) \/ UnshareAnswered(r)
               \/ DeleteAnswered(r) \/ CreateAnswered(r)
        PROVE  WebInv'
    BY <1>4, ServeStep, FailsStep, LoginStep, LogoutStep, ChangePasswordStep, RenameStep, ShareStep,
       UnshareStep, DeleteStep, CreateStep
  <1>5. CASE Quiet
    BY <1>5, QuietActions
  <1>6. CASE FetchFails
    BY <1>6, FetchFailsStep
  <1>7. CASE Redirect
    BY <1>7, RedirectStep
  <1>8. CASE FollowLink
    BY <1>8, FollowLinkStep
  <1>9. CASE ToggleShareModal
    BY <1>9, ShareModalStep
  <1>10. CASE OlderEnds
    BY <1>10 DEF OlderEnds, WebInv, WebShape, MeInv, FreshAt, ShownAt, AwaitedAt, Disturbed, AppliedTo,
                 Current, Cached
  <1> QED BY <1>1, <1>2, <1>3, <1>4, <1>5, <1>6, <1>7, <1>8, <1>9, <1>10 DEF WebNext, Quiet

LEMMA WebInvCorrect == WebSpec => []WebInv
  BY WebAtStart, WebStep, PTL DEF WebSpec

\* Superseded fetches are counted as long as they are under way.
OlderInv == older.underWay \in Nat /\ older.failed \in BOOLEAN

LEMMA OlderStep == ASSUME OlderInv, [WebNext]_webVars PROVE OlderInv'
  <1> USE DEF OlderInv
  <1>1. CASE UNCHANGED older
    BY <1>1
  <1>2. CASE older' = NoOlder
    BY <1>2 DEF NoOlder
  <1>3. CASE \E n \in Nat, b \in BOOLEAN : older' = [underWay |-> n, failed |-> b]
    BY <1>3
  <1>4. ASSUME NEW k \in Keys, Read(k) \/ Deliver(k) PROVE UNCHANGED older
    BY <1>4 DEF Read, Deliver
  <1>5. ASSUME NEW k \in Keys, Refetch(k) PROVE OlderInv'
    <2>1. older' = older \/ older' = [older EXCEPT !.failed = FALSE]
      BY <1>5 DEF Refetch
    <2>2. [older EXCEPT !.failed = FALSE].underWay = older.underWay
      OBVIOUS
    <2>3. [older EXCEPT !.failed = FALSE].failed \in {FALSE, older.failed}
      OBVIOUS
    <2> QED BY <2>1, <2>2, <2>3
  <1>6. CASE OlderEnds
    <2>1. PICK failed \in BOOLEAN :
            older' = [underWay |-> older.underWay - 1, failed |-> older.failed \/ (failed /\ UnderWay)]
      BY <1>6 DEF OlderEnds
    <2>2. older.underWay - 1 \in Nat
      BY <1>6 DEF OlderEnds
    <2>3. (older.failed \/ (failed /\ UnderWay)) \in BOOLEAN
      OBVIOUS
    <2> QED BY <1>3, <2>1, <2>2, <2>3
  <1>7. ASSUME NEW op, NEW arg, NEW old, Send(op, arg, old) PROVE UNCHANGED older
    BY <1>7 DEF Send
  <1>8. ASSUME FetchFails \/ Redirect \/ FollowLink \/ SessionExpires \/ EditTitle \/ ToggleShareModal
        PROVE  UNCHANGED older
    BY <1>8 DEF FetchFails, Redirect, FollowLink, SessionExpires, EditTitle, ToggleShareModal
  <1>9. ASSUME \/ Login \/ UserMenu \/ SubmitShare \/ SubmitNew
               \/ \E title \in NewTitles : SubmitTitle(title)
               \/ \E link \in ShareLinks : DeleteLink(link)
               \/ \E doc \in Gallery \cup {"new"} : DeleteDocument(doc)
        PROVE  UNCHANGED older
    BY <1>7, <1>9 DEF Login, UserMenu, SubmitShare, SubmitNew, SubmitTitle, DeleteLink, DeleteDocument
  <1>10. ASSUME NEW r, \/ Serve(r) \/ RequestFails(r) \/ RenameAnswered(r) \/ ShareAnswered(r)
                      \/ UnshareAnswered(r) \/ DeleteAnswered(r) \/ CreateAnswered(r)
         PROVE  UNCHANGED older
    BY <1>10 DEF Serve, RequestFails, RenameAnswered, ShareAnswered, UnshareAnswered, DeleteAnswered,
                 CreateAnswered
  <1>11. ASSUME NEW r, LogoutAnswered(r) \/ ChangePasswordAnswered(r)
         PROVE  older' = NoOlder \/ UNCHANGED older
    BY <1>11 DEF LogoutAnswered, ChangePasswordAnswered, Reloaded
  <1>12. ASSUME NEW r, LoginAnswered(r) PROVE OlderInv'
    <2>1. \/ UNCHANGED older
          \/ older' = [underWay |-> older.underWay + (IF UnderWay THEN 1 ELSE 0), failed |-> FALSE]
      BY <1>12 DEF LoginAnswered
    <2>2. older.underWay + (IF UnderWay THEN 1 ELSE 0) \in Nat
      OBVIOUS
    <2> QED BY <1>1, <1>3, <2>1, <2>2
  <1>13. CASE UNCHANGED webVars
    BY <1>13 DEF webVars
  <1> QED BY <1>1, <1>2, <1>4, <1>5, <1>6, <1>8, <1>9, <1>10, <1>11, <1>12, <1>13 DEF WebNext

LEMMA OlderInvCorrect == WebSpec => []OlderInv
  <1>1. WebInit => OlderInv
    BY DEF WebInit, NoOlder, OlderInv
  <1> QED BY <1>1, OlderStep, PTL DEF WebSpec

LEMMA WebTyped == WebShape /\ OlderInv => WebTypeOK
  <1> SUFFICES ASSUME WebShape, OlderInv PROVE WebTypeOK
    OBVIOUS
  <1>1. /\ server.title \in NewTitles \cup {FirstTitle}
        /\ server.links \subseteq ShareLinks /\ server.documents \subseteq Gallery \cup {"new"}
        /\ server.sessions \subseteq 1 .. MaxAsked + 1
    BY DEF WebShape
  <1>2. \A k \in Keys : swr[k].fetch \in {"idle", "asked", "read", "failed"}
    BY DEF WebShape, Cached, Fetches
  <1>3. \A r \in asked : r.op \in Operations /\ r.phase \in {"sent", "done", "failed"}
    BY DEF WebShape, Requested
  <1>4. DOMAIN form = DOMAIN NoForm
    BY DEF WebShape, NoForm
  <1> QED BY <1>1, <1>2, <1>3, <1>4 DEF WebShape, WebTypeOK, OlderInv

LEMMA QuietIsCurrent == ASSUME WebInv PROVE QuietPagesAreCurrent
  <1> SUFFICES ASSUME NEW k \in Mounted(page, form) \ {"me"},
                      asked = {}, swr[k].fetch = "idle", swr[k].data # NoData, k \notin unheard
               PROVE  CASE k = "document" -> Head(swr[k].data).name = server.title
                        [] k = "shareTokens" -> Head(swr[k].data) = server.links
                        [] k = "documents" -> Head(swr[k].data) = server.documents
    BY DEF QuietPagesAreCurrent
  <1>1. k \in Keys \ {"me"}
    BY MountedKeys
  <1>2. ShownAt(k) /\ ~Disturbed(k)
    BY DEF ShownAt, Disturbed
  <1>3. Current(k, swr[k].data)
    BY <1>1, <1>2 DEF WebInv, FreshAt
  <1> QED BY <1>1, <1>3 DEF Current, Keys

\* The only way to the login page is the redirection, and it needs an answer, or
\* the error of some fetch.
LEMMA SentToLogin ==
  ASSUME WebInv, [WebNext]_webVars, page \in Private, page' \in {"login", "away"}, used' = used
  PROVE  auth \notin server.sessions \/ swr["me"].fetch = "failed" \/ (UnderWay /\ older.failed)
  <1>1. page' # page /\ page' \notin Private /\ page # "login"
    BY DEF Private
  <1>2. Redirect
    <2>1. ~UNCHANGED webVars
      BY <1>1 DEF webVars
    <2>2. \A k \in Keys : ~Read(k) /\ ~Deliver(k) /\ ~Refetch(k)
      BY <1>1 DEF Read, Deliver, Refetch
    <2>3. /\ ~FetchFails /\ ~OlderEnds /\ ~FollowLink /\ ~SessionExpires /\ ~EditTitle
          /\ ~ToggleShareModal
      BY <1>1 DEF FetchFails, OlderEnds, FollowLink, SessionExpires, EditTitle, ToggleShareModal, Goto
    <2>4. \A op, arg, old : ~Send(op, arg, old)
      BY <1>1 DEF Send
    <2>5. /\ ~Login /\ ~UserMenu /\ ~SubmitShare /\ ~SubmitNew
          /\ \A title : ~SubmitTitle(title)
          /\ \A link : ~DeleteLink(link)
          /\ \A doc : ~DeleteDocument(doc)
      BY <2>4 DEF Login, UserMenu, SubmitShare, SubmitNew, SubmitTitle, DeleteLink, DeleteDocument
    <2>6. ASSUME NEW r PROVE ~Serve(r) /\ ~RequestFails(r)
      BY <1>1 DEF Serve, RequestFails
    <2>7. ASSUME NEW r PROVE ~LoginAnswered(r) /\ ~LogoutAnswered(r) /\ ~ChangePasswordAnswered(r)
      BY <1>1 DEF LoginAnswered, LogoutAnswered, ChangePasswordAnswered, Reloaded, Goto, Private
    <2>8. ASSUME NEW r
          PROVE  /\ ~RenameAnswered(r) /\ ~ShareAnswered(r) /\ ~UnshareAnswered(r)
                 /\ ~DeleteAnswered(r) /\ ~CreateAnswered(r)
      BY <1>1 DEF RenameAnswered, ShareAnswered, UnshareAnswered, DeleteAnswered, CreateAnswered,
                  Goto, Private
    <2> QED BY <2>1, <2>2, <2>3, <2>5, <2>6, <2>7, <2>8 DEF WebNext
  <1>3. /\ swr["me"].data = NoData
        /\ swr["me"].fetch \notin {"asked", "read"} \/ (UnderWay /\ older.failed)
    BY <1>2 DEF Redirect, IsLoggedIn, IsLoading, UnderWay
  <1>4. swr["me"].fetch \in Fetches
    BY TabShape, EntryType
  <1>5. CASE swr["me"].fetch = "idle"
    <2>1. auth = 0
      BY <1>3, <1>5 DEF WebInv, MeInv
    <2>2. server.sessions \subseteq 1 .. MaxAsked + 1
      BY DEF WebInv, WebShape
    <2> QED BY <2>1, <2>2, WebPagesAssumption
  <1> QED BY <1>3, <1>4, <1>5 DEF Fetches

\* The tab keeps its shape: sessions and requests are within what was asked.
THEOREM WebTypeCorrect == WebSpec => []WebTypeOK
  BY WebInvCorrect, OlderInvCorrect, WebTyped, PTL DEF WebInv

\* What a quiet page shows is what the backend has, for any number of requests.
THEOREM QuietPagesAreCurrentCorrect == WebSpec => []QuietPagesAreCurrent
  BY WebInvCorrect, QuietIsCurrent, PTL

\* Nobody whose session is alive is sent to the login page by an answer, however
\* late it comes: only by the error of a fetch.
THEOREM SignedInIsNotSentToLoginCorrect == WebSpec => SignedInIsNotSentToLogin
  <1> DEFINE Sent == (page \in Private /\ page' \in {"login", "away"} /\ used' = used) =>
                        (\/ auth \notin server.sessions
                         \/ swr["me"].fetch = "failed"
                         \/ UnderWay /\ older.failed)
  <1>1. WebInv /\ [WebNext]_webVars => [Sent]_webVars
    BY SentToLogin
  <1> QED BY <1>1, WebInvCorrect, PTL DEF WebSpec, SignedInIsNotSentToLogin

-----------------------------------------------------------------------------
(* Widgets: what each kind keeps.                                           *)

DelayedWidget == [kind : {"dropdown", "tooltip"}, now : BOOLEAN, late : BOOLEAN,
                  prolonged : BOOLEAN, timer : {NoTimer, "late", "prolong"}]

HoldWidget == [kind : {"hold"}, down : SUBSET Buttons, inside : BOOLEAN, longPressing : BOOLEAN,
               pending : SUBSET (1 .. MaxPresses), timeout : 0 .. MaxPresses,
               running : SUBSET (1 .. MaxPresses), interval : 0 .. MaxPresses,
               presses : 0 .. MaxPresses, met : SUBSET (1 .. MaxPresses)]

ModalWidget == [kind : {"modal"}, shown : 0 .. MaxPresses, closing : 0 .. MaxPresses,
                wanted : 0 .. MaxPresses, uses : 0 .. MaxPresses, hasty : BOOLEAN]

MenuWidget == [kind : {"menu"}, open : Titles \cup {"none"}, fired : SUBSET DOMAIN Accelerators,
               capsLock : BOOLEAN, shift : BOOLEAN]

VideoWidget == [kind : {"video"}, height : Heights, spacer : Heights, stored : Heights,
                aspect : Aspects \cup {0}, from : [x : Heights, y : Heights],
                edge : {"initial", "nw", "w", "n"}, width : Nat, tall : Heights]

PickerWidget == [kind : {"picker"}, value : Accepted \cup Refused \cup {"nothing"},
                 indicator : BOOLEAN]

DebugWidget == [kind : {"debug"}, stored : BOOLEAN, mounted : SUBSET Panels, enabled : SUBSET Panels]

\* The timer that runs is that of the last change.
DelayedInv ==
  /\ widget \in DelayedWidget
  /\ widget.late => widget.now
  /\ widget.now => widget.prolonged
  /\ widget.timer = NoTimer => widget.late = widget.now /\ widget.prolonged = widget.now
  /\ widget.timer = "late" => widget.now
  /\ widget.timer = "prolong" => ~widget.now

\* Either all timers have met another one, or there is one at most, the newest, and
\* it is there only while the button is down and the pointer on it.
OneTimer ==
  /\ widget.pending \subseteq {widget.timeout}
  /\ widget.running \subseteq {widget.interval}
  /\ widget.pending = {} \/ widget.running = {}
  /\ widget.running # {} => widget.longPressing
  /\ widget.pending # {} \/ widget.running # {} => widget.inside /\ widget.down # {}
HoldInv == widget \in HoldWidget /\ (OneTimer \/ Timers(widget) \subseteq widget.met)

\* While a modal fades nothing else is wanted but what was opened meanwhile.
ModalInv ==
  /\ widget \in ModalWidget
  /\ widget.closing > 0 => widget.wanted = 0 \/ widget.hasty
  /\ widget.closing = 0 => widget.shown = widget.wanted \/ (widget.shown = 0 /\ widget.hasty)

MenuInv == widget \in MenuWidget /\ KeysAreTheItems

VideoInv ==
  /\ widget \in VideoWidget /\ PreviewFits
  /\ widget.edge # "initial" => widget.aspect \in Aspects

DebugInv == widget \in DebugWidget /\ DebugIsKnown

WidgetsInv ==
  \/ DelayedInv \/ HoldInv \/ ModalInv \/ MenuInv \/ VideoInv
  \/ widget \in PickerWidget \/ DebugInv

\* The kinds exclude each other.
LEMMA KindOf ==
  ASSUME WidgetsInv
  PROVE  /\ Is("dropdown") \/ Is("tooltip") => DelayedInv
         /\ Is("hold") => HoldInv
         /\ Is("modal") => ModalInv
         /\ Is("menu") => MenuInv
         /\ Is("video") => VideoInv
         /\ Is("picker") => widget \in PickerWidget
         /\ Is("debug") => DebugInv
  <1>1. CASE DelayedInv
    BY <1>1 DEF DelayedInv, DelayedWidget, Is
  <1>2. CASE HoldInv
    BY <1>2 DEF HoldInv, HoldWidget, Is
  <1>3. CASE ModalInv
    BY <1>3 DEF ModalInv, ModalWidget, Is
  <1>4. CASE MenuInv
    BY <1>4 DEF MenuInv, MenuWidget, Is
  <1>5. CASE VideoInv
    BY <1>5 DEF VideoInv, VideoWidget, Is
  <1>6. CASE widget \in PickerWidget
    BY <1>6 DEF PickerWidget, Is
  <1>7. CASE DebugInv
    BY <1>7 DEF DebugInv, DebugWidget, Is
  <1> QED BY <1>1, <1>2, <1>3, <1>4, <1>5, <1>6, <1>7 DEF WidgetsInv

LEMMA WidgetsAtStart == ASSUME WidgetsInit PROVE WidgetsInv
  <1>1. ASSUME NEW kind \in {"dropdown", "tooltip"},
               widget = [kind |-> kind, now |-> FALSE, late |-> FALSE, prolonged |-> FALSE,
                         timer |-> NoTimer]
        PROVE  WidgetsInv
    BY <1>1 DEF WidgetsInv, DelayedInv, DelayedWidget, NoTimer
  <1>2. CASE widget = [kind |-> "hold", down |-> {}, inside |-> FALSE, longPressing |-> FALSE,
                       pending |-> {}, timeout |-> 0, running |-> {}, interval |-> 0,
                       presses |-> 0, met |-> {}]
    BY <1>2, WidgetsAssumption DEF WidgetsInv, HoldInv, HoldWidget, OneTimer
  <1>3. CASE widget = [kind |-> "modal", shown |-> 0, closing |-> 0, wanted |-> 0, uses |-> 0,
                       hasty |-> FALSE]
    BY <1>3, WidgetsAssumption DEF WidgetsInv, ModalInv, ModalWidget
  <1>4. CASE widget = [kind |-> "menu", open |-> "none", fired |-> {}, capsLock |-> FALSE,
                       shift |-> FALSE]
    BY <1>4 DEF WidgetsInv, MenuInv, MenuWidget, KeysAreTheItems
  <1>5. ASSUME NEW h \in Heights, h > 0,
               widget = [kind |-> "video", height |-> h, spacer |-> h, stored |-> h, aspect |-> 0,
                         from |-> [x |-> 0, y |-> 0], edge |-> "initial", width |-> 0, tall |-> h]
        PROVE  WidgetsInv
    <2>1. 0 \in Heights /\ [x |-> 0, y |-> 0] \in [x : Heights, y : Heights] /\ h >= 1
      BY <1>5, WidgetsAssumption DEF Heights
    <2> QED BY <1>5, <2>1 DEF WidgetsInv, VideoInv, VideoWidget, PreviewFits
  <1>6. CASE widget = [kind |-> "picker", value |-> "nothing", indicator |-> FALSE]
    BY <1>6 DEF WidgetsInv, PickerWidget
  <1>7. ASSUME NEW stored \in BOOLEAN,
               widget = [kind |-> "debug", stored |-> stored, mounted |-> {}, enabled |-> {}]
        PROVE  WidgetsInv
    BY <1>7 DEF WidgetsInv, DebugInv, DebugWidget, DebugIsKnown
  <1> QED BY <1>1, <1>2, <1>3, <1>4, <1>5, <1>6, <1>7 DEF WidgetsInit

LEMMA DelayedStep ==
  ASSUME WidgetsInv, DelayPasses \/ ClickDropdown \/ HoverTooltip
  PROVE  DelayedInv'
  <1>1. DelayedInv
    BY KindOf DEF DelayPasses, ClickDropdown, HoverTooltip, Is
  <1>2. ASSUME NEW next \in BOOLEAN, SetShow(next) PROVE DelayedInv'
    <2>1. CASE next
      BY <1>1, <1>2, <2>1 DEF SetShow, DelayedInv, DelayedWidget, NoTimer
    <2>2. CASE ~next
      BY <1>1, <1>2, <2>2 DEF SetShow, DelayedInv, DelayedWidget, NoTimer
    <2> QED BY <2>1, <2>2
  <1>3. CASE DelayPasses
    BY <1>1, <1>3 DEF DelayPasses, DelayedInv, DelayedWidget, NoTimer
  <1>4. CASE ClickDropdown
    <2>1. widget.now \in BOOLEAN
      BY <1>1 DEF DelayedInv, DelayedWidget
    <2> QED BY <1>2, <1>4, <2>1 DEF ClickDropdown
  <1>5. CASE HoverTooltip
    BY <1>2, <1>5 DEF HoverTooltip
  <1> QED BY <1>3, <1>4, <1>5

\* After a release heard of only timers that met another one may go on.
LEMMA ReleasedStops ==
  ASSUME NEW w \in HoldWidget,
         \/ /\ w.pending \subseteq {w.timeout} /\ w.running \subseteq {w.interval}
            /\ w.running # {} => w.longPressing
         \/ Timers(w) \subseteq w.met
  PROVE  Released(w) \in HoldWidget /\ Timers(Released(w)) \subseteq Released(w).met
  <1>1. Released(w) \in HoldWidget /\ Released(w).met = w.met
    BY DEF Released, HoldWidget
  <1>2. /\ Released(w).pending = w.pending \ {w.timeout}
        /\ Released(w).running = IF w.longPressing THEN w.running \ {w.interval} ELSE w.running
    BY DEF Released, HoldWidget
  <1> QED BY <1>1, <1>2 DEF Timers

LEMMA HoldDownStep ==
  ASSUME WidgetsInv, NEW b \in Buttons, MouseDown(b) \/ MouseUp(b)
  PROVE  HoldInv'
  <1>1. HoldInv /\ widget \in HoldWidget
    BY KindOf DEF MouseDown, MouseUp, HoldInv
  <1>2. CASE MouseDown(b)
    <2> DEFINE m == widget.presses + 1
               met == IF Timers(widget) = {} THEN widget.met
                      ELSE widget.met \cup Timers(widget) \cup {m}
    <2>1. m \in 1 .. MaxPresses /\ m \in 0 .. MaxPresses
      BY <1>1, <1>2, WidgetsAssumption DEF MouseDown, HoldWidget
    <2>2. /\ widget' = [widget EXCEPT !.down = @ \cup {b}, !.presses = m, !.timeout = m,
                                      !.pending = @ \cup {m},
                                      !.met = met]
          /\ widget.inside
      BY <1>1, <1>2 DEF MouseDown, HoldWidget
    <2>5. met \in SUBSET (1 .. MaxPresses)
      BY <1>1, <2>1 DEF HoldWidget, Timers
    <2>6. /\ Timers(widget) = {} \/ Timers(widget) \cup {m} \subseteq met
      OBVIOUS
    <2> HIDE DEF m, met
    <2>3. widget' \in HoldWidget
      BY <1>1, <2>1, <2>2, <2>5 DEF HoldWidget
    <2>7. /\ widget'.pending = widget.pending \cup {m} /\ widget'.running = widget.running
          /\ widget'.timeout = m /\ widget'.inside /\ widget'.down # {} /\ widget'.met = met
      BY <1>1, <2>2 DEF HoldWidget
    <2> QED BY <2>3, <2>6, <2>7 DEF HoldInv, OneTimer, Timers
  <1>3. CASE MouseUp(b)
    <2> DEFINE up == [widget EXCEPT !.down = @ \ {b}]
    <2>1. /\ up \in HoldWidget /\ up.down = widget.down \ {b} /\ up.inside = widget.inside
          /\ up.met = widget.met /\ up.pending = widget.pending
          /\ up.running = widget.running /\ up.timeout = widget.timeout
          /\ up.interval = widget.interval /\ up.longPressing = widget.longPressing
      BY <1>1 DEF HoldWidget
    <2>2. widget' = IF widget.inside THEN Released(up) ELSE up
      BY <1>3 DEF MouseUp
    <2> HIDE DEF up
    <2>3. CASE widget.inside
      <3>1. \/ /\ up.pending \subseteq {up.timeout} /\ up.running \subseteq {up.interval}
               /\ up.running # {} => up.longPressing
            \/ Timers(up) \subseteq up.met
        BY <1>1, <2>1 DEF HoldInv, OneTimer, Timers
      <3> QED BY <2>1, <2>2, <2>3, <3>1, ReleasedStops DEF HoldInv
    <2>4. CASE ~widget.inside
      BY <1>1, <2>1, <2>2, <2>4 DEF HoldInv, OneTimer, Timers
    <2> QED BY <2>3, <2>4
  <1> QED BY <1>2, <1>3

LEMMA HoldMoveStep ==
  ASSUME WidgetsInv, MouseMoves \/ \E n \in 1 .. MaxPresses : LongPress(n)
  PROVE  HoldInv'
  <1>1. HoldInv /\ widget \in HoldWidget
    BY KindOf DEF LongPress, MouseMoves, HoldInv
  <1>2. ASSUME NEW n \in 1 .. MaxPresses, LongPress(n) PROVE HoldInv'
    <2> DEFINE pending == widget.pending \ {n}
               running == widget.running \cup {n}
    <2>1. widget.pending \in SUBSET (1 .. MaxPresses) /\ widget.running \in SUBSET (1 .. MaxPresses)
      BY <1>1 DEF HoldWidget
    <2>2. pending \in SUBSET (1 .. MaxPresses) /\ running \in SUBSET (1 .. MaxPresses)
      BY <2>1
    <2>3. n \in 0 .. MaxPresses
      BY WidgetsAssumption
    <2>4. widget' = [widget EXCEPT !.pending = pending, !.longPressing = TRUE,
                                   !.running = running, !.interval = n]
      BY <1>1, <1>2 DEF LongPress, HoldWidget
    <2>5. widget' \in HoldWidget
      <3> HIDE DEF pending, running
      <3> QED BY <1>1, <2>2, <2>3, <2>4 DEF HoldWidget
    <2>6. /\ widget'.pending = pending /\ widget'.running = running /\ widget'.interval = n
          /\ widget'.longPressing /\ widget'.inside = widget.inside
          /\ widget'.down = widget.down /\ widget'.met = widget.met
      BY <1>1, <2>4 DEF HoldWidget
    <2>7. n \in widget.pending
      BY <1>2 DEF LongPress
    <2>8. CASE OneTimer
      <3>1. pending = {} /\ running = {n} /\ widget.inside /\ widget.down # {}
        BY <2>7, <2>8 DEF OneTimer
      <3> HIDE DEF pending, running
      <3> QED BY <2>5, <2>6, <3>1 DEF HoldInv, OneTimer
    <2>9. CASE Timers(widget) \subseteq widget.met
      <3>1. pending \cup running \subseteq widget.met
        BY <2>7, <2>9 DEF Timers
      <3> HIDE DEF pending, running
      <3> QED BY <2>5, <2>6, <3>1 DEF HoldInv, Timers
    <2> QED BY <1>1, <2>8, <2>9 DEF HoldInv
  <1>3. CASE MouseMoves
    <2> DEFINE moved == [widget EXCEPT !.inside = ~@]
    <2>1. /\ moved \in HoldWidget /\ moved.down = widget.down /\ moved.inside = ~widget.inside
          /\ moved.met = widget.met /\ moved.pending = widget.pending
          /\ moved.running = widget.running /\ moved.timeout = widget.timeout
          /\ moved.interval = widget.interval /\ moved.longPressing = widget.longPressing
      BY <1>1 DEF HoldWidget
    <2>2. widget' = IF widget.inside THEN Released(moved) ELSE moved
      BY <1>3 DEF MouseMoves
    <2> HIDE DEF moved
    <2>3. CASE widget.inside
      <3>1. \/ /\ moved.pending \subseteq {moved.timeout} /\ moved.running \subseteq {moved.interval}
               /\ moved.running # {} => moved.longPressing
            \/ Timers(moved) \subseteq moved.met
        BY <1>1, <2>1 DEF HoldInv, OneTimer, Timers
      <3> QED BY <2>1, <2>2, <2>3, <3>1, ReleasedStops DEF HoldInv
    <2>4. CASE ~widget.inside
      BY <1>1, <2>1, <2>2, <2>4 DEF HoldInv, OneTimer, Timers
    <2> QED BY <2>3, <2>4
  <1> QED BY <1>2, <1>3

LEMMA ModalStep ==
  ASSUME WidgetsInv, ShowModal \/ CloseModal \/ ModalFaded
  PROVE  ModalInv'
  <1>1. ModalInv /\ widget \in ModalWidget
    BY KindOf DEF ShowModal, CloseModal, ModalFaded, ModalInv
  <1>2. CASE ShowModal
    <2> DEFINE m == widget.uses + 1
    <2>1. m \in 0 .. MaxPresses
      BY <1>1, <1>2, WidgetsAssumption DEF ShowModal, ModalWidget
    <2>2. widget' = [widget EXCEPT !.shown = m, !.wanted = m, !.uses = m,
                                   !.hasty = widget.closing > 0]
      BY <1>2 DEF ShowModal
    <2> HIDE DEF m
    <2>3. (widget.closing > 0) \in BOOLEAN
      OBVIOUS
    <2> DEFINE hasty == widget.closing > 0
    <2>4. widget' = [widget EXCEPT !.shown = m, !.wanted = m, !.uses = m, !.hasty = hasty]
      BY <2>2
    <2>5. hasty \in BOOLEAN /\ (widget.closing > 0 => hasty)
      BY <2>3
    <2> HIDE DEF hasty
    <2>6. widget' \in ModalWidget
      BY <1>1, <2>1, <2>4, <2>5 DEF ModalWidget
    <2>7. /\ widget'.closing = widget.closing /\ widget'.hasty = hasty
          /\ widget'.shown = m /\ widget'.wanted = m
      BY <1>1, <2>4 DEF ModalWidget
    <2> QED BY <2>5, <2>6, <2>7 DEF ModalInv
  <1>3. CASE CloseModal
    <2>1. widget.closing + 1 \in 0 .. MaxPresses /\ widget.closing + 1 > 0 /\ 0 \in 0 .. MaxPresses
      BY <1>1, <1>3, WidgetsAssumption DEF CloseModal, ModalWidget
    <2> DEFINE closing == widget.closing + 1
    <2>2. widget' = [widget EXCEPT !.wanted = 0, !.closing = closing]
      BY <1>3 DEF CloseModal
    <2> HIDE DEF closing
    <2>3. closing \in 0 .. MaxPresses /\ closing > 0 /\ closing # 0
      BY <2>1 DEF closing
    <2>4. widget' \in ModalWidget
      BY <1>1, <2>1, <2>2, <2>3 DEF ModalWidget
    <2>5. widget'.closing = closing /\ widget'.wanted = 0
      BY <1>1, <2>2 DEF ModalWidget
    <2> QED BY <2>3, <2>4, <2>5 DEF ModalInv
  <1>4. CASE ModalFaded
    <2>1. widget.closing - 1 \in 0 .. MaxPresses /\ 0 \in 0 .. MaxPresses /\ widget.closing > 0
      BY <1>1, <1>4, WidgetsAssumption DEF ModalFaded, ModalWidget
    <2> QED BY <1>1, <1>4, <2>1 DEF ModalFaded, ModalInv, ModalWidget
  <1> QED BY <1>2, <1>3, <1>4

\* What fires without Caps Lock has Shift as it was pressed.
LEMMA MenuStep ==
  ASSUME WidgetsInv,
         \/ \E title \in Titles : ClickTitle(title) \/ HoverTitle(title)
         \/ \E item \in DOMAIN Accelerators : ClickItem(item)
         \/ CloseMenu
         \/ \E item \in DOMAIN Accelerators, shift, capsLock \in BOOLEAN :
               PressKeys(Accelerators[item].key, shift, capsLock)
  PROVE  MenuInv'
  <1>1. MenuInv /\ widget \in MenuWidget
    BY KindOf DEF ClickTitle, HoverTitle, ClickItem, CloseMenu, PressKeys, MenuInv
  <1>2. ASSUME NEW title \in Titles, ClickTitle(title) PROVE MenuInv'
    <2> DEFINE chosen == IF widget.open = title THEN "none" ELSE title
    <2>1. chosen \in Titles \cup {"none"}
      OBVIOUS
    <2>2. widget' = [widget EXCEPT !.open = chosen, !.fired = {}]
      BY <1>1, <1>2 DEF ClickTitle, MenuWidget
    <2> HIDE DEF chosen
    <2> QED BY <1>1, <2>1, <2>2 DEF MenuInv, MenuWidget, KeysAreTheItems
  <1>3. ASSUME NEW title \in Titles, HoverTitle(title) PROVE MenuInv'
    BY <1>1, <1>3 DEF HoverTitle, MenuInv, MenuWidget, KeysAreTheItems, Is
  <1>4. CASE CloseMenu \/ \E item \in DOMAIN Accelerators : ClickItem(item)
    BY <1>1, <1>4 DEF ClickItem, CloseMenu, MenuInv, MenuWidget, KeysAreTheItems
  <1>5. ASSUME NEW item \in DOMAIN Accelerators, NEW shift \in BOOLEAN, NEW capsLock \in BOOLEAN,
               PressKeys(Accelerators[item].key, shift, capsLock)
        PROVE  MenuInv'
    <2> DEFINE fired == Fired(Accelerators[item].key, shift, capsLock)
    <2>1. fired \in SUBSET DOMAIN Accelerators
      BY DEF Fired
    <2>2. ~capsLock => \A i \in fired : Accelerators[i].shift = shift
      BY WidgetsAssumption DEF Fired
    <2>3. widget' = [widget EXCEPT !.fired = fired, !.shift = shift, !.capsLock = capsLock]
      BY <1>5 DEF PressKeys
    <2> HIDE DEF fired
    <2> QED BY <1>1, <2>1, <2>2, <2>3 DEF MenuInv, MenuWidget, KeysAreTheItems
  <1> QED BY <1>2, <1>3, <1>4, <1>5

\* The preview gets no higher than the window is wide, and no lower than one step.
LEMMA ResizedFits ==
  ASSUME NEW height \in Int, NEW aspect \in Aspects
  PROVE  /\ ResizedTo(height, aspect) \in Heights /\ ResizedTo(height, aspect) >= 1
         /\ ResizedTo(height, aspect) <= MaxHeight(aspect) \/ ResizedTo(height, aspect) = 1
  <1>1. WindowWidth \in Nat /\ WindowWidth >= 1
    BY WidgetsAssumption
  <1>2. MaxHeight(aspect) \in Int /\ MaxHeight(aspect) <= WindowWidth
    <2>1. CASE aspect = 1
      BY <1>1, <2>1 DEF MaxHeight
    <2>2. CASE aspect = 2
      BY <1>1, <2>2 DEF MaxHeight
    <2> QED BY <2>1, <2>2 DEF Aspects
  <1> QED BY <1>1, <1>2 DEF ResizedTo, Heights

LEMMA VideoStep ==
  ASSUME WidgetsInv, TakeEdge \/ MoveEdge \/ LeaveEdge
  PROVE  VideoInv'
  <1>1. VideoInv /\ widget \in VideoWidget
    BY KindOf DEF TakeEdge, MoveEdge, LeaveEdge, VideoInv
  <1>2. 0 \in Heights /\ \A h \in Heights : h \in Nat
    BY WidgetsAssumption DEF Heights
  <1>3. /\ widget.height \in Heights /\ widget.tall \in Heights
        /\ widget.from.x \in Heights /\ widget.from.y \in Heights
    BY <1>1 DEF VideoWidget
  <1>4. widget.width \in Nat
    BY <1>1 DEF VideoWidget
  <1>5. /\ widget.height \in Heights /\ Is("video")
        /\ widget.spacer = widget.height /\ widget.stored = widget.height /\ widget.height >= 1
    BY <1>1 DEF VideoWidget, VideoInv, PreviewFits, Is
  <1>6. CASE TakeEdge
    <2>1. PICK x \in Heights, y \in Heights, edge \in {"nw", "w", "n"}, aspect \in Aspects :
             widget' = [widget EXCEPT !.edge = edge, !.from = [x |-> x, y |-> y],
                                      !.aspect = aspect, !.tall = widget.height,
                                      !.width = widget.height * aspect]
      BY <1>6 DEF TakeEdge
    <2> DEFINE from == [x |-> x, y |-> y]
               width == widget.height * aspect
    <2>2. from \in [x : Heights, y : Heights]
      OBVIOUS
    <2>3. width \in Nat
      <3>1. widget.height \in Nat /\ aspect \in Nat
        BY <1>2, <1>3 DEF Aspects
      <3> QED BY <3>1
    <2>4. widget' = [widget EXCEPT !.edge = edge, !.from = from, !.aspect = aspect,
                                   !.tall = widget.height, !.width = width]
      BY <2>1
    <2> HIDE DEF from, width
    <2>5. widget' \in VideoWidget
      BY <1>1, <1>5, <2>2, <2>3, <2>4 DEF VideoWidget
    <2>6. /\ widget'.height = widget.height /\ widget'.tall = widget.height
          /\ widget'.spacer = widget.spacer /\ widget'.stored = widget.stored
          /\ widget'.aspect = aspect
      BY <1>1, <2>4 DEF VideoWidget
    <2> QED BY <1>5, <2>5, <2>6 DEF VideoInv, PreviewFits
  <1>7. CASE MoveEdge
    <2>1. widget.aspect \in Aspects /\ widget.edge # "initial"
      BY <1>1, <1>7 DEF MoveEdge, VideoInv
    <2>2. ASSUME NEW width \in Int PROVE width \div widget.aspect \in Int
      <3>1. CASE widget.aspect = 1
        BY <3>1
      <3>2. CASE widget.aspect = 2
        BY <3>2
      <3> QED BY <2>1, <3>1, <3>2 DEF Aspects
    <2>3. \E height \in Int : LET new == ResizedTo(height, widget.aspect)
                              IN  widget' = [widget EXCEPT !.height = new, !.spacer = new, !.stored = new]
      <3>1. PICK x \in Heights, y \in Heights :
               LET width == widget.width + widget.from.x - x
                   height == widget.tall + widget.from.y - y
                   byWidth == \/ widget.edge = "w"
                              \/ widget.edge = "nw" /\ widget.aspect * height > width
                   new == ResizedTo(IF byWidth THEN width \div widget.aspect ELSE height,
                                    widget.aspect)
               IN  widget' = [widget EXCEPT !.height = new, !.spacer = new, !.stored = new]
        BY <1>7 DEF MoveEdge
      <3> DEFINE width == widget.width + widget.from.x - x
                 height == widget.tall + widget.from.y - y
                 byWidth == \/ widget.edge = "w"
                            \/ widget.edge = "nw" /\ widget.aspect * height > width
                 wanted == IF byWidth THEN width \div widget.aspect ELSE height
      <3>2. width \in Int /\ height \in Int
        <4>1. x \in Int /\ y \in Int
          BY <1>2
        <4>2. /\ widget.width \in Int /\ widget.tall \in Int
              /\ widget.from.x \in Int /\ widget.from.y \in Int
          BY <1>2, <1>3, <1>4
        <4> QED BY <4>1, <4>2
      <3>3. wanted \in Int
        BY <2>2, <3>2
      <3>4. LET new == ResizedTo(wanted, widget.aspect)
            IN  widget' = [widget EXCEPT !.height = new, !.spacer = new, !.stored = new]
        BY <3>1
      <3> HIDE DEF wanted
      <3> QED BY <3>3, <3>4
    <2>4. PICK height \in Int : LET new == ResizedTo(height, widget.aspect)
                                IN  widget' = [widget EXCEPT !.height = new, !.spacer = new, !.stored = new]
      BY <2>3
    <2> DEFINE new == ResizedTo(height, widget.aspect)
    <2>5. new \in Heights /\ new >= 1 /\ (new <= MaxHeight(widget.aspect) \/ new = 1)
      BY <2>1, ResizedFits
    <2>6. widget' = [widget EXCEPT !.height = new, !.spacer = new, !.stored = new]
      BY <2>4
    <2> HIDE DEF new
    <2>7. widget' \in VideoWidget
      BY <1>1, <2>5, <2>6 DEF VideoWidget
    <2>8. /\ widget'.height = new /\ widget'.spacer = new /\ widget'.stored = new
          /\ widget'.aspect = widget.aspect
      BY <1>1, <2>6 DEF VideoWidget
    <2> QED BY <2>1, <2>5, <2>7, <2>8 DEF VideoInv, PreviewFits
  <1>8. CASE LeaveEdge
    <2> DEFINE from == [x |-> 0, y |-> 0]
    <2>1. from \in [x : Heights, y : Heights] /\ 0 \in Nat
      BY <1>2
    <2>2. widget' = [widget EXCEPT !.edge = "initial", !.from = from, !.width = 0,
                                   !.tall = widget.height]
      BY <1>8 DEF LeaveEdge
    <2> HIDE DEF from
    <2>3. widget' \in VideoWidget
      BY <1>1, <1>5, <2>1, <2>2 DEF VideoWidget
    <2>4. /\ widget'.height = widget.height /\ widget'.spacer = widget.spacer
          /\ widget'.stored = widget.stored /\ widget'.edge = "initial"
      BY <1>1, <2>2 DEF VideoWidget
    <2> QED BY <1>5, <2>3, <2>4 DEF VideoInv, PreviewFits
  <1> QED BY <1>6, <1>7, <1>8

LEMMA PickerStep ==
  ASSUME WidgetsInv, DragFile \/ PickFile \/ RemoveSelection
  PROVE  widget' \in PickerWidget
  <1>1. widget \in PickerWidget
    BY KindOf DEF DragFile, PickFile, RemoveSelection
  <1>2. CASE DragFile
    BY <1>1, <1>2 DEF DragFile, PickerWidget
  <1>3. CASE PickFile
    <2>1. PICK file \in Accepted \cup Refused \cup {"nothing"}, dropped \in BOOLEAN :
             widget' = [widget EXCEPT !.indicator = IF dropped THEN FALSE ELSE @,
                                      !.value = IF file \in Accepted THEN file ELSE @]
      BY <1>3 DEF PickFile
    <2> DEFINE indicator == IF dropped THEN FALSE ELSE widget.indicator
               value == IF file \in Accepted THEN file ELSE widget.value
    <2>2. indicator \in BOOLEAN /\ value \in Accepted \cup Refused \cup {"nothing"}
      BY <1>1 DEF PickerWidget
    <2>3. widget' = [widget EXCEPT !.indicator = indicator, !.value = value]
      BY <1>1, <2>1 DEF PickerWidget
    <2> HIDE DEF indicator, value
    <2> QED BY <1>1, <2>2, <2>3 DEF PickerWidget
  <1>4. CASE RemoveSelection
    BY <1>1, <1>4 DEF RemoveSelection, PickerWidget
  <1> QED BY <1>2, <1>3, <1>4

LEMMA DebugStep ==
  ASSUME WidgetsInv, ToggleDebugMode \/ \E p \in Panels : MountPanel(p) \/ UnmountPanel(p)
  PROVE  DebugInv'
  <1>1. DebugInv /\ widget \in DebugWidget
    BY KindOf DEF ToggleDebugMode, MountPanel, UnmountPanel, DebugInv
  <1>2. widget.enabled = IF widget.stored THEN widget.mounted ELSE {}
    BY <1>1 DEF DebugInv, DebugIsKnown, Is, DebugWidget
  <1>3. CASE ToggleDebugMode
    BY <1>1, <1>2, <1>3 DEF ToggleDebugMode, DebugInv, DebugWidget, DebugIsKnown
  <1>4. ASSUME NEW p \in Panels, MountPanel(p) PROVE DebugInv'
    <2>1. CASE widget.stored
      BY <1>1, <1>2, <1>4, <2>1 DEF MountPanel, DebugInv, DebugWidget, DebugIsKnown
    <2>2. CASE ~widget.stored
      BY <1>1, <1>2, <1>4, <2>2 DEF MountPanel, DebugInv, DebugWidget, DebugIsKnown
    <2> QED BY <2>1, <2>2
  <1>5. ASSUME NEW p \in Panels, UnmountPanel(p) PROVE DebugInv'
    <2>1. CASE widget.stored
      BY <1>1, <1>2, <1>5, <2>1 DEF UnmountPanel, DebugInv, DebugWidget, DebugIsKnown
    <2>2. CASE ~widget.stored
      BY <1>1, <1>2, <1>5, <2>2 DEF UnmountPanel, DebugInv, DebugWidget, DebugIsKnown
    <2> QED BY <2>1, <2>2
  <1> QED BY <1>3, <1>4, <1>5

LEMMA WidgetsStep == ASSUME WidgetsInv, [WidgetsNext]_widget PROVE WidgetsInv'
  <1>1. CASE UNCHANGED widget
    BY <1>1 DEF WidgetsInv, DelayedInv, HoldInv, OneTimer, ModalInv, MenuInv, VideoInv, DebugInv,
                KeysAreTheItems, PreviewFits, DebugIsKnown, Is
  <1>2. CASE DelayPasses \/ ClickDropdown \/ HoverTooltip
    BY <1>2, DelayedStep DEF WidgetsInv
  <1>3. ASSUME NEW b \in Buttons, MouseDown(b) \/ MouseUp(b) PROVE WidgetsInv'
    BY <1>3, HoldDownStep DEF WidgetsInv
  <1>4. CASE MouseMoves \/ \E n \in 1 .. MaxPresses : LongPress(n)
    BY <1>4, HoldMoveStep DEF WidgetsInv
  <1>5. CASE ShowModal \/ CloseModal \/ ModalFaded
    BY <1>5, ModalStep DEF WidgetsInv
  <1>6. CASE \/ \E title \in Titles : ClickTitle(title) \/ HoverTitle(title)
             \/ \E item \in DOMAIN Accelerators : ClickItem(item)
             \/ CloseMenu
             \/ \E item \in DOMAIN Accelerators, shift, capsLock \in BOOLEAN :
                   PressKeys(Accelerators[item].key, shift, capsLock)
    BY <1>6, MenuStep DEF WidgetsInv
  <1>7. CASE TakeEdge \/ MoveEdge \/ LeaveEdge
    BY <1>7, VideoStep DEF WidgetsInv
  <1>8. CASE DragFile \/ PickFile \/ RemoveSelection
    BY <1>8, PickerStep DEF WidgetsInv
  <1>9. CASE ToggleDebugMode \/ \E p \in Panels : MountPanel(p) \/ UnmountPanel(p)
    BY <1>9, DebugStep DEF WidgetsInv
  <1> QED BY <1>1, <1>2, <1>3, <1>4, <1>5, <1>6, <1>7, <1>8, <1>9 DEF WidgetsNext

LEMMA WidgetsInvCorrect == WidgetsSpec => []WidgetsInv
  BY WidgetsAtStart, WidgetsStep, PTL DEF WidgetsSpec

LEMMA WidgetsTyped == ASSUME WidgetsInv PROVE WidgetsTypeOK
  <1>1. CASE DelayedInv
    BY <1>1 DEF DelayedInv, DelayedWidget, WidgetsTypeOK
  <1>2. CASE HoldInv
    BY <1>2 DEF HoldInv, HoldWidget, WidgetsTypeOK, Is
  <1>3. CASE ModalInv
    BY <1>3 DEF ModalInv, ModalWidget, WidgetsTypeOK, Is
  <1>4. CASE MenuInv
    BY <1>4 DEF MenuInv, MenuWidget, WidgetsTypeOK, Is
  <1>5. CASE VideoInv
    BY <1>5 DEF VideoInv, VideoWidget, WidgetsTypeOK, Is
  <1>6. CASE widget \in PickerWidget
    BY <1>6 DEF PickerWidget, WidgetsTypeOK, Is
  <1>7. CASE DebugInv
    BY <1>7 DEF DebugInv, DebugWidget, WidgetsTypeOK, Is
  <1> QED BY <1>1, <1>2, <1>3, <1>4, <1>5, <1>6, <1>7 DEF WidgetsInv

LEMMA WidgetsAreSettled == ASSUME WidgetsInv PROVE WidgetsSettle
  <1>1. DelaysAgree
    BY KindOf DEF DelaysAgree, DelayedInv, Is
  <1>2. HoldingStops
    BY KindOf DEF HoldingStops, HoldInv, OneTimer, Timers
  <1>3. ModalIsWanted
    BY KindOf DEF ModalIsWanted, ModalInv
  <1>4. KeysAreTheItems
    BY KindOf DEF KeysAreTheItems, MenuInv
  <1>5. PreviewFits
    BY KindOf DEF PreviewFits, VideoInv
  <1>6. DebugIsKnown
    BY KindOf DEF DebugIsKnown, DebugInv
  <1> QED BY <1>1, <1>2, <1>3, <1>4, <1>5, <1>6 DEF WidgetsSettle

-----------------------------------------------------------------------------
(* Progress: what the tasks of a document look like.                        *)

\* A task that has not begun has nothing done; media are encoded for every document.
ProgressInv ==
  /\ DOMAIN tasks \subseteq Types /\ "REENCODE" \in DOMAIN tasks
  /\ tasks \in [DOMAIN tasks -> [state : States, progress : 0 .. Steps]]
  /\ \A t \in DOMAIN tasks : tasks[t].state = "NEW" => tasks[t].progress = 0
  /\ download \in -1 .. ModelSize

LEMMA ProgressAtStart == ASSUME ProgressInit PROVE ProgressInv
  <1>1. PICK types \in {{"TRANSCRIBE", "REENCODE"}, {"REENCODE"},
                        {"TRANSCRIBE", "REENCODE", "IDENTIFY_SPEAKERS"}} :
          tasks = [t \in types |-> [state |-> "NEW", progress |-> 0]]
    BY DEF ProgressInit
  <1>2. [state |-> "NEW", progress |-> 0] \in [state : States, progress : 0 .. Steps]
    BY ProgressAssumption DEF States
  <1>3. types \subseteq Types /\ "REENCODE" \in types
    BY DEF Types
  <1>4. download \in -1 .. ModelSize
    BY ProgressAssumption DEF ProgressInit
  <1> QED BY <1>1, <1>2, <1>3, <1>4 DEF ProgressInv

\* A task gets another state, and the download goes on or ends.
LEMMA BecomesStep ==
  ASSUME ProgressInv, NEW t \in DOMAIN tasks, NEW state \in States, NEW progress \in 0 .. Steps,
         state = "NEW" => progress = 0, Becomes(t, state, progress), download' \in -1 .. ModelSize
  PROVE  ProgressInv'
  <1> DEFINE new == [state |-> state, progress |-> progress]
  <1>1. new \in [state : States, progress : 0 .. Steps] /\ (new.state = "NEW" => new.progress = 0)
    OBVIOUS
  <1>2. /\ DOMAIN tasks' = DOMAIN tasks
        /\ \A u \in DOMAIN tasks : tasks'[u] = IF u = t THEN new ELSE tasks[u]
        /\ tasks' = [u \in DOMAIN tasks |-> tasks'[u]]
    BY DEF Becomes, ProgressInv
  <1> HIDE DEF new
  <1> QED BY <1>1, <1>2 DEF ProgressInv

LEMMA ProgressStep == ASSUME ProgressInv, [ProgressNext]_progressVars PROVE ProgressInv'
  <1>1. CASE UNCHANGED progressVars
    BY <1>1 DEF progressVars, ProgressInv
  <1>2. \A t \in DOMAIN tasks : tasks[t].state \in States /\ tasks[t].progress \in 0 .. Steps
    BY DEF ProgressInv
  <1>3. {"NEW", "ASSIGNED", "COMPLETED", "FAILED", "ABORTED"} \subseteq States
    BY DEF States
  <1>4. /\ -1 \in -1 .. ModelSize /\ 0 \in -1 .. ModelSize /\ 0 \in 0 .. Steps
        /\ Steps \in Nat /\ ModelSize \in Nat /\ download \in -1 .. ModelSize
    BY ProgressAssumption DEF ProgressInv
  <1>5. ASSUME NEW t \in DOMAIN tasks, Started(t) PROVE ProgressInv'
    <2>1. download' \in -1 .. ModelSize
      BY <1>4, <1>5 DEF Started
    <2> QED BY <1>3, <1>4, <1>5, <2>1, BecomesStep DEF Started
  <1>6. ASSUME NEW t \in DOMAIN tasks, Progressed(t) PROVE ProgressInv'
    <2>1. download' \in -1 .. ModelSize
      BY <1>4, <1>6 DEF Progressed
    <2>2. tasks[t].progress + 1 \in 0 .. Steps
      BY <1>2, <1>4, <1>6 DEF Progressed
    <2> QED BY <1>3, <1>6, <2>1, <2>2, BecomesStep DEF Progressed
  <1>7. ASSUME NEW t \in DOMAIN tasks, Ended(t) PROVE ProgressInv'
    <2>1. download' \in -1 .. ModelSize
      BY <1>4, <1>7 DEF Ended
    <2>2. PICK state \in {"COMPLETED", "FAILED", "NEW", "ABORTED"} :
             Becomes(t, state, IF state = "NEW" THEN 0 ELSE tasks[t].progress)
      BY <1>7 DEF Ended
    <2>3. state \in States
      BY <1>3
    <2>4. CASE state = "NEW"
      BY <1>4, <2>1, <2>2, <2>3, <2>4, BecomesStep
    <2>5. CASE state # "NEW"
      BY <1>2, <2>1, <2>2, <2>3, <2>5, BecomesStep
    <2> QED BY <2>4, <2>5
  <1>8. CASE Downloaded
    <2>1. download' \in -1 .. ModelSize /\ tasks' = tasks
      BY <1>4, <1>8 DEF Downloaded
    <2> QED BY <2>1 DEF ProgressInv
  <1>9. CASE ExportAsked
    <2> DEFINE new == [state |-> "NEW", progress |-> 0]
    <2>1. new \in [state : States, progress : 0 .. Steps] /\ new.progress = 0
      BY <1>3, <1>4
    <2> HIDE DEF new
    <2>2. /\ tasks' = [t \in DOMAIN tasks \cup {"EXPORT"} |-> IF t = "EXPORT" THEN new ELSE tasks[t]]
          /\ download' = download
      BY <1>9 DEF ExportAsked, new
    <2>3. DOMAIN tasks' \subseteq Types
      BY <2>2 DEF ProgressInv, Types
    <2> QED BY <2>1, <2>2, <2>3 DEF ProgressInv
  <1> QED BY <1>1, <1>5, <1>6, <1>7, <1>8, <1>9 DEF ProgressNext

LEMMA ProgressInvCorrect == ProgressSpec => []ProgressInv
  BY ProgressAtStart, ProgressStep, PTL DEF ProgressSpec

LEMMA ProgressTyped == ProgressInv => ProgressTypeOK
  BY DEF ProgressInv, ProgressTypeOK, Range

\* A task that counts and is not through keeps the sum below the whole.
LEMMA RestIsMissed ==
  ASSUME ProgressInv, Done, NEW t \in DOMAIN tasks, t # "EXPORT"
  PROVE  StepsDone(t) = Steps
  <1> DEFINE Share(u) == IF u \in DOMAIN tasks THEN Weight(u) * StepsDone(u) ELSE 0
             Whole(u) == IF u \in DOMAIN tasks THEN Weight(u) * Steps ELSE 0
  <1>1. Steps \in Nat /\ Steps > 0
    BY ProgressAssumption
  <1>2. /\ Weight("TRANSCRIBE") = 20 /\ Weight("EXPORT") = 0
        /\ Weight("REENCODE") = 1 /\ Weight("IDENTIFY_SPEAKERS") = 1
    BY DEF Weight
  <1>3. \A u \in DOMAIN tasks : StepsDone(u) \in 0 .. Steps
    <2> TAKE u \in DOMAIN tasks
    <2>1. tasks[u].progress \in 0 .. Steps
      BY DEF ProgressInv
    <2> QED BY <1>1, <2>1 DEF StepsDone
  <1>4. Share("TRANSCRIBE") + Share("REENCODE") + Share("IDENTIFY_SPEAKERS") + Share("EXPORT")
          = Whole("TRANSCRIBE") + Whole("REENCODE") + Whole("IDENTIFY_SPEAKERS") + Whole("EXPORT")
    BY DEF Done, Numerator, Denominator, Weighted
  <1>5. ASSUME NEW u \in Types
        PROVE  /\ Share(u) \in Nat /\ Whole(u) \in Nat /\ Share(u) <= Whole(u)
               /\ u \in DOMAIN tasks /\ u # "EXPORT" /\ StepsDone(u) # Steps => Share(u) < Whole(u)
    <2>1. CASE u = "EXPORT"
      BY <1>1, <1>2, <1>3, <2>1
    <2>2. CASE u = "TRANSCRIBE"
      BY <1>1, <1>2, <1>3, <2>2
    <2>3. CASE u = "REENCODE" \/ u = "IDENTIFY_SPEAKERS"
      BY <1>1, <1>2, <1>3, <2>3
    <2> QED BY <2>1, <2>2, <2>3 DEF Types
  <1>6. t \in Types
    BY DEF ProgressInv
  <1>7. {"TRANSCRIBE", "REENCODE", "IDENTIFY_SPEAKERS", "EXPORT"} = Types
    BY DEF Types
  <1> HIDE DEF Share, Whole
  <1> SUFFICES ASSUME StepsDone(t) # Steps PROVE FALSE
    OBVIOUS
  <1>8. /\ Share(t) < Whole(t) /\ t \in {"TRANSCRIBE", "REENCODE", "IDENTIFY_SPEAKERS"}
    BY <1>5, <1>6 DEF Types
  <1> QED BY <1>4, <1>5, <1>7, <1>8

LEMMA ProgressIsTrue == ASSUME ProgressInv PROVE ProgressIsHonest
  <1>1. \A t \in DOMAIN tasks : t \in Types /\ tasks[t].state \in States
    BY DEF ProgressInv
  <1>2. BannerFitsIndicator
    BY <1>1 DEF BannerFitsIndicator, Banner, Indicator, SomeTask, InQueue, States
  <1>3. DoneMeansDone
    <2> SUFFICES ASSUME Indicator(WaitingForDownload) = "done",
                        NEW t \in DOMAIN tasks, t # "EXPORT"
                 PROVE  \/ tasks[t].state = "COMPLETED"
                        \/ tasks[t].state = "ASSIGNED" /\ tasks[t].progress = Steps
      BY DEF DoneMeansDone
    <2>1. Done /\ tasks[t].state \notin {"ABORTED", "FAILED"}
      BY DEF Indicator, SomeTask
    <2>2. StepsDone(t) = Steps
      BY <2>1, RestIsMissed
    <2>3. Steps # 0
      BY ProgressAssumption
    <2>4. tasks[t].state = "NEW" => tasks[t].progress = 0
      BY DEF ProgressInv
    <2> QED BY <1>1, <2>1, <2>2, <2>3, <2>4 DEF StepsDone, States
  <1> QED BY <1>2, <1>3 DEF ProgressIsHonest

-----------------------------------------------------------------------------
(* Exports: types.                                                          *)

PodloveSettings == [episode : Episodes, asked : SUBSET Episodes, possible : BOOLEAN,
                    changes : 0 .. MaxSettings]

LEMMA ExportAtStart == ASSUME ExportInit PROVE ExportTypeOK
  <1>1. 0 \in 0 .. MaxSettings
    BY ExportAssumption
  <1> QED BY <1>1 DEF ExportInit, ExportTypeOK, NoFile

LEMMA SubtitlesTyped ==
  ASSUME NEW limit, Subtitles(limit)
  PROVE  exported'.kind \in {"subtitles", "error"} /\ open' \in BOOLEAN
  BY DEF Subtitles, Throws

LEMMA ExportStep == ASSUME ExportTypeOK, [ExportNext]_exportVars PROVE ExportTypeOK'
  <1>1. CASE UNCHANGED exportVars
    BY <1>1 DEF exportVars, ExportTypeOK
  <1>2. podlove \in PodloveSettings /\ podlove.episode \in Episodes
    BY DEF ExportTypeOK, PodloveSettings
  <1>3. CASE ExportSubtitles
    BY <1>3, SubtitlesTyped DEF ExportSubtitles, ExportTypeOK
  <1>4. CASE ExportPlaintext
    <2>1. PICK names \in BOOLEAN, times \in BOOLEAN :
             /\ open' = PlaintextThrows(transcript, names, times)
             /\ exported' = [kind |-> IF open' THEN "error" ELSE "txt", names |-> names,
                             lines |-> GeneratePlaintext(transcript, names, times)]
      BY <1>4 DEF ExportPlaintext
    <2>2. open' \in BOOLEAN
      BY <2>1 DEF PlaintextThrows
    <2>3. exported'.kind \in {"error", "txt"}
      BY <2>1
    <2> QED BY <1>4, <2>2, <2>3 DEF ExportPlaintext, ExportTypeOK
  <1>5. CASE EnterSettings
    <2>1. PICK episode \in Episodes :
             podlove' = [podlove EXCEPT !.episode = episode, !.asked = @ \cup {episode}, !.changes = @ + 1]
      BY <1>5 DEF EnterSettings
    <2>2. podlove.changes + 1 \in 0 .. MaxSettings
      BY <1>2, <1>5, ExportAssumption DEF EnterSettings, PodloveSettings
    <2>3. podlove' \in PodloveSettings
      BY <1>2, <2>1, <2>2 DEF PodloveSettings
    <2> QED BY <1>5, <2>3 DEF EnterSettings, ExportTypeOK, PodloveSettings
  <1>6. CASE SettingsChecked
    <2>1. PICK question \in podlove.asked, reached \in BOOLEAN :
             podlove' = [podlove EXCEPT !.asked = @ \ {question},
                                        !.possible = reached /\ question \in Existing]
      BY <1>6 DEF SettingsChecked
    <2>2. podlove' \in PodloveSettings
      BY <1>2, <2>1 DEF PodloveSettings
    <2> QED BY <1>6, <2>2 DEF SettingsChecked, ExportTypeOK, PodloveSettings
  <1>7. CASE ExportPodlove
    <2>1. exported'.kind \in {"subtitles", "error"} /\ open' \in BOOLEAN
      BY <1>7, SubtitlesTyped DEF ExportPodlove
    <2> QED BY <1>2, <1>7, <2>1 DEF ExportPodlove, ExportTypeOK
  <1>8. CASE PushToPodlove
    BY <1>8 DEF PushToPodlove, ExportTypeOK
  <1>9. CASE CloseExport
    BY <1>9 DEF CloseExport, ExportTypeOK
  <1> QED BY <1>1, <1>3, <1>4, <1>5, <1>6, <1>7, <1>8, <1>9 DEF ExportNext

LEMMA ExportTypeCorrect == ExportSpec => []ExportTypeOK
  BY ExportAtStart, ExportStep, PTL DEF ExportSpec

-----------------------------------------------------------------------------
(* Exports: how long the atoms of a cue are.                                *)

\* How long the atoms of a cue are, taken one by one.
LEMMA LengthIsSum ==
  ASSUME NEW spoken \in Seq(Atoms), NEW atoms \in Seq(DOMAIN spoken)
  PROVE  \E total : /\ total = [k \in 0 .. Len(atoms) |->
                                  IF k = 0 THEN 0 ELSE total[k - 1] + spoken[atoms[k]].length]
                    /\ TotalLength(spoken, atoms) = total[Len(atoms)]
                    /\ \A k \in 0 .. Len(atoms) : total[k] \in Nat
  <1> DEFINE n == Len(atoms)
             Body(f) == [k \in 0 .. n |-> IF k = 0 THEN 0 ELSE f[k - 1] + spoken[atoms[k]].length]
             step == [p \in Nat \X (1 .. n) |-> p[1] + spoken[atoms[p[2]]].length]
             total == CHOOSE f : f = Body(f)
  <1>0. n \in Nat /\ \A k \in 1 .. n : spoken[atoms[k]].length \in Nat
    <2>1. ASSUME NEW k \in 1 .. n PROVE spoken[atoms[k]].length \in Nat
      <3>1. atoms[k] \in DOMAIN spoken
        BY ElementOfSeq
      <3>2. spoken[atoms[k]] \in Atoms
        BY <3>1, ElementOfSeq
      <3> QED BY <3>2 DEF Atoms
    <2> QED BY <2>1
  <1>1. step \in [Nat \X (1 .. n) -> Nat]
    BY <1>0
  <1>2. PICK f : Follows(f, Nat, 0, n, step)
    <2> HIDE DEF step, n
    <2> QED BY <1>0, <1>1, Recursion
  <1>4. f = Body(f)
    <2>1. ASSUME NEW k \in 0 .. n, k # 0
          PROVE  f[k] = f[k - 1] + spoken[atoms[k]].length
      <3>1. k \in 1 .. n /\ k - 1 \in 0 .. n
        BY <1>0, <2>1
      <3>2. f[k - 1] \in Nat /\ f[k] = step[<<f[k - 1], k>>]
        <4> HIDE DEF step, n
        <4> QED BY <1>2, <3>1 DEF Follows
      <3>3. <<f[k - 1], k>> \in Nat \X (1 .. n)
        BY <3>1, <3>2
      <3>4. step[<<f[k - 1], k>>] = f[k - 1] + spoken[atoms[k]].length
        BY <3>3
      <3> HIDE DEF step
      <3> QED BY <3>2, <3>4
    <2>2. f[0] = 0 /\ f = [k \in 0 .. n |-> f[k]]
      <3> HIDE DEF step, n
      <3> QED BY <1>2 DEF Follows
    <2> HIDE DEF step, n
    <2> QED BY <2>1, <2>2
  <1>5. total = Body(total)
    <2> HIDE DEF Body
    <2> QED BY <1>4
  <1> HIDE DEF n
  <1>6. TotalLength(spoken, atoms) = total[n]
    BY DEF TotalLength, n
  <1>7. \A k \in 0 .. n : total[k] \in Nat
    <2> HIDE DEF total
    <2> DEFINE S == {k \in 0 .. n : total[k] \in Nat}
    <2>1. 0 \in S
      BY <1>0, <1>5
    <2>2. ASSUME NEW k \in 0 .. n - 1, k \in S PROVE k + 1 \in S
      <3>1. k + 1 \in 1 .. n /\ (k + 1) - 1 = k /\ total[k] \in Nat /\ k + 1 \in 0 .. n /\ k + 1 # 0
        BY <1>0, <2>2
      <3>2. total[k + 1] = total[k] + spoken[atoms[k + 1]].length
        BY <1>5, <3>1
      <3> QED BY <1>0, <3>1, <3>2
    <2>3. \A k \in 0 .. n : k \in S
      <3> HIDE DEF S
      <3> QED BY <1>0, <2>1, <2>2, Induction
    <2> QED BY <2>3
  <1> HIDE DEF total
  <1> QED BY <1>5, <1>6, <1>7 DEF n

\* The atoms after from, up to to.
Piece(from, to) == [k \in 1 .. to - from |-> from + k]

LEMMA PieceType ==
  ASSUME NEW n \in Nat, NEW from \in 0 .. n, NEW to \in from .. n
  PROVE  Piece(from, to) \in Seq(1 .. n) /\ Len(Piece(from, to)) = to - from
  <1>1. \A k \in 1 .. to - from : from + k \in 1 .. n
    OBVIOUS
  <1> QED BY <1>1 DEF Piece

LEMMA LengthOfNone ==
  ASSUME NEW spoken \in Seq(Atoms), NEW from \in 0 .. Len(spoken)
  PROVE  TotalLength(spoken, Piece(from, from)) = 0
  <1>1. /\ Piece(from, from) \in Seq(DOMAIN spoken) /\ Len(Piece(from, from)) = 0
    BY PieceType
  <1>2. PICK total :
          /\ total = [k \in 0 .. 0 |->
                        IF k = 0 THEN 0 ELSE total[k - 1] + spoken[Piece(from, from)[k]].length]
          /\ TotalLength(spoken, Piece(from, from)) = total[0]
    BY <1>1, LengthIsSum
  <1> QED BY <1>2

\* One atom more makes a piece longer by its length.
LEMMA LengthOfMore ==
  ASSUME NEW spoken \in Seq(Atoms), NEW from \in Nat, NEW to \in from .. Len(spoken) - 1
  PROVE  /\ TotalLength(spoken, Piece(from, to)) \in Nat
         /\ TotalLength(spoken, Piece(from, to + 1))
              = TotalLength(spoken, Piece(from, to)) + spoken[to + 1].length
  <1> DEFINE a == Piece(from, to)
             b == Piece(from, to + 1)
             n == to - from
  <1>0. n \in Nat /\ (to + 1) - from = n + 1
    OBVIOUS
  <1>1. /\ a \in Seq(DOMAIN spoken) /\ Len(a) = n
        /\ b \in Seq(DOMAIN spoken) /\ Len(b) = n + 1
    <2>1. from \in 0 .. Len(spoken) /\ to \in from .. Len(spoken) /\ to + 1 \in from .. Len(spoken)
      OBVIOUS
    <2> QED BY <2>1, PieceType
  <1>2. \A k \in 1 .. n : a[k] = from + k /\ b[k] = from + k
    BY DEF Piece
  <1>3. b[n + 1] = to + 1
    BY DEF Piece
  <1> HIDE DEF a, b, n
  <1>4. PICK f : /\ f = [k \in 0 .. n |-> IF k = 0 THEN 0 ELSE f[k - 1] + spoken[a[k]].length]
                 /\ TotalLength(spoken, a) = f[n] /\ \A k \in 0 .. n : f[k] \in Nat
    BY <1>1, LengthIsSum
  <1>5. PICK g : /\ g = [k \in 0 .. n + 1 |-> IF k = 0 THEN 0 ELSE g[k - 1] + spoken[b[k]].length]
                 /\ TotalLength(spoken, b) = g[n + 1]
    BY <1>1, LengthIsSum
  <1>6. \A k \in 0 .. n : f[k] = g[k]
    <2> DEFINE S == {k \in 0 .. n : f[k] = g[k]}
    <2>1. 0 \in S
      <3>1. f[0] = 0
        BY <1>0, <1>4
      <3>2. g[0] = 0
        BY <1>0, <1>5
      <3> QED BY <1>0, <3>1, <3>2
    <2>2. ASSUME NEW k \in 0 .. n - 1, k \in S PROVE k + 1 \in S
      <3>1. /\ k + 1 \in 1 .. n /\ (k + 1) - 1 = k /\ k + 1 \in 0 .. n
            /\ k + 1 \in 0 .. n + 1 /\ k + 1 # 0
        BY <1>0, <2>2
      <3>2. f[k + 1] = f[k] + spoken[a[k + 1]].length
        BY <1>4, <3>1
      <3>3. g[k + 1] = g[k] + spoken[b[k + 1]].length
        BY <1>5, <3>1
      <3> QED BY <1>2, <2>2, <3>1, <3>2, <3>3
    <2>3. \A k \in 0 .. n : k \in S
      <3> HIDE DEF S
      <3> QED BY <1>0, <2>1, <2>2, Induction
    <2> QED BY <2>3
  <1>7. g[n + 1] = g[n] + spoken[to + 1].length
    <2>1. n + 1 \in 0 .. n + 1 /\ n + 1 # 0 /\ (n + 1) - 1 = n
      BY <1>0
    <2> QED BY <1>3, <1>5, <2>1
  <1>8. n \in 0 .. n
    BY <1>0
  <1> QED BY <1>4, <1>5, <1>6, <1>7, <1>8 DEF a, b

-----------------------------------------------------------------------------
(* Exports: cues.                                                           *)

Cues == [start : Nat \cup {NoTime}, end : Nat \cup {NoTime}, atoms : Seq(Nat), length : Nat]
Making == [cues : Seq(Cues), cue : Cues]

LEMMA AtomType ==
  ASSUME NEW spoken \in Seq(Atoms), NEW k \in 1 .. Len(spoken)
  PROVE  /\ spoken[k] \in Atoms
         /\ spoken[k].start \in Nat \cup {NoTime} /\ spoken[k].end \in Nat \cup {NoTime}
         /\ spoken[k].length \in Nat
  <1>1. spoken[k] \in Atoms
    BY ElementOfSeq
  <1> QED BY <1>1 DEF Atoms

LEMMA ExtendType ==
  ASSUME NEW cue \in Cues, NEW k \in Nat, NEW atom \in Atoms
  PROVE  /\ Extend(cue, k, atom) \in Cues
         /\ Extend(cue, k, atom).start = Earlier(cue.start, atom)
         /\ Extend(cue, k, atom).end = Later(cue.end, atom)
         /\ Extend(cue, k, atom).atoms = Append(cue.atoms, k)
         /\ Extend(cue, k, atom).length = cue.length + atom.length
  <1>1. Earlier(cue.start, atom) \in Nat \cup {NoTime} /\ Later(cue.end, atom) \in Nat \cup {NoTime}
    BY DEF Earlier, Later, Cues, Atoms
  <1>2. cue.length + atom.length \in Nat
    BY DEF Cues, Atoms
  <1>3. Append(cue.atoms, k) \in Seq(Nat)
    <2>1. cue.atoms \in Seq(Nat)
      BY DEF Cues
    <2> QED BY <2>1, AppendProperties
  <1> QED BY <1>1, <1>2, <1>3 DEF Extend, Cues

LEMMA CreatedType ==
  ASSUME NEW cue \in Cues
  PROVE  /\ CreateVttCue(cue) \in Cues
         /\ CreateVttCue(cue).start = cue.start
         /\ CreateVttCue(cue).end = IF cue.start >= cue.end THEN cue.start + 1 ELSE cue.end
         /\ CreateVttCue(cue).atoms = cue.atoms
  <1>1. cue.start + 1 \in Nat
    BY DEF Cues, NoTime
  <1> QED BY <1>1 DEF CreateVttCue, Cues

LEMMA EmptyCueType ==
  /\ EmptyCue \in Cues /\ EmptyCue.start = NoTime /\ EmptyCue.end = NoTime
  /\ EmptyCue.atoms = <<>> /\ EmptyCue.length = 0
  BY DEF EmptyCue, Cues

LEMMA AddAtomType ==
  ASSUME NEW made \in Making, NEW k \in Nat, NEW atom \in Atoms, NEW limit
  PROVE  AddAtom(made, k, atom, limit) \in Making
  <1>1. made.cue \in Cues /\ made.cues \in Seq(Cues)
    BY DEF Making
  <1>2. Extend(made.cue, k, atom) \in Cues /\ Extend(EmptyCue, k, atom) \in Cues
    BY <1>1, ExtendType, EmptyCueType
  <1>3. Append(made.cues, CreateVttCue(made.cue)) \in Seq(Cues)
    BY <1>1, CreatedType, AppendProperties
  <1> QED BY <1>1, <1>2, <1>3 DEF AddAtom, Making

\* paragraphToCues goes from atom to atom.
LEMMA MadeUpTo ==
  ASSUME NEW spoken \in Seq(Atoms), NEW limit \in Nat
  PROVE  \E made :
           /\ made[0] = [cues |-> <<>>, cue |-> EmptyCue]
           /\ \A k \in 1 .. Len(spoken) : made[k] = AddAtom(made[k - 1], k, spoken[k], limit)
           /\ LET all == made[Len(spoken)]
              IN  ParagraphToCues(spoken, limit)
                    = [timed |-> IsTimed(all.cue), cues |-> Append(all.cues, CreateVttCue(all.cue))]
  <1> DEFINE n == Len(spoken)
             base == [cues |-> <<>>, cue |-> EmptyCue]
             Body(f) == [k \in 0 .. n |-> IF k = 0 THEN base ELSE AddAtom(f[k - 1], k, spoken[k], limit)]
             step == [p \in Making \X (1 .. n) |-> AddAtom(p[1], p[2], spoken[p[2]], limit)]
             made == CHOOSE f : f = Body(f)
  <1>0. n \in Nat
    OBVIOUS
  <1>1. base \in Making
    BY EmptyCueType DEF Making
  <1>2. step \in [Making \X (1 .. n) -> Making]
    <2>1. ASSUME NEW p \in Making \X (1 .. n)
          PROVE  AddAtom(p[1], p[2], spoken[p[2]], limit) \in Making
      <3>1. p[1] \in Making /\ p[2] \in 1 .. Len(spoken) /\ p[2] \in Nat
        OBVIOUS
      <3> QED BY <3>1, AtomType, AddAtomType
    <2> QED BY <2>1
  <1>3. PICK f : Follows(f, Making, base, n, step)
    <2> HIDE DEF step, n, base
    <2> QED BY <1>0, <1>1, <1>2, Recursion
  <1>4. f = Body(f)
    <2>1. ASSUME NEW k \in 0 .. n, k # 0
          PROVE  f[k] = AddAtom(f[k - 1], k, spoken[k], limit)
      <3>1. k \in 1 .. n /\ k - 1 \in 0 .. n
        BY <1>0, <2>1
      <3>2. f[k - 1] \in Making /\ f[k] = step[<<f[k - 1], k>>]
        <4> HIDE DEF step, n, base
        <4> QED BY <1>3, <3>1 DEF Follows
      <3>3. <<f[k - 1], k>> \in Making \X (1 .. n)
        BY <3>1, <3>2
      <3>4. step[<<f[k - 1], k>>] = AddAtom(f[k - 1], k, spoken[k], limit)
        BY <3>3
      <3> QED BY <3>2, <3>4
    <2>2. f[0] = base /\ f = [k \in 0 .. n |-> f[k]]
      <3> HIDE DEF step, n, base
      <3> QED BY <1>3 DEF Follows
    <2> HIDE DEF step, n, base
    <2> QED BY <2>1, <2>2
  <1>5. made = Body(made)
    <2> HIDE DEF Body
    <2> QED BY <1>4
  <1>6. ParagraphToCues(spoken, limit)
          = [timed |-> IsTimed(made[n].cue), cues |-> Append(made[n].cues, CreateVttCue(made[n].cue))]
    BY DEF ParagraphToCues
  <1> HIDE DEF made, base
  <1>7. made[0] = base /\ \A k \in 1 .. n : made[k] = AddAtom(made[k - 1], k, spoken[k], limit)
    <2> HIDE DEF n
    <2>1. 0 \in 0 .. n /\ \A k \in 1 .. n : k \in 0 .. n /\ k # 0
      BY <1>0
    <2> QED BY <1>5, <2>1
  <1> QED BY <1>6, <1>7 DEF base

\* A cue under way has the atoms after from, up to to, and spans their times; no
\* atom came to it beyond the limit once it could have been split.
Spans(spoken, cue, from, to) ==
  \A j \in from + 1 .. to :
    /\ spoken[j].start > 0 => cue.start # NoTime /\ cue.start <= spoken[j].start
    /\ spoken[j].end > 0 => cue.end # NoTime /\ spoken[j].end <= cue.end

TimedAmong(spoken, from, to) ==
  /\ \E j \in from + 1 .. to : spoken[j].start > 0
  /\ \E j \in from + 1 .. to : spoken[j].end > 0

FitsLimit(spoken, from, to, limit) ==
  limit # 0 =>
    \A k \in from + 1 .. to :
      TimedAmong(spoken, from, k - 1) => TotalLength(spoken, Piece(from, k)) <= limit

OpenCue(spoken, cue, from, to, limit) ==
  /\ cue \in Cues
  /\ cue.atoms = Piece(from, to)
  /\ cue.length = TotalLength(spoken, Piece(from, to))
  /\ Spans(spoken, cue, from, to)
  /\ FitsLimit(spoken, from, to, limit)

LEMMA PieceGrows ==
  ASSUME NEW from \in Nat, NEW to \in Nat, from <= to
  PROVE  Piece(from, to + 1) = Append(Piece(from, to), to + 1)
  <1> DEFINE n == to - from
             a == Piece(from, to)
             b == Piece(from, to + 1)
  <1>1. n \in Nat /\ (to + 1) - from = n + 1
    OBVIOUS
  <1>2. a \in Seq(Nat) /\ Len(a) = n /\ b \in Seq(Nat) /\ Len(b) = n + 1
    <2>1. to \in from .. to + 1 /\ to + 1 \in from .. to + 1 /\ from \in 0 .. to + 1
      OBVIOUS
    <2>2. a \in Seq(1 .. to + 1) /\ b \in Seq(1 .. to + 1) /\ Len(a) = n /\ Len(b) = n + 1
      BY <1>1, <2>1, PieceType
    <2> QED BY <2>2
  <1>3. /\ \A k \in 1 .. n : a[k] = from + k
        /\ \A k \in 1 .. n + 1 : b[k] = from + k
    BY <1>1 DEF Piece
  <1>4. from + (n + 1) = to + 1
    OBVIOUS
  <1> HIDE DEF a, b, n
  <1>5. /\ Append(a, to + 1) \in Seq(Nat) /\ Len(Append(a, to + 1)) = n + 1
        /\ \A k \in 1 .. n : Append(a, to + 1)[k] = a[k]
        /\ Append(a, to + 1)[n + 1] = to + 1
    BY <1>2, AppendProperties
  <1>6. \A k \in 1 .. n + 1 : b[k] = Append(a, to + 1)[k]
    <2>1. \A k \in 1 .. n + 1 : k \in 1 .. n \/ k = n + 1
      BY <1>1
    <2> QED BY <1>3, <1>4, <1>5, <2>1
  <1>7. b = Append(a, to + 1)
    BY <1>2, <1>5, <1>6, SeqEqual
  <1> QED BY <1>7 DEF a, b

LEMMA PieceOfNone == ASSUME NEW from \in Nat PROVE Piece(from, from) = <<>>
  <1>1. from \in 0 .. from /\ from \in from .. from
    OBVIOUS
  <1>2. Piece(from, from) \in Seq(1 .. from) /\ Len(Piece(from, from)) = 0
    BY <1>1, PieceType
  <1> QED BY <1>2, EmptySeq

LEMMA OpenedCue ==
  ASSUME NEW spoken \in Seq(Atoms), NEW from \in 0 .. Len(spoken), NEW limit \in Nat
  PROVE  OpenCue(spoken, EmptyCue, from, from, limit)
  <1>1. from + 1 .. from = {}
    OBVIOUS
  <1> QED BY <1>1, EmptyCueType, PieceOfNone, LengthOfNone DEF OpenCue, Spans, FitsLimit

\* A cue that is not split at an atom takes it in.
LEMMA ExtendedCue ==
  ASSUME NEW spoken \in Seq(Atoms), NEW limit \in Nat, NEW from \in Nat,
         NEW to \in from .. Len(spoken) - 1, NEW cue, OpenCue(spoken, cue, from, to, limit),
         ~(limit # 0 /\ IsTimed(cue) /\ cue.length + spoken[to + 1].length > limit)
  PROVE  OpenCue(spoken, Extend(cue, to + 1, spoken[to + 1]), from, to + 1, limit)
  <1> DEFINE atom == spoken[to + 1]
             next == Extend(cue, to + 1, atom)
  <1>0. to \in Nat /\ to + 1 \in 1 .. Len(spoken) /\ from <= to
    OBVIOUS
  <1>1. /\ atom \in Atoms /\ atom.start \in Nat \cup {NoTime} /\ atom.end \in Nat \cup {NoTime}
        /\ atom.length \in Nat
    BY <1>0, AtomType
  <1>2. cue \in Cues /\ cue.start \in Nat \cup {NoTime} /\ cue.end \in Nat \cup {NoTime}
    BY DEF OpenCue, Cues
  <1> HIDE DEF atom
  <1>3. /\ next \in Cues
        /\ next.start = Earlier(cue.start, atom) /\ next.end = Later(cue.end, atom)
        /\ next.atoms = Append(cue.atoms, to + 1) /\ next.length = cue.length + atom.length
    <2> DEFINE k == to + 1
    <2>1. k \in Nat
      BY <1>0
    <2> HIDE DEF k
    <2>2. /\ Extend(cue, k, atom) \in Cues
          /\ Extend(cue, k, atom).start = Earlier(cue.start, atom)
          /\ Extend(cue, k, atom).end = Later(cue.end, atom)
          /\ Extend(cue, k, atom).atoms = Append(cue.atoms, k)
          /\ Extend(cue, k, atom).length = cue.length + atom.length
      BY <1>1, <1>2, <2>1, ExtendType
    <2> QED BY <2>2 DEF k
  <1> HIDE DEF next
  <1>4. next.atoms = Piece(from, to + 1)
    BY <1>0, <1>3, PieceGrows DEF OpenCue
  <1>5. /\ TotalLength(spoken, Piece(from, to)) \in Nat
        /\ next.length = TotalLength(spoken, Piece(from, to + 1))
    BY <1>3, LengthOfMore DEF OpenCue, atom
  <1>6. Spans(spoken, next, from, to + 1)
    <2>1. /\ cue.start # NoTime => next.start # NoTime /\ next.start <= cue.start
          /\ next.start \in Nat \cup {NoTime}
      BY <1>1, <1>2, <1>3 DEF Earlier, NoTime
    <2>2. /\ cue.end # NoTime => next.end # NoTime /\ cue.end <= next.end
          /\ next.end \in Nat \cup {NoTime}
      BY <1>1, <1>2, <1>3 DEF Later, NoTime
    <2>3. ASSUME NEW j \in from + 1 .. to + 1
          PROVE  /\ spoken[j].start > 0 => next.start # NoTime /\ next.start <= spoken[j].start
                 /\ spoken[j].end > 0 => next.end # NoTime /\ spoken[j].end <= next.end
      <3>1. CASE j = to + 1
        BY <1>1, <1>2, <1>3, <3>1 DEF Earlier, Later, NoTime, atom
      <3>2. CASE j # to + 1
        <4>1. j \in from + 1 .. to /\ j \in 1 .. Len(spoken)
          BY <1>0, <3>2
        <4>2. /\ spoken[j].start > 0 => cue.start # NoTime /\ cue.start <= spoken[j].start
              /\ spoken[j].end > 0 => cue.end # NoTime /\ spoken[j].end <= cue.end
          BY <4>1 DEF OpenCue, Spans
        <4>3. spoken[j].start \in Nat \cup {NoTime} /\ spoken[j].end \in Nat \cup {NoTime}
          BY <4>1, AtomType
        <4>4. spoken[j].start > 0 => next.start # NoTime /\ next.start <= spoken[j].start
          BY <1>2, <2>1, <4>2, <4>3 DEF NoTime
        <4>5. spoken[j].end > 0 => next.end # NoTime /\ spoken[j].end <= next.end
          BY <1>2, <2>2, <4>2, <4>3 DEF NoTime
        <4> QED BY <4>4, <4>5
      <3> QED BY <3>1, <3>2
    <2> QED BY <2>3 DEF Spans
  <1>7. FitsLimit(spoken, from, to + 1, limit)
    <2> SUFFICES ASSUME limit # 0, NEW k \in from + 1 .. to + 1, TimedAmong(spoken, from, k - 1)
                 PROVE  TotalLength(spoken, Piece(from, k)) <= limit
      BY DEF FitsLimit
    <2>1. CASE k = to + 1
      <3>1. TimedAmong(spoken, from, to)
        BY <1>0, <2>1
      <3>2. IsTimed(cue)
        BY <3>1 DEF TimedAmong, IsTimed, OpenCue, Spans
      <3>3. ~(next.length > limit)
        BY <1>3, <3>2 DEF atom
      <3> QED BY <1>3, <1>5, <2>1, <3>3 DEF Cues
    <2>2. CASE k # to + 1
      <3>1. k \in from + 1 .. to
        BY <1>0, <2>2
      <3> QED BY <3>1 DEF OpenCue, FitsLimit
    <2> QED BY <2>1, <2>2
  <1> QED BY <1>3, <1>4, <1>5, <1>6, <1>7 DEF OpenCue, next, atom

LEMMA PieceParts ==
  ASSUME NEW from \in Nat, NEW to \in Nat, from <= to
  PROVE  /\ Piece(from, to) \in Seq(Nat) /\ Len(Piece(from, to)) = to - from
         /\ DOMAIN Piece(from, to) = 1 .. to - from
         /\ \A k \in 1 .. to - from : Piece(from, to)[k] = from + k
         /\ \A k \in 1 .. to - from : SubSeq(Piece(from, to), 1, k) = Piece(from, from + k)
  <1> DEFINE n == to - from
             a == Piece(from, to)
  <1>0. n \in Nat
    OBVIOUS
  <1>1. a \in Seq(Nat) /\ Len(a) = n
    <2>1. from \in 0 .. to /\ to \in from .. to
      OBVIOUS
    <2>2. a \in Seq(1 .. to) /\ Len(a) = n
      BY <2>1, PieceType
    <2> QED BY <2>2
  <1>2. \A k \in 1 .. n : a[k] = from + k
    BY DEF Piece
  <1>3. ASSUME NEW k \in 1 .. n PROVE SubSeq(a, 1, k) = Piece(from, from + k)
    <2> DEFINE b == Piece(from, from + k)
    <2>1. (from + k) - from = k /\ k \in Nat /\ k <= n
      BY <1>0
    <2>2. b \in Seq(Nat) /\ Len(b) = k
      <3> DEFINE j == from + k
      <3>1. j \in Nat /\ from \in 0 .. j /\ j \in from .. j /\ j - from = k /\ b = Piece(from, j)
        BY <2>1
      <3> HIDE DEF j, b
      <3>2. b \in Seq(1 .. j) /\ Len(b) = k
        BY <3>1, PieceType
      <3> QED BY <3>1, <3>2
    <2>3. \A j \in 1 .. k : b[j] = from + j
      BY <2>1 DEF Piece
    <2> HIDE DEF a, b, n
    <2>4. SubSeq(a, 1, k) \in Seq(Nat) /\ Len(SubSeq(a, 1, k)) = k
          /\ \A j \in 1 .. k : SubSeq(a, 1, k)[j] = a[j]
      <3>1. 1 \in 1 .. Len(a) + 1 /\ k \in 1 - 1 .. Len(a)
        BY <1>0, <1>1, <2>1
      <3>2. k - 1 + 1 = k /\ \A j \in 1 .. k : 1 + j - 1 = j
        BY <2>1
      <3> QED BY <1>1, <2>1, <3>1, <3>2, SubSeqProperties
    <2>5. \A j \in 1 .. k : SubSeq(a, 1, k)[j] = b[j]
      <3>1. \A j \in 1 .. k : j \in 1 .. n
        BY <1>0, <2>1
      <3> QED BY <1>2, <2>3, <2>4, <3>1
    <2>6. SubSeq(a, 1, k) = b
      BY <2>2, <2>4, <2>5, SeqEqual
    <2> QED BY <2>6 DEF a, b
  <1>4. DOMAIN a = 1 .. n
    BY <1>1
  <1> QED BY <1>1, <1>2, <1>3, <1>4

\* A cue that has times can be written down.
LEMMA ClosedCue ==
  ASSUME NEW spoken \in Seq(Atoms), NEW limit \in Nat, NEW from \in Nat,
         NEW to \in from .. Len(spoken), NEW cue, OpenCue(spoken, cue, from, to, limit), IsTimed(cue)
  PROVE  CueIsSound(spoken, CreateVttCue(cue), limit)
  <1> DEFINE made == CreateVttCue(cue)
             n == to - from
  <1>0. n \in Nat /\ to \in Nat /\ from <= to
    OBVIOUS
  <1>1. cue \in Cues /\ cue.start \in Nat /\ cue.end \in Nat
    BY DEF OpenCue, Cues, IsTimed
  <1>2. /\ made.start = cue.start /\ made.end = IF cue.start >= cue.end THEN cue.start + 1 ELSE cue.end
        /\ made.atoms = Piece(from, to)
    BY <1>1, CreatedType DEF OpenCue
  <1> HIDE DEF made
  <1>3. /\ DOMAIN made.atoms = 1 .. n
        /\ \A k \in 1 .. n : made.atoms[k] = from + k
        /\ \A k \in 1 .. n : SubSeq(made.atoms, 1, k) = Piece(from, from + k)
    <2>1. /\ DOMAIN Piece(from, to) = 1 .. n
          /\ \A k \in 1 .. n : Piece(from, to)[k] = from + k
          /\ \A k \in 1 .. n : SubSeq(Piece(from, to), 1, k) = Piece(from, from + k)
      BY <1>0, PieceParts
    <2> HIDE DEF n
    <2> QED BY <1>2, <2>1
  <1>4. made.start < made.end /\ cue.end <= made.end
    BY <1>1, <1>2
  <1>5. ASSUME NEW k \in 1 .. n
        PROVE  /\ spoken[from + k].start > 0 => made.start <= spoken[from + k].start
               /\ spoken[from + k].end > 0 => spoken[from + k].end <= made.end
    <2> DEFINE j == from + k
    <2>1. j \in from + 1 .. to /\ j \in 1 .. Len(spoken)
      BY <1>0
    <2> HIDE DEF j
    <2>2. /\ spoken[j].start > 0 => cue.start <= spoken[j].start
          /\ spoken[j].end > 0 => spoken[j].end <= cue.end
      BY <2>1 DEF OpenCue, Spans
    <2>3. spoken[j].end \in Nat \cup {NoTime} /\ made.end \in Nat
      BY <1>1, <1>2, <2>1, AtomType
    <2>4. spoken[j].end > 0 => spoken[j].end <= made.end
      BY <1>1, <1>4, <2>2, <2>3 DEF NoTime
    <2> QED BY <1>2, <2>2, <2>4 DEF j
  <1>6. ASSUME NEW k \in 1 .. n, limit # 0, TimedBefore(spoken, Piece(from, from + k))
        PROVE  TotalLength(spoken, Piece(from, from + k)) <= limit
    <2> DEFINE j == from + k
    <2>0. j \in from + 1 .. to /\ j \in Nat /\ from <= j /\ j - from = k
      BY <1>0
    <2> HIDE DEF j
    <2>1. /\ DOMAIN Piece(from, j) = 1 .. k /\ Len(Piece(from, j)) = k
          /\ \A i \in 1 .. k : Piece(from, j)[i] = from + i
      <3>1. /\ DOMAIN Piece(from, j) = 1 .. j - from /\ Len(Piece(from, j)) = j - from
            /\ \A i \in 1 .. j - from : Piece(from, j)[i] = from + i
        BY <2>0, PieceParts
      <3> QED BY <2>0, <3>1
    <2>2. TimedAmong(spoken, from, j - 1)
      <3>1. TimedBefore(spoken, Piece(from, j))
        BY <1>6 DEF j
      <3>2. \A i \in 1 .. k : i < k => from + i \in from + 1 .. j - 1
        BY <2>0
      <3>3. \E i \in 1 .. k : i < k /\ spoken[from + i].start > 0
        BY <2>1, <3>1 DEF TimedBefore
      <3>4. \E i \in 1 .. k : i < k /\ spoken[from + i].end > 0
        BY <2>1, <3>1 DEF TimedBefore
      <3> QED BY <3>2, <3>3, <3>4 DEF TimedAmong
    <2> QED BY <1>6, <2>0, <2>2 DEF OpenCue, FitsLimit, j
  <1> HIDE DEF n
  <1>7. \A k \in DOMAIN made.atoms :
          /\ spoken[made.atoms[k]].start > 0 => made.start <= spoken[made.atoms[k]].start
          /\ spoken[made.atoms[k]].end > 0 => spoken[made.atoms[k]].end <= made.end
    BY <1>3, <1>5
  <1>8. \A k \in DOMAIN made.atoms :
          limit # 0 /\ TimedBefore(spoken, SubSeq(made.atoms, 1, k))
            => TotalLength(spoken, SubSeq(made.atoms, 1, k)) <= limit
    BY <1>3, <1>6
  <1> QED BY <1>4, <1>7, <1>8 DEF CueIsSound, made

\* What is left without times has none.
LEMMA LeftCue ==
  ASSUME NEW spoken \in Seq(Atoms), NEW limit \in Nat, NEW from \in Nat,
         NEW to \in from .. Len(spoken), NEW cue, OpenCue(spoken, cue, from, to, limit), ~IsTimed(cue)
  PROVE  Untimed(spoken, CreateVttCue(cue))
  <1>1. CreateVttCue(cue).atoms = Piece(from, to)
    BY CreatedType DEF OpenCue
  <1>2. to \in Nat /\ from <= to
    OBVIOUS
  <1>3. /\ DOMAIN Piece(from, to) = 1 .. to - from
        /\ \A k \in 1 .. to - from : Piece(from, to)[k] = from + k
    BY <1>2, PieceParts
  <1>4. \A k \in 1 .. to - from : from + k \in from + 1 .. to /\ from + k \in 1 .. Len(spoken)
    OBVIOUS
  <1>5. CASE cue.start = NoTime
    <2>1. ASSUME NEW k \in 1 .. to - from PROVE spoken[from + k].start <= 0
      BY <1>4, <1>5, AtomType DEF OpenCue, Spans, NoTime
    <2> QED BY <1>1, <1>3, <2>1 DEF Untimed
  <1>6. CASE cue.end = NoTime
    <2>1. ASSUME NEW k \in 1 .. to - from PROVE spoken[from + k].end <= 0
      BY <1>4, <1>6, AtomType DEF OpenCue, Spans, NoTime
    <2> QED BY <1>1, <1>3, <2>1 DEF Untimed
  <1> QED BY <1>5, <1>6 DEF IsTimed

\* Two pieces, one after the other, are one.
LEMMA PiecesTogether ==
  ASSUME NEW a \in Nat, NEW b \in Nat, NEW c \in Nat, a <= b, b <= c
  PROVE  Piece(a, b) \o Piece(b, c) = Piece(a, c)
  <1> DEFINE x == Piece(a, b)
             y == Piece(b, c)
             z == Piece(a, c)
  <1>1. a <= c
    OBVIOUS
  <1>2. /\ x \in Seq(Nat) /\ Len(x) = b - a /\ \A k \in 1 .. b - a : x[k] = a + k
        /\ y \in Seq(Nat) /\ Len(y) = c - b /\ \A k \in 1 .. c - b : y[k] = b + k
        /\ z \in Seq(Nat) /\ Len(z) = c - a /\ \A k \in 1 .. c - a : z[k] = a + k
    BY <1>1, PieceParts
  <1> HIDE DEF x, y, z
  <1>3. /\ x \o y \in Seq(Nat) /\ Len(x \o y) = (b - a) + (c - b)
        /\ \A k \in 1 .. (b - a) + (c - b) :
             (x \o y)[k] = IF k <= b - a THEN x[k] ELSE y[k - (b - a)]
    <2>1. /\ x \o y \in Seq(Nat) /\ Len(x \o y) = Len(x) + Len(y)
          /\ \A k \in 1 .. Len(x) + Len(y) :
               (x \o y)[k] = IF k <= Len(x) THEN x[k] ELSE y[k - Len(x)]
      <3>1. x \in Seq(Nat) /\ y \in Seq(Nat)
        BY <1>2
      <3> QED BY <3>1, ConcatProperties
    <2> QED BY <1>2, <2>1
  <1>4. (b - a) + (c - b) = c - a
    OBVIOUS
  <1>5. ASSUME NEW k \in 1 .. c - a PROVE (x \o y)[k] = z[k]
    <2>1. CASE k <= b - a
      <3>1. k \in 1 .. b - a
        BY <2>1
      <3> QED BY <1>2, <1>3, <1>4, <2>1, <3>1
    <2>2. CASE ~(k <= b - a)
      <3>1. k - (b - a) \in 1 .. c - b /\ b + (k - (b - a)) = a + k
        BY <2>2
      <3>2. (x \o y)[k] = y[k - (b - a)]
        BY <1>3, <1>4, <2>2
      <3> QED BY <1>2, <3>1, <3>2
    <2> QED BY <2>1, <2>2
  <1>6. x \o y = z
    BY <1>2, <1>3, <1>4, <1>5, SeqEqual
  <1> QED BY <1>6 DEF x, y, z

LEMMA FlattenPieces ==
  ASSUME NEW m \in Nat, NEW n \in Nat, NEW ends \in [0 .. m + 1 -> 0 .. n],
         ends[0] = 0, ends[m + 1] = n, NEW words, words = [c \in 1 .. m + 1 |-> words[c]],
         \A c \in 1 .. m + 1 : ends[c - 1] <= ends[c] /\ words[c] = Piece(ends[c - 1], ends[c])
  PROVE  FlattenSeq(words) = Piece(0, n)
  <1> DEFINE k == m + 1
             parts == [c \in 1 .. k |-> Piece(0, ends[c])]
  <1>0. k \in Nat /\ k > 0 /\ 1 \in 1 .. k /\ 1 - 1 = 0 /\ k \in 1 .. k
    OBVIOUS
  <1>1. Len(words) = k
    OBVIOUS
  <1> HIDE DEF k
  <1>2. parts = [c \in 1 .. k |-> parts[c]] /\ \A c \in 1 .. k : parts[c] = Piece(0, ends[c])
    OBVIOUS
  <1> HIDE DEF parts
  <1>3. \A c \in 1 .. k : ends[c - 1] <= ends[c] /\ words[c] = Piece(ends[c - 1], ends[c])
    BY DEF k
  <1>4. \A c \in 0 .. k : ends[c] \in Nat
    BY DEF k
  <1>5. parts[1] = words[1]
    <2>1. words[1] = Piece(ends[1 - 1], ends[1])
      BY <1>0, <1>3
    <2> QED BY <1>0, <1>2, <2>1
  <1>6. ASSUME NEW i \in 1 .. k, NEW j \in 1 .. k, j = i + 1 PROVE parts[j] = parts[i] \o words[j]
    <2>1. j - 1 = i /\ i \in 0 .. k /\ j \in 0 .. k
      BY <1>0, <1>6
    <2>2. ends[i] \in Nat /\ ends[j] \in Nat /\ ends[i] <= ends[j] /\ 0 <= ends[i]
      BY <1>3, <1>4, <2>1
    <2>3. Piece(0, ends[i]) \o Piece(ends[i], ends[j]) = Piece(0, ends[j])
      BY <2>2, PiecesTogether
    <2> QED BY <1>2, <1>3, <2>1, <2>3
  <1>7. Chained(parts, words, k)
    BY <1>0, <1>2, <1>5, <1>6, ChainOfParts
  <1>8. PICK chain : Chained(chain, words, k) /\ FlattenSeq(words) = chain[k]
    BY <1>0, <1>1, <1>7, Flattened
  <1>9. chain[k] = parts[k]
    BY <1>0, <1>7, <1>8, ChainsAreOne
  <1>10. parts[k] = Piece(0, n)
    BY <1>0, <1>2 DEF k
  <1> QED BY <1>0, <1>8, <1>9, <1>10

\* After its k-th atom the loop has sound cues with the atoms up to the last
\* cut, and an open one with those after it.
MadeSound(spoken, made, cut, k, limit) ==
  /\ made \in Making
  /\ cut \in [0 .. Len(made.cues) -> 0 .. k] /\ cut[0] = 0
  /\ \A c \in 1 .. Len(made.cues) :
       /\ cut[c - 1] <= cut[c]
       /\ made.cues[c].atoms = Piece(cut[c - 1], cut[c])
       /\ CueIsSound(spoken, made.cues[c], limit)
  /\ OpenCue(spoken, made.cue, cut[Len(made.cues)], k, limit)

LEMMA MadeAtStart ==
  ASSUME NEW spoken \in Seq(Atoms), NEW limit \in Nat
  PROVE  MadeSound(spoken, [cues |-> <<>>, cue |-> EmptyCue], [c \in 0 .. 0 |-> 0], 0, limit)
  <1> DEFINE made == [cues |-> <<>>, cue |-> EmptyCue]
             cut == [c \in 0 .. 0 |-> 0]
  <1>1. made \in Making /\ made.cues = <<>> /\ made.cue = EmptyCue
    BY EmptyCueType DEF Making
  <1>2. Len(made.cues) = 0 /\ 1 .. 0 = {}
    BY <1>1
  <1>3. cut \in [0 .. 0 -> 0 .. 0] /\ cut[0] = 0
    OBVIOUS
  <1>4. OpenCue(spoken, EmptyCue, 0, 0, limit)
    <2>1. 0 \in 0 .. Len(spoken)
      OBVIOUS
    <2> QED BY <2>1, OpenedCue
  <1> HIDE DEF made, cut
  <1>5. MadeSound(spoken, made, cut, 0, limit)
    BY <1>1, <1>2, <1>3, <1>4 DEF MadeSound
  <1> QED BY <1>5 DEF made, cut

LEMMA MadeStep ==
  ASSUME NEW spoken \in Seq(Atoms), NEW limit \in Nat, NEW k \in 0 .. Len(spoken) - 1,
         NEW made, NEW cut, MadeSound(spoken, made, cut, k, limit)
  PROVE  \E next : MadeSound(spoken, AddAtom(made, k + 1, spoken[k + 1], limit), next, k + 1, limit)
  <1> DEFINE n == Len(made.cues)
             from == cut[n]
             atom == spoken[k + 1]
             added == AddAtom(made, k + 1, atom, limit)
             splits == limit # 0 /\ IsTimed(made.cue) /\ made.cue.length + atom.length > limit
  <1>0. made \in Making /\ made.cues \in Seq(Cues) /\ made.cue \in Cues /\ n \in Nat
    BY DEF MadeSound, Making
  <1>1. k \in Nat /\ k + 1 \in Nat /\ k + 1 \in 1 .. Len(spoken) /\ atom \in Atoms
    BY AtomType
  <1>2. /\ cut \in [0 .. n -> 0 .. k] /\ cut[0] = 0
        /\ \A c \in 1 .. n : /\ cut[c - 1] <= cut[c]
                             /\ made.cues[c].atoms = Piece(cut[c - 1], cut[c])
                             /\ CueIsSound(spoken, made.cues[c], limit)
        /\ OpenCue(spoken, made.cue, from, k, limit)
    BY DEF MadeSound
  <1>3. from \in 0 .. k /\ from \in Nat /\ k \in from .. Len(spoken) - 1 /\ k \in from .. Len(spoken)
    <2>1. n \in 0 .. n
      BY <1>0
    <2>2. from \in 0 .. k
      <3> HIDE DEF n
      <3> QED BY <1>2, <2>1
    <2> HIDE DEF from
    <2> QED BY <1>1, <2>2
  <1>4. added \in Making
    <2> DEFINE j == k + 1
    <2>1. j \in Nat
      BY <1>1
    <2> HIDE DEF j, atom
    <2>2. AddAtom(made, j, atom, limit) \in Making
      BY <1>0, <1>1, <2>1, AddAtomType
    <2> QED BY <2>2 DEF j
  <1>5. CASE ~splits
    <2>1. added.cues = made.cues /\ added.cue = Extend(made.cue, k + 1, atom)
      BY <1>5 DEF AddAtom
    <2>2. OpenCue(spoken, added.cue, from, k + 1, limit)
      <3> HIDE DEF added, from
      <3> QED BY <1>2, <1>3, <1>5, <2>1, ExtendedCue
    <2>3. cut \in [0 .. n -> 0 .. k + 1]
      <3>1. 0 .. k \subseteq 0 .. k + 1
        BY <1>1
      <3> HIDE DEF n
      <3> QED BY <1>2, <3>1
    <2>4. MadeSound(spoken, added, cut, k + 1, limit)
      <3> HIDE DEF added, atom
      <3> QED BY <1>2, <1>4, <2>1, <2>2, <2>3 DEF MadeSound
    <2> QED BY <2>4
  <1>6. CASE splits
    <2> DEFINE closed == CreateVttCue(made.cue)
               next == [c \in 0 .. n + 1 |-> IF c = n + 1 THEN k ELSE cut[c]]
    <2>1. added.cues = Append(made.cues, closed) /\ added.cue = Extend(EmptyCue, k + 1, atom)
      BY <1>6 DEF AddAtom
    <2>2. CueIsSound(spoken, closed, limit) /\ closed.atoms = Piece(from, k) /\ closed \in Cues
      <3>1. CueIsSound(spoken, closed, limit)
        <4> HIDE DEF from
        <4> QED BY <1>2, <1>3, <1>6, ClosedCue
      <3>2. closed.atoms = made.cue.atoms /\ closed \in Cues
        BY <1>0, CreatedType
      <3> QED BY <1>2, <3>1, <3>2 DEF OpenCue
    <2>3. OpenCue(spoken, added.cue, k, k + 1, limit)
      <3>1. k \in 0 .. Len(spoken) /\ k \in k .. Len(spoken) - 1
        BY <1>1
      <3>2. OpenCue(spoken, EmptyCue, k, k, limit)
        BY <3>1, OpenedCue
      <3>3. ~IsTimed(EmptyCue)
        BY EmptyCueType DEF IsTimed
      <3>4. OpenCue(spoken, Extend(EmptyCue, k + 1, spoken[k + 1]), k, k + 1, limit)
        BY <1>1, <3>1, <3>2, <3>3, ExtendedCue
      <3> HIDE DEF added
      <3> QED BY <2>1, <3>4
    <2> HIDE DEF added, closed
    <2>4. /\ Len(added.cues) = n + 1 /\ added.cues[n + 1] = closed
          /\ \A c \in 1 .. n : added.cues[c] = made.cues[c]
      BY <1>0, <2>1, <2>2, AppendProperties
    <2> HIDE DEF n, atom
    <2>5. /\ next \in [0 .. n + 1 -> 0 .. k + 1] /\ next[n + 1] = k
          /\ \A c \in 0 .. n : next[c] = cut[c]
      <3>1. \A c \in 0 .. n + 1 : c # n + 1 => c \in 0 .. n
        BY <1>0
      <3>2. \A c \in 0 .. n : c \in 0 .. n + 1 /\ c # n + 1
        BY <1>0
      <3>3. n + 1 \in 0 .. n + 1 /\ k \in 0 .. k + 1 /\ 0 .. k \subseteq 0 .. k + 1
        BY <1>0, <1>1
      <3> QED BY <1>2, <3>1, <3>2, <3>3
    <2>6. next[0] = 0
      <3>1. 0 \in 0 .. n
        BY <1>0
      <3> HIDE DEF next
      <3> QED BY <1>2, <2>5, <3>1
    <2>7. ASSUME NEW c \in 1 .. n + 1
          PROVE  /\ next[c - 1] <= next[c]
                 /\ added.cues[c].atoms = Piece(next[c - 1], next[c])
                 /\ CueIsSound(spoken, added.cues[c], limit)
      <3> HIDE DEF next, from
      <3>1. CASE c = n + 1
        <4>1. c - 1 = n /\ n \in 0 .. n
          BY <1>0, <3>1
        <4>2. next[c - 1] = from /\ next[c] = k /\ added.cues[c] = closed
          BY <2>4, <2>5, <3>1, <4>1 DEF from
        <4>3. from <= k
          BY <1>3
        <4> QED BY <2>2, <4>2, <4>3
      <3>2. CASE c # n + 1
        <4>1. c \in 1 .. n /\ c - 1 \in 0 .. n /\ c \in 0 .. n
          BY <1>0, <3>2
        <4>2. next[c - 1] = cut[c - 1] /\ next[c] = cut[c] /\ added.cues[c] = made.cues[c]
          BY <2>4, <2>5, <4>1
        <4> QED BY <1>2, <4>1, <4>2
      <3> QED BY <3>1, <3>2
    <2> HIDE DEF next
    <2>8. MadeSound(spoken, added, next, k + 1, limit)
      BY <1>4, <2>3, <2>4, <2>5, <2>6, <2>7 DEF MadeSound
    <2> QED BY <2>8 DEF added, atom
  <1> QED BY <1>5, <1>6

\* Every paragraph becomes sound cues.
LEMMA ParagraphIsSound ==
  ASSUME NEW spoken \in Seq(Atoms), NEW limit \in Nat
  PROVE  PartIsSound(spoken, ParagraphToCues(spoken, limit), limit)
  <1> DEFINE n == Len(spoken)
             written == ParagraphToCues(spoken, limit)
  <1>1. PICK made :
          /\ made[0] = [cues |-> <<>>, cue |-> EmptyCue]
          /\ \A k \in 1 .. n : made[k] = AddAtom(made[k - 1], k, spoken[k], limit)
          /\ written = [timed |-> IsTimed(made[n].cue),
                     cues |-> Append(made[n].cues, CreateVttCue(made[n].cue))]
    BY MadeUpTo
  <1>2. PICK cut : MadeSound(spoken, made[n], cut, n, limit)
    <2> DEFINE S == {k \in 0 .. n : \E cut : MadeSound(spoken, made[k], cut, k, limit)}
    <2>1. 0 \in S
      BY <1>1, MadeAtStart
    <2>2. ASSUME NEW k \in 0 .. n - 1, k \in S PROVE k + 1 \in S
      <3>1. PICK cut : MadeSound(spoken, made[k], cut, k, limit)
        BY <2>2
      <3>2. k + 1 \in 1 .. n /\ (k + 1) - 1 = k /\ k + 1 \in 0 .. n
        OBVIOUS
      <3>3. made[k + 1] = AddAtom(made[k], k + 1, spoken[k + 1], limit)
        BY <1>1, <3>2
      <3>4. \E next : MadeSound(spoken, made[k + 1], next, k + 1, limit)
        BY <3>1, <3>3, MadeStep
      <3> QED BY <3>2, <3>4
    <2>3. n \in Nat /\ n \in 0 .. n
      OBVIOUS
    <2>4. \A k \in 0 .. n : k \in S
      <3> HIDE DEF S, n
      <3> QED BY <2>1, <2>2, <2>3, Induction
    <2> QED BY <2>3, <2>4
  <1> HIDE DEF written
  <1> DEFINE all == made[n]
             m == Len(all.cues)
             from == cut[m]
             ending == CreateVttCue(all.cue)
  <1>3. /\ all.cues \in Seq(Cues) /\ all.cue \in Cues /\ m \in Nat
        /\ cut \in [0 .. m -> 0 .. n] /\ cut[0] = 0
        /\ \A c \in 1 .. m : /\ cut[c - 1] <= cut[c]
                             /\ all.cues[c].atoms = Piece(cut[c - 1], cut[c])
                             /\ CueIsSound(spoken, all.cues[c], limit)
        /\ OpenCue(spoken, all.cue, from, n, limit)
    BY <1>2 DEF MadeSound, Making
  <1>4. written.timed = IsTimed(all.cue) /\ written.cues = Append(all.cues, ending)
    BY <1>1
  <1> HIDE DEF all
  <1>5. from \in Nat /\ n \in from .. Len(spoken) /\ n \in Nat /\ from \in 0 .. n /\ from <= n
    <2>1. n \in Nat /\ m \in 0 .. m
      BY <1>3
    <2>2. from \in 0 .. n
      <3> HIDE DEF m, n
      <3> QED BY <1>3, <2>1
    <2> QED BY <2>1, <2>2
  <1>6. ending \in Cues /\ ending.atoms = Piece(from, n)
    BY <1>3, CreatedType DEF OpenCue
  <1>7. IF IsTimed(all.cue) THEN CueIsSound(spoken, ending, limit) ELSE Untimed(spoken, ending)
    <2> HIDE DEF from, n
    <2> QED BY <1>3, <1>5, ClosedCue, LeftCue
  <1> HIDE DEF ending
  <1>8. /\ written.cues \in Seq(Cues) /\ Len(written.cues) = m + 1 /\ DOMAIN written.cues = 1 .. m + 1
        /\ written.cues[m + 1] = ending
        /\ \A c \in 1 .. m : written.cues[c] = all.cues[c]
    BY <1>3, <1>4, <1>6, AppendProperties
  <1> HIDE DEF m
  <1>9. ASSUME NEW c \in 1 .. m + 1
        PROVE  IF c = m + 1 /\ ~written.timed THEN Untimed(spoken, written.cues[c])
               ELSE CueIsSound(spoken, written.cues[c], limit)
    <2>1. CASE c = m + 1
      BY <1>4, <1>7, <1>8, <2>1
    <2>2. CASE c # m + 1
      <3>1. c \in 1 .. m
        BY <1>3, <2>2
      <3> QED BY <1>3, <1>8, <2>2, <3>1
    <2> QED BY <2>1, <2>2
  <1> DEFINE words == [c \in 1 .. m + 1 |-> written.cues[c].atoms]
             ends == [c \in 0 .. m + 1 |-> IF c = m + 1 THEN n ELSE cut[c]]
             parts == [c \in 1 .. m + 1 |-> Piece(0, ends[c])]
  <1>10. /\ ends \in [0 .. m + 1 -> 0 .. n] /\ ends[0] = 0 /\ ends[m + 1] = n
         /\ words = [c \in 1 .. m + 1 |-> words[c]]
         /\ \A c \in 1 .. m + 1 : ends[c - 1] <= ends[c] /\ words[c] = Piece(ends[c - 1], ends[c])
    <2> HIDE DEF from
    <2>1. \A c \in 0 .. m : c \in 0 .. m + 1 /\ c # m + 1
      BY <1>3
    <2>2. m + 1 \in 0 .. m + 1 /\ 0 \in 0 .. m /\ n \in 0 .. n
      BY <1>3, <1>5
    <2>3. \A c \in 0 .. m + 1 : c # m + 1 => c \in 0 .. m
      BY <1>3
    <2>4. ends \in [0 .. m + 1 -> 0 .. n] /\ ends[m + 1] = n /\ \A c \in 0 .. m : ends[c] = cut[c]
      <3> HIDE DEF n
      <3> QED BY <1>3, <2>1, <2>2, <2>3
    <2> HIDE DEF ends
    <2>5. ASSUME NEW c \in 1 .. m + 1
          PROVE  ends[c - 1] <= ends[c] /\ words[c] = Piece(ends[c - 1], ends[c])
      <3>1. words[c] = written.cues[c].atoms
        OBVIOUS
      <3> HIDE DEF words
      <3>2. CASE c = m + 1
        <4>1. c - 1 = m /\ m \in 0 .. m
          BY <1>3, <3>2
        <4>2. ends[c - 1] = from /\ ends[c] = n
          BY <2>4, <3>2, <4>1 DEF from
        <4> QED BY <1>5, <1>6, <1>8, <3>1, <3>2, <4>2
      <3>3. CASE c # m + 1
        <4>1. c \in 1 .. m /\ c \in 0 .. m /\ c - 1 \in 0 .. m
          BY <1>3, <3>3
        <4>2. ends[c - 1] = cut[c - 1] /\ ends[c] = cut[c]
          BY <2>4, <4>1
        <4> QED BY <1>3, <1>8, <3>1, <4>1, <4>2
      <3> QED BY <3>2, <3>3
    <2>6. words = [c \in 1 .. m + 1 |-> words[c]]
      OBVIOUS
    <2> HIDE DEF words
    <2> QED BY <1>3, <2>2, <2>4, <2>5, <2>6
  <1>11. FlattenSeq(words) = Piece(0, n)
    <2> HIDE DEF words, ends, n
    <2> QED BY <1>3, <1>5, <1>10, FlattenPieces
  <1>12. Piece(0, n) = [k \in DOMAIN spoken |-> k]
    BY DEF Piece
  <1>13. [c \in DOMAIN written.cues |-> written.cues[c].atoms] = words
    BY <1>8
  <1> HIDE DEF words
  <1>14. \A c \in DOMAIN written.cues :
           IF c = Len(written.cues) /\ ~written.timed THEN Untimed(spoken, written.cues[c])
           ELSE CueIsSound(spoken, written.cues[c], limit)
    BY <1>8, <1>9
  <1>15. PartIsSound(spoken, written, limit)
    BY <1>11, <1>12, <1>13, <1>14 DEF PartIsSound
  <1> QED BY <1>15 DEF written

-----------------------------------------------------------------------------
(* Exports: plain text.                                                     *)

Printed == {<<"blank">>} \cup ({"time", "text"} \X Nat) \cup ({"name"} \X STRING)

\* Up to line p, whoever spoke before, the last name that was printed is his who
\* speaks now.
Tells(lines, p, before, speaker) ==
  \/ speaker = before /\ \A r \in 1 .. p : lines[r][1] # "name"
  \/ \E q \in 1 .. p : /\ lines[q][1] = "name" /\ lines[q][2] = speaker
                       /\ \A r \in q + 1 .. p : lines[r][1] # "name"

LEMMA TellsStill ==
  ASSUME NEW s \in Seq(Printed), NEW t \in Seq(Printed), NEW p \in 0 .. Len(s),
         NEW before, NEW speaker, Tells(s, p, before, speaker)
  PROVE  Tells(s \o t, p, before, speaker)
  <1>1. \A r \in 1 .. Len(s) : (s \o t)[r] = s[r]
    <2>1. /\ Len(s) \in Nat /\ Len(t) \in Nat
          /\ \A r \in 1 .. Len(s) + Len(t) : (s \o t)[r] = IF r <= Len(s) THEN s[r] ELSE t[r - Len(s)]
      BY ConcatProperties, LenProperties
    <2> QED BY <2>1
  <1>2. \A r \in 1 .. p : r \in 1 .. Len(s)
    OBVIOUS
  <1>3. \A q \in 1 .. p : \A r \in q + 1 .. p : r \in 1 .. Len(s)
    OBVIOUS
  <1> DEFINE st == s \o t
  <1>4. \A r \in 1 .. Len(s) : st[r] = s[r]
    BY <1>1
  <1> HIDE DEF st
  <1>5. Tells(st, p, before, speaker)
    BY <1>2, <1>3, <1>4 DEF Tells
  <1> QED BY <1>5 DEF st

LEMMA TellsTogether ==
  ASSUME NEW s \in Seq(Printed), NEW t \in Seq(Printed), NEW a, NEW b, NEW c,
         Tells(s, Len(s), a, b), Tells(t, Len(t), b, c)
  PROVE  s \o t \in Seq(Printed) /\ Tells(s \o t, Len(s \o t), a, c)
  <1> DEFINE st == s \o t
             m == Len(s)
             n == Len(t)
  <1>1. /\ st \in Seq(Printed) /\ Len(st) = m + n /\ m \in Nat /\ n \in Nat
        /\ \A r \in 1 .. m + n : st[r] = IF r <= m THEN s[r] ELSE t[r - m]
    BY ConcatProperties, LenProperties
  <1>2. Tells(s, m, a, b) /\ Tells(t, n, b, c)
    OBVIOUS
  <1> HIDE DEF st, m, n
  <1>3. \A r \in 1 .. m : st[r] = s[r]
    <2>1. \A r \in 1 .. m : r \in 1 .. m + n /\ r <= m
      BY <1>1
    <2> QED BY <1>1, <2>1
  <1>4. \A r \in 1 .. n : st[m + r] = t[r]
    <2>1. \A r \in 1 .. n : m + r \in 1 .. m + n /\ ~(m + r <= m) /\ (m + r) - m = r
      BY <1>1
    <2> QED BY <1>1, <2>1
  <1>5. ASSUME NEW r \in 1 .. m + n
        PROVE  r \in 1 .. m \/ (r - m \in 1 .. n /\ r = m + (r - m))
    BY <1>1
  <1>6. CASE \E q \in 1 .. n : /\ t[q][1] = "name" /\ t[q][2] = c
                               /\ \A r \in q + 1 .. n : t[r][1] # "name"
    <2>1. PICK q \in 1 .. n : /\ t[q][1] = "name" /\ t[q][2] = c
                              /\ \A r \in q + 1 .. n : t[r][1] # "name"
      BY <1>6
    <2>2. m + q \in 1 .. m + n
      BY <1>1
    <2>3. ASSUME NEW r \in m + q + 1 .. m + n PROVE st[r][1] # "name"
      <3>1. r - m \in q + 1 .. n /\ r - m \in 1 .. n /\ r = m + (r - m)
        BY <1>1
      <3> QED BY <1>4, <2>1, <3>1
    <2>4. st[m + q] = t[q]
      BY <1>4
    <2> DEFINE k == m + q
    <2>5. k \in 1 .. m + n /\ st[k] = t[q] /\ \A r \in k + 1 .. m + n : st[r][1] # "name"
      BY <2>2, <2>3, <2>4
    <2> HIDE DEF k
    <2>6. Tells(st, m + n, a, c)
      BY <2>1, <2>5 DEF Tells
    <2> QED BY <1>1, <2>6 DEF st
  <1>7. CASE c = b /\ \A r \in 1 .. n : t[r][1] # "name"
    <2>1. \A r \in 1 .. n : st[m + r][1] # "name"
      BY <1>4, <1>7
    <2>2. CASE b = a /\ \A r \in 1 .. m : s[r][1] # "name"
      <3>1. \A r \in 1 .. m + n : st[r][1] # "name"
        BY <1>3, <1>5, <2>1, <2>2
      <3>2. Tells(st, m + n, a, c)
        BY <1>7, <2>2, <3>1 DEF Tells
      <3> QED BY <1>1, <3>2 DEF st
    <2>3. CASE \E q \in 1 .. m : /\ s[q][1] = "name" /\ s[q][2] = b
                                 /\ \A r \in q + 1 .. m : s[r][1] # "name"
      <3>1. PICK q \in 1 .. m : /\ s[q][1] = "name" /\ s[q][2] = b
                                /\ \A r \in q + 1 .. m : s[r][1] # "name"
        BY <2>3
      <3>2. q \in 1 .. m + n
        BY <1>1
      <3>3. ASSUME NEW r \in q + 1 .. m + n PROVE st[r][1] # "name"
        <4>1. r \in 1 .. m + n /\ (r \in 1 .. m => r \in q + 1 .. m)
          BY <1>1
        <4>2. CASE r \in 1 .. m
          BY <1>3, <3>1, <4>1, <4>2
        <4>3. CASE r \notin 1 .. m
          <5>1. r - m \in 1 .. n /\ r = m + (r - m)
            BY <1>5, <4>1, <4>3
          <5> QED BY <2>1, <5>1
        <4> QED BY <4>2, <4>3
      <3>4. Tells(st, m + n, a, c)
        BY <1>3, <1>7, <3>1, <3>2, <3>3 DEF Tells
      <3> QED BY <1>1, <3>4 DEF st
    <2> QED BY <1>2, <2>2, <2>3 DEF Tells
  <1> QED BY <1>2, <1>6, <1>7 DEF Tells

\* What is printed of a paragraph names its speaker, unless he spoke before, and
\* ends with the text.
LEMMA LinesTell ==
  ASSUME NEW paragraphs, NEW i \in Nat, NEW times,
         NEW before, before = LastSpeaker(paragraphs, i), paragraphs[i].speaker \in STRING
  PROVE  LET lines == Lines(paragraphs, i, TRUE, times)
         IN  /\ lines \in Seq(Printed) /\ Len(lines) \in Nat
             /\ Tells(lines, Len(lines), before, paragraphs[i].speaker)
             /\ paragraphs[i].children # <<>> => Len(lines) > 0 /\ lines[Len(lines)] = <<"text", i>>
  <1> DEFINE speaker == paragraphs[i].speaker
             If(c, line) == IF c THEN <<line>> ELSE <<>>
             A == If(before # "null" /\ ((TRUE /\ before # speaker) \/ (times /\ ~TRUE)), <<"blank">>)
             B == If(times /\ (before # speaker \/ ~TRUE), <<"time", i>>)
             C == If(TRUE /\ before # speaker, <<"name", speaker>>)
             D == If(paragraphs[i].children # <<>>, <<"text", i>>)
             lines == ((A \o B) \o C) \o D
  <1>1. Lines(paragraphs, i, TRUE, times) = lines
    BY DEF Lines
  <1>2. <<"blank">> \in Printed /\ <<"time", i>> \in Printed /\ <<"text", i>> \in Printed
        /\ <<"name", speaker>> \in Printed
    BY DEF Printed
  <1>3. /\ <<"blank">>[1] # "name" /\ <<"time", i>>[1] # "name" /\ <<"text", i>>[1] # "name"
        /\ <<"name", speaker>>[1] = "name" /\ <<"name", speaker>>[2] = speaker
    OBVIOUS
  <1>4. ASSUME NEW c, NEW line \in Printed
        PROVE  /\ If(c, line) \in Seq(Printed)
               /\ c => Len(If(c, line)) = 1 /\ If(c, line)[1] = line
               /\ ~c => Len(If(c, line)) = 0
    OBVIOUS
  <1>5. ASSUME NEW c, NEW line \in Printed, line[1] # "name", NEW who
        PROVE  Tells(If(c, line), Len(If(c, line)), who, who)
    <2> DEFINE s == If(c, line)
    <2>1. (Len(s) = 1 /\ s[1] = line) \/ Len(s) = 0
      BY <1>4
    <2> HIDE DEF s
    <2>2. \A r \in 1 .. Len(s) : s[r][1] # "name"
      BY <1>5, <2>1
    <2>3. Tells(s, Len(s), who, who)
      BY <2>2 DEF Tells
    <2> QED BY <2>3 DEF s
  <1>6. A \in Seq(Printed) /\ Tells(A, Len(A), before, before)
    BY <1>2, <1>3, <1>4, <1>5
  <1>7. B \in Seq(Printed) /\ Tells(B, Len(B), before, before)
    BY <1>2, <1>3, <1>4, <1>5
  <1>8. C \in Seq(Printed) /\ Tells(C, Len(C), before, speaker)
    <2>1. C \in Seq(Printed)
      BY <1>2, <1>4
    <2>2. CASE before = speaker
      <3>1. Len(C) = 0
        BY <1>2, <1>4, <2>2
      <3> HIDE DEF C, speaker
      <3> QED BY <2>1, <2>2, <3>1 DEF Tells
    <2>3. CASE before # speaker
      <3>1. Len(C) = 1 /\ C[1] = <<"name", speaker>>
        BY <1>2, <1>4, <2>3
      <3> HIDE DEF C, speaker
      <3>2. 1 \in 1 .. Len(C) /\ \A r \in 1 + 1 .. Len(C) : FALSE
        BY <3>1
      <3> QED BY <1>3, <2>1, <3>1, <3>2 DEF Tells
    <2> QED BY <2>2, <2>3
  <1>9. /\ D \in Seq(Printed) /\ Tells(D, Len(D), speaker, speaker)
        /\ paragraphs[i].children # <<>> => Len(D) = 1 /\ D[1] = <<"text", i>>
    BY <1>2, <1>3, <1>4, <1>5
  <1> HIDE DEF A, B, C, D, speaker
  <1>10. A \o B \in Seq(Printed) /\ Tells(A \o B, Len(A \o B), before, before)
    BY <1>6, <1>7, TellsTogether
  <1>11. (A \o B) \o C \in Seq(Printed) /\ Tells((A \o B) \o C, Len((A \o B) \o C), before, speaker)
    BY <1>8, <1>10, TellsTogether
  <1>12. lines \in Seq(Printed) /\ Tells(lines, Len(lines), before, speaker)
    BY <1>9, <1>11, TellsTogether
  <1>13. paragraphs[i].children # <<>> => Len(lines) > 0 /\ lines[Len(lines)] = <<"text", i>>
    <2> DEFINE ABC == (A \o B) \o C
    <2>1. /\ Len(ABC \o D) = Len(ABC) + Len(D) /\ Len(ABC) \in Nat /\ Len(D) \in Nat
          /\ \A r \in 1 .. Len(ABC) + Len(D) :
               (ABC \o D)[r] = IF r <= Len(ABC) THEN ABC[r] ELSE D[r - Len(ABC)]
      BY <1>9, <1>11, ConcatProperties, LenProperties
    <2> HIDE DEF ABC
    <2>2. ASSUME Len(D) = 1, D[1] = <<"text", i>>
          PROVE  Len(ABC \o D) > 0 /\ (ABC \o D)[Len(ABC \o D)] = <<"text", i>>
      BY <2>1, <2>2
    <2> QED BY <1>9, <2>2 DEF ABC
  <1> HIDE DEF lines
  <1>14. Len(lines) \in Nat
    BY <1>12, LenProperties
  <1> QED BY <1>1, <1>12, <1>13, <1>14 DEF speaker

Paragraphs == [speaker : STRING, children : Seq(Atoms)]

LEMMA ParagraphType ==
  ASSUME NEW doc \in Seq(Paragraphs), NEW i \in 1 .. Len(doc)
  PROVE  doc[i] \in Paragraphs /\ doc[i].speaker \in STRING /\ doc[i].children \in Seq(Atoms)
  <1>1. doc[i] \in Paragraphs
    BY ElementOfSeq
  <1> QED BY <1>1 DEF Paragraphs

\* Text with the first c paragraphs of a document.
TextTells(doc, lines, c) ==
  /\ lines \in Seq(Printed)
  /\ Tells(lines, Len(lines), "null", doc[c].speaker)
  /\ \A i \in 1 .. c : doc[i].children # <<>> =>
       \E p \in 1 .. Len(lines) : lines[p] = <<"text", i>> /\ Tells(lines, p, "null", doc[i].speaker)

LEMMA FirstTells ==
  ASSUME NEW doc \in Seq(Paragraphs), Len(doc) > 0, NEW times
  PROVE  TextTells(doc, Lines(doc, 1, TRUE, times), 1)
  <1> DEFINE lines == Lines(doc, 1, TRUE, times)
  <1>1. LastSpeaker(doc, 1) = "null"
    BY DEF LastSpeaker
  <1>2. 1 \in 1 .. Len(doc) /\ doc[1].speaker \in STRING
    BY ParagraphType
  <1>3. /\ lines \in Seq(Printed) /\ Len(lines) \in Nat
        /\ Tells(lines, Len(lines), "null", doc[1].speaker)
        /\ doc[1].children # <<>> => Len(lines) > 0 /\ lines[Len(lines)] = <<"text", 1>>
    BY <1>1, <1>2, LinesTell
  <1> HIDE DEF lines
  <1>4. Len(lines) > 0 => Len(lines) \in 1 .. Len(lines)
    BY <1>3
  <1>5. \A i \in 1 .. 1 : i = 1
    OBVIOUS
  <1>6. TextTells(doc, lines, 1)
    BY <1>3, <1>4, <1>5 DEF TextTells
  <1> QED BY <1>6 DEF lines

LEMMA NextTells ==
  ASSUME NEW doc \in Seq(Paragraphs), NEW times, NEW c \in 1 .. Len(doc) - 1,
         NEW lines, TextTells(doc, lines, c)
  PROVE  TextTells(doc, lines \o Lines(doc, c + 1, TRUE, times), c + 1)
  <1> DEFINE k == c + 1
             more == Lines(doc, k, TRUE, times)
             all == lines \o more
             before == doc[c].speaker
             now == doc[k].speaker
  <1>1. k \in Nat /\ k \in 1 .. Len(doc) /\ k # 1 /\ k - 1 = c
    OBVIOUS
  <1>2. LastSpeaker(doc, k) = before
    BY <1>1 DEF LastSpeaker
  <1>3. now \in STRING
    BY <1>1, ParagraphType
  <1> HIDE DEF k
  <1>4. /\ more \in Seq(Printed) /\ Len(more) \in Nat /\ Tells(more, Len(more), before, now)
        /\ doc[k].children # <<>> => Len(more) > 0 /\ more[Len(more)] = <<"text", k>>
    BY <1>1, <1>2, <1>3, LinesTell
  <1>5. lines \in Seq(Printed) /\ Len(lines) \in Nat /\ Tells(lines, Len(lines), "null", before)
    BY LenProperties DEF TextTells
  <1> HIDE DEF more, before
  <1>6. all \in Seq(Printed) /\ Tells(all, Len(all), "null", now)
    BY <1>4, <1>5, TellsTogether
  <1>7. /\ Len(all) = Len(lines) + Len(more)
        /\ \A r \in 1 .. Len(lines) + Len(more) :
             all[r] = IF r <= Len(lines) THEN lines[r] ELSE more[r - Len(lines)]
    BY <1>4, <1>5, ConcatProperties
  <1>8. \A p \in 0 .. Len(lines) : \A who : Tells(lines, p, "null", who) => Tells(all, p, "null", who)
    BY <1>4, <1>5, TellsStill
  <1> HIDE DEF all
  <1>9. ASSUME NEW i \in 1 .. k, doc[i].children # <<>>
        PROVE  \E p \in 1 .. Len(all) : all[p] = <<"text", i>> /\ Tells(all, p, "null", doc[i].speaker)
    <2>1. CASE i = k
      <3>1. Len(all) \in 1 .. Len(all) /\ all[Len(all)] = <<"text", k>>
        BY <1>4, <1>5, <1>7, <1>9, <2>1
      <3> QED BY <1>6, <2>1, <3>1
    <2>2. CASE i # k
      <3>1. i \in 1 .. c
        BY <2>2 DEF k
      <3>2. PICK p \in 1 .. Len(lines) : lines[p] = <<"text", i>> /\ Tells(lines, p, "null", doc[i].speaker)
        BY <1>9, <3>1 DEF TextTells
      <3>3. p \in 0 .. Len(lines) /\ p \in 1 .. Len(all) /\ all[p] = lines[p]
        BY <1>4, <1>5, <1>7
      <3> QED BY <1>8, <3>2, <3>3
    <2> QED BY <2>1, <2>2
  <1>10. TextTells(doc, all, k)
    BY <1>6, <1>9 DEF TextTells
  <1> QED BY <1>10 DEF all, more, k

\* Plain text with names tells who speaks.
LEMMA PlaintextIsSound ==
  ASSUME NEW doc \in Seq(Paragraphs), NEW times, NEW i \in DOMAIN doc, doc[i].children # <<>>
  PROVE  LET lines == GeneratePlaintext(doc, TRUE, times)
         IN  \E p \in 1 .. Len(lines) : /\ lines[p] = <<"text", i>>
                                        /\ Tells(lines, p, "null", doc[i].speaker)
                                        /\ p \in DOMAIN lines
  <1> DEFINE n == Len(doc)
             xs == [j \in DOMAIN doc |-> Lines(doc, j, TRUE, times)]
  <1>1. n \in Nat /\ n > 0 /\ DOMAIN doc = 1 .. n /\ i \in 1 .. n
    OBVIOUS
  <1>2. GeneratePlaintext(doc, TRUE, times) = FlattenSeq(xs)
    BY DEF GeneratePlaintext
  <1>3. \A j \in 1 .. n : xs[j] = Lines(doc, j, TRUE, times)
    BY <1>1
  <1>4. Len(xs) = n
    BY <1>1
  <1> HIDE DEF xs
  <1>5. ASSUME NEW j \in 1 .. n PROVE xs[j] \in Seq(Printed)
    <2>1. j \in Nat /\ doc[j].speaker \in STRING
      BY ParagraphType
    <2> DEFINE before == LastSpeaker(doc, j)
    <2>2. before = LastSpeaker(doc, j)
      OBVIOUS
    <2> HIDE DEF before
    <2>3. Lines(doc, j, TRUE, times) \in Seq(Printed)
      BY <2>1, <2>2, LinesTell
    <2> QED BY <1>3, <2>3
  <1> HIDE DEF n
  <1>6. PICK parts : Chained(parts, xs, n)
    BY <1>1, <1>5, ChainExists
  <1>7. PICK chain : Chained(chain, xs, n) /\ FlattenSeq(xs) = chain[n]
    BY <1>1, <1>4, <1>6, Flattened
  <1>8. \A c \in 1 .. n : TextTells(doc, chain[c], c)
    <2> DEFINE S == {c \in 0 .. n : c # 0 => TextTells(doc, chain[c], c)}
    <2>1. 0 \in S
      BY <1>1
    <2>2. ASSUME NEW c \in 0 .. n - 1, c \in S PROVE c + 1 \in S
      <3>1. c + 1 \in 1 .. n /\ c + 1 \in 0 .. n
        BY <1>1
      <3>2. CASE c = 0
        <4>1. chain[1] = Lines(doc, 1, TRUE, times)
          <5>1. 1 \in 1 .. n
            BY <1>1
          <5> QED BY <1>1, <1>3, <1>7, <5>1, FirstOfChain
        <4>2. TextTells(doc, chain[1], 1)
          BY <1>1, <4>1, FirstTells DEF n
        <4> QED BY <3>1, <3>2, <4>2
      <3>3. CASE c # 0
        <4>1. c \in 1 .. n /\ c \in 1 .. Len(doc) - 1 /\ TextTells(doc, chain[c], c)
          BY <1>1, <2>2, <3>3 DEF n
        <4> DEFINE j == c + 1
        <4>2. j \in 1 .. n /\ j = c + 1
          BY <3>1
        <4>3. TextTells(doc, chain[c] \o Lines(doc, j, TRUE, times), j)
          BY <4>1, NextTells
        <4> HIDE DEF j
        <4>4. chain[j] = chain[c] \o xs[j]
          BY <1>1, <1>7, <4>1, <4>2, NextOfChain
        <4>5. TextTells(doc, chain[j], j)
          BY <1>3, <4>2, <4>3, <4>4
        <4> QED BY <3>1, <4>2, <4>5
      <3> QED BY <3>2, <3>3
    <2>3. \A c \in 0 .. n : c \in S
      <3> HIDE DEF S
      <3> QED BY <1>1, <2>1, <2>2, Induction
    <2>4. \A c \in 1 .. n : c \in 0 .. n /\ c # 0
      BY <1>1
    <2> QED BY <2>3, <2>4
  <1> DEFINE lines == chain[n]
  <1>9. TextTells(doc, lines, n)
    BY <1>1, <1>8
  <1> HIDE DEF lines
  <1>10. PICK p \in 1 .. Len(lines) : lines[p] = <<"text", i>> /\ Tells(lines, p, "null", doc[i].speaker)
    BY <1>1, <1>9 DEF TextTells
  <1>11. p \in DOMAIN lines
    <2>1. lines \in Seq(Printed)
      BY <1>9 DEF TextTells
    <2> QED BY <2>1, LenProperties
  <1> QED BY <1>2, <1>7, <1>10, <1>11 DEF lines

\* The last name before a line is found by looking for it.
LEMMA LastNameFound ==
  ASSUME NEW lines, NEW p \in Nat, NEW who, Tells(lines, p, "null", who)
  PROVE  LET names == {q \in 1 .. p : lines[q][1] = "name"}
         IN  IF names = {} THEN who = "null"
             ELSE lines[CHOOSE q \in names : \A r \in names : r <= q][2] = who
  <1> DEFINE names == {q \in 1 .. p : lines[q][1] = "name"}
  <1>1. CASE \A r \in 1 .. p : lines[r][1] # "name"
    BY <1>1 DEF Tells
  <1>2. CASE ~(\A r \in 1 .. p : lines[r][1] # "name")
    <2>1. PICK q \in 1 .. p : /\ lines[q][1] = "name" /\ lines[q][2] = who
                              /\ \A r \in q + 1 .. p : lines[r][1] # "name"
      BY <1>2 DEF Tells
    <2>2. q \in names
      BY <2>1
    <2>3. ASSUME NEW r \in names PROVE r <= q
      <3>1. r \in 1 .. p /\ lines[r][1] = "name"
        OBVIOUS
      <3>2. r > q => r \in q + 1 .. p
        BY <3>1
      <3> QED BY <2>1, <3>1, <3>2
    <2>4. \A s \in names : (\A r \in names : r <= s) => s = q
      <3> SUFFICES ASSUME NEW s \in names, \A r \in names : r <= s PROVE s = q
        OBVIOUS
      <3>1. q <= s /\ s <= q /\ s \in Nat
        BY <2>2, <2>3
      <3> QED BY <3>1
    <2> HIDE DEF names
    <2>5. (CHOOSE s \in names : \A r \in names : r <= s) = q
      BY <2>2, <2>3, <2>4
    <2> QED BY <2>1, <2>2, <2>5 DEF names
  <1> QED BY <1>1, <1>2

-----------------------------------------------------------------------------
(* Exports: the dialog.                                                     *)

\* What was exported last is what the writers make of the transcript.
ExportedInv ==
  \/ exported = NoFile
  \/ \E limit \in LineLimits, kind \in {"subtitles", "error"} :
       exported = [kind |-> kind, parts |-> GenerateWebVtt(transcript, limit), limit |-> limit]
  \/ \E names, times \in BOOLEAN, kind \in {"txt", "error"} :
       exported = [kind |-> kind, names |-> names, lines |-> GeneratePlaintext(transcript, names, times)]

ExportInv == transcript \in Seq(Paragraphs) /\ ExportedInv /\ PostedWhereFound

LEMMA ExportInvAtStart == ExportInit => ExportInv
  BY ExportAssumption DEF ExportInit, ExportInv, ExportedInv, PostedWhereFound, Paragraphs

LEMMA SubtitlesExported ==
  ASSUME NEW limit \in LineLimits, Subtitles(limit), transcript' = transcript
  PROVE  ExportedInv'
  <1> DEFINE parts == GenerateWebVtt(transcript, limit)
             kind == IF Throws(parts) THEN "error" ELSE "subtitles"
  <1>1. kind \in {"subtitles", "error"}
    OBVIOUS
  <1>2. exported' = [kind |-> kind, parts |-> parts, limit |-> limit]
    BY DEF Subtitles
  <1>3. parts = GenerateWebVtt(transcript', limit)
    OBVIOUS
  <1> HIDE DEF parts, kind
  <1> QED BY <1>1, <1>2, <1>3 DEF ExportedInv

LEMMA ExportInvStep == ASSUME ExportInv, [ExportNext]_exportVars PROVE ExportInv'
  <1>1. transcript' = transcript
    BY DEF ExportNext, ExportSubtitles, ExportPlaintext, EnterSettings, SettingsChecked,
           ExportPodlove, PushToPodlove, CloseExport, exportVars
  <1>2. ExportedInv'
    <2>1. CASE exported' = exported
      BY <1>1, <2>1 DEF ExportInv, ExportedInv
    <2>2. CASE ExportSubtitles
      <3>1. PICK limit \in LineLimits : Subtitles(limit)
        BY <2>2 DEF ExportSubtitles
      <3> QED BY <1>1, <3>1, SubtitlesExported
    <2>3. CASE ExportPodlove
      <3>1. PICK limit \in LineLimits : Subtitles(limit)
        BY <2>3 DEF ExportPodlove
      <3> QED BY <1>1, <3>1, SubtitlesExported
    <2>4. CASE ExportPlaintext
      <3>1. PICK names \in BOOLEAN, times \in BOOLEAN :
              exported' = [kind |-> IF open' THEN "error" ELSE "txt", names |-> names,
                           lines |-> GeneratePlaintext(transcript, names, times)]
        BY <2>4 DEF ExportPlaintext
      <3> DEFINE kind == IF open' THEN "error" ELSE "txt"
      <3>2. kind \in {"txt", "error"}
        OBVIOUS
      <3>3. exported' = [kind |-> kind, names |-> names,
                         lines |-> GeneratePlaintext(transcript', names, times)]
        BY <1>1, <3>1
      <3> HIDE DEF kind
      <3> QED BY <3>2, <3>3 DEF ExportedInv
    <2>5. \/ exported' = exported \/ ExportSubtitles \/ ExportPodlove \/ ExportPlaintext
      BY DEF ExportNext, EnterSettings, SettingsChecked, PushToPodlove, CloseExport, exportVars
    <2> QED BY <2>1, <2>2, <2>3, <2>4, <2>5
  <1>3. PostedWhereFound'
    <2>1. CASE PushToPodlove
      BY <2>1 DEF PushToPodlove, ExportInv, PostedWhereFound
    <2>2. CASE posted' = posted
      BY <2>2 DEF ExportInv, PostedWhereFound
    <2>3. PushToPodlove \/ posted' = posted
      BY DEF ExportNext, ExportSubtitles, ExportPlaintext, EnterSettings, SettingsChecked,
             ExportPodlove, CloseExport, exportVars
    <2> QED BY <2>1, <2>2, <2>3
  <1> QED BY <1>1, <1>2, <1>3 DEF ExportInv

\* A paragraph without atoms has no subtitles.
LEMMA NoneIsSound ==
  ASSUME NEW limit
  PROVE  PartIsSound(<<>>, [timed |-> TRUE, cues |-> <<>>], limit)
  <1> DEFINE written == [timed |-> TRUE, cues |-> <<>>]
  <1>1. DOMAIN written.cues = {} /\ DOMAIN <<>> = {}
    OBVIOUS
  <1> DEFINE words == [c \in DOMAIN written.cues |-> written.cues[c].atoms]
  <1>2. words = <<>>
    BY <1>1
  <1>3. FlattenSeq(<<>>) = <<>>
    BY DEF FlattenSeq
  <1>4. [k \in DOMAIN <<>> |-> k] = <<>>
    BY <1>1
  <1>5. FlattenSeq(words) = [k \in DOMAIN <<>> |-> k]
    <2> HIDE DEF words
    <2> QED BY <1>2, <1>3, <1>4
  <1> QED BY <1>1, <1>5 DEF PartIsSound

LEMMA ExportsSound == ASSUME ExportInv PROVE ExportsAreSound
  <1>0. transcript \in Seq(Paragraphs) /\ DOMAIN transcript = 1 .. Len(transcript)
    BY DEF ExportInv
  <1>1. SubtitlesAreSound
    <2> SUFFICES ASSUME "parts" \in DOMAIN exported, NEW i \in DOMAIN transcript
                 PROVE  PartIsSound(transcript[i].children, exported.parts[i], exported.limit)
      BY DEF SubtitlesAreSound
    <2>1. PICK limit \in LineLimits, kind \in {"subtitles", "error"} :
            exported = [kind |-> kind, parts |-> GenerateWebVtt(transcript, limit), limit |-> limit]
      <3>1. exported # NoFile
        BY DEF NoFile
      <3>2. ASSUME NEW names, NEW times, NEW kind, NEW lines,
                   exported = [kind |-> kind, names |-> names, lines |-> lines]
            PROVE  FALSE
        BY <3>2
      <3> QED BY <3>1, <3>2 DEF ExportInv, ExportedInv
    <2> DEFINE spoken == transcript[i].children
    <2>2. spoken \in Seq(Atoms) /\ limit \in Nat
      BY <1>0, ParagraphType, ExportAssumption
    <2>3. exported.limit = limit /\ exported.parts[i] =
            IF spoken = <<>> THEN [timed |-> TRUE, cues |-> <<>>] ELSE ParagraphToCues(spoken, limit)
      BY <2>1 DEF GenerateWebVtt
    <2> HIDE DEF spoken
    <2>4. PartIsSound(spoken, exported.parts[i], limit)
      <3>1. CASE spoken = <<>>
        BY <2>3, <3>1, NoneIsSound
      <3>2. CASE spoken # <<>>
        BY <2>2, <2>3, <3>2, ParagraphIsSound
      <3> QED BY <3>1, <3>2
    <2> QED BY <2>3, <2>4 DEF spoken
  <1>2. PlaintextTellsSpeakers
    <2> SUFFICES ASSUME exported.kind = "txt", exported.names
                 PROVE  PlaintextTellsSpeakers
      BY DEF PlaintextTellsSpeakers
    <2> DEFINE lines == exported.lines
    <2>1. PICK times \in BOOLEAN : lines = GeneratePlaintext(transcript, TRUE, times)
      <3>1. exported # NoFile
        BY DEF NoFile
      <3>2. ASSUME NEW parts, NEW limit, NEW kind \in {"subtitles", "error"},
                   exported = [kind |-> kind, parts |-> parts, limit |-> limit]
            PROVE  FALSE
        BY <3>2
      <3>3. PICK names \in BOOLEAN, times \in BOOLEAN, kind \in {"txt", "error"} :
              exported = [kind |-> kind, names |-> names, lines |-> GeneratePlaintext(transcript, names, times)]
        BY <3>1, <3>2 DEF ExportInv, ExportedInv
      <3>4. names = TRUE /\ lines = GeneratePlaintext(transcript, names, times)
        BY <3>3
      <3> QED BY <3>4
    <2> HIDE DEF lines
    <2>2. ASSUME NEW i \in DOMAIN transcript, transcript[i].children # <<>>
          PROVE  \E p \in DOMAIN lines :
                   /\ lines[p] = <<"text", i>>
                   /\ LET names == {q \in 1 .. p : lines[q][1] = "name"}
                      IN  IF names = {} THEN transcript[i].speaker = "null"
                          ELSE lines[CHOOSE q \in names : \A r \in names : r <= q][2] = transcript[i].speaker
      <3>1. PICK p \in 1 .. Len(lines) : /\ lines[p] = <<"text", i>>
                                         /\ Tells(lines, p, "null", transcript[i].speaker)
                                         /\ p \in DOMAIN lines
        BY <1>0, <2>1, <2>2, PlaintextIsSound
      <3>2. p \in Nat
        OBVIOUS
      <3> QED BY <3>1, <3>2, LastNameFound
    <2> QED BY <2>2 DEF PlaintextTellsSpeakers, lines
  <1> QED BY <1>1, <1>2 DEF ExportsAreSound, ExportInv

LEMMA ExportInvCorrect == ExportSpec => []ExportInv
  BY ExportInvAtStart, ExportInvStep, PTL DEF ExportSpec

\* The exports hold what the transcript says, whatever the times and lengths of
\* its atoms and however long it is, and in whatever order answers come.
THEOREM ExportsAreSoundCorrect == ExportSpec => []ExportsAreSound
  BY ExportInvCorrect, ExportsSound, PTL

-----------------------------------------------------------------------------
(* The parts together: what is done to one leaves the others alone.         *)

LEMMA PartsStart ==
  ClientInit => /\ PlayerInit /\ EditingInit /\ ExportInit
                /\ WidgetsInit /\ WebInit /\ ProgressInit
  BY DEF ClientInit

LEMMA PartsStep ==
  [ClientNext]_clientVars =>
    /\ [PlayerNext]_playerVars /\ [EditingNext]_editingVars /\ [ExportNext]_exportVars
    /\ [WidgetsNext]_widget /\ [WebNext]_webVars /\ [ProgressNext]_progressVars
  BY DEF ClientNext, clientVars

LEMMA PartsFollow ==
  ClientSpec => /\ PlayerSpec /\ EditingSpec /\ ExportSpec
                /\ WidgetsSpec /\ WebSpec /\ ProgressSpec
  BY PartsStart, PartsStep, PTL
     DEF ClientSpec, PlayerSpec, EditingSpec, ExportSpec, WidgetsSpec, WebSpec, ProgressSpec

\* Every part of the interface keeps to its types, for any number of
\* requests, edits, presses and events.
THEOREM ClientTypeCorrect == ClientSpec => []ClientTypeOK
  <1>1. PlayerTypeOK /\ EditingTypeOK /\ ExportTypeOK /\ WidgetsInv /\ WebTypeOK /\ ProgressInv
          => ClientTypeOK
    BY WidgetsTyped, ProgressTyped DEF ClientTypeOK
  <1> QED BY <1>1, PartsFollow, PlayerTypeCorrect, EditingTypeCorrect, ExportTypeCorrect,
             WidgetsInvCorrect, WebTypeCorrect, ProgressInvCorrect, PTL

\* Delayed parts settle as the last click wants it, whatever the order of timers; only
\* timers that met another press and modals opened while another fades do not; and
\* what is said to be done or failed is, whatever the number of steps.
THEOREM PartsTellTruthCorrect == ClientSpec => []PartsTellTruth
  <1>1. WidgetsInv /\ ProgressInv => PartsTellTruth
    BY WidgetsAreSettled, ProgressIsTrue DEF PartsTellTruth
  <1> QED BY <1>1, PartsFollow, WidgetsInvCorrect, ProgressInvCorrect, PTL

=============================================================================
