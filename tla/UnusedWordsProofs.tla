------------------------- MODULE UnusedWordsProofs -------------------------
(***************************************************************************)
(* That the removal of unused words is right for every program: whatever   *)
(* the code that stays refers to stays, the walk finds what it looks for,  *)
(* and nothing stays that main does not reach.                             *)
(***************************************************************************)
EXTENDS UnusedWords, SequenceTheorems, TLAPS

\* A reference, and the first n references of a body, have been met.
Met(r, uw, us) == IF r.string THEN r.id \in us ELSE r.id \in uw
Covered(uw, us, who, n) == \A k \in 1 .. n : Met(geninfo.refs[who][k], uw, us)

\* The bodies that the ids met so far call for.
Live == {Main} \cup {w \in Functions(geninfo) : geninfo.id[w] \in used_words}

\* A body that is called for is being walked, or has been.
WalkedOrActive ==
  pc = "walk" =>
    \A who \in Live :
      \/ Covered(used_words, used_strings, who, Len(geninfo.refs[who]))
      \/ \E k \in DOMAIN frames : frames[k].who = who

\* Only what every closed set holds has been met or is being walked.
MetIsReachable ==
  \A S \in SUBSET Nat :
    Closed(geninfo, S) =>
      /\ used_words \subseteq S
      /\ \A k \in DOMAIN frames : frames[k].who = Main \/ geninfo.id[frames[k].who] \in S

ActiveKept == \A k \in DOMAIN frames : frames[k].who \in Kept_Bodies
ActiveCovered ==
  \A k \in DOMAIN frames : Covered(used_words, used_strings, frames[k].who, frames[k].pos)

\* The inductive invariant: NothingMissing says nothing of the walk under way,
\* whose progress is what makes the next removal safe.
IInv ==
  /\ TypeOK
  /\ Resolved(geninfo)
  /\ ActiveKept
  /\ ActiveCovered
  /\ Functions_Alone(geninfo) => WalkedOrActive
  /\ NothingUsedErased
  /\ MetIsReachable
  /\ OnlyReachableKept

FrameType == [who : Names \cup {Main}, pos : Nat]

-----------------------------------------------------------------------------
\* What the walk is about to do: its top frame, and the reference under it.
LEMMA TopFrame ==
  ASSUME TypeOK, Walking
  PROVE  /\ Len(frames) \in Nat \ {0}
         /\ Len(frames) \in DOMAIN frames
         /\ Top = frames[Len(frames)]
         /\ Top \in FrameType
         /\ Refs(Top.who) \in Seq(Reference)
         /\ Top.pos \in 0 .. Len(Refs(Top.who))
         /\ Len(Refs(Top.who)) \in Nat
<1> USE DEF TypeOK, Walking, Top, FrameType
<1>1. frames \in Seq(FrameType) /\ frames # <<>>
  BY DEF FrameType
<1>2. Len(frames) \in Nat \ {0} /\ Len(frames) \in 1 .. Len(frames) /\ DOMAIN frames = 1 .. Len(frames)
  BY <1>1, EmptySeq, LenProperties
<1>3. Top \in FrameType
  BY <1>1, <1>2, ElementOfSeq
<1>4. Refs(Top.who) \in Seq(Reference)
  BY <1>3 DEF Program, Refs
<1>5. Len(Refs(Top.who)) \in Nat
  BY <1>4, LenProperties
<1>6. Top.pos <= Len(Refs(Top.who))
  BY <1>2
<1> QED
  BY <1>2, <1>3, <1>4, <1>5, <1>6

\* The reference under the walk.
LEMMA NextRef ==
  ASSUME TypeOK, Walking, ~At_End
  PROVE  /\ Top.pos + 1 \in 1 .. Len(Refs(Top.who))
         /\ Ref = Refs(Top.who)[Top.pos + 1]
         /\ Ref \in Reference
         /\ Ref.id \in Nat
         /\ ~Ref.string => Ref.id \in Word_Ids(geninfo, Top.who)
<1>1. Top.pos + 1 \in 1 .. Len(Refs(Top.who))
  BY TopFrame DEF At_End, FrameType
<1>2. Ref \in Reference
  BY <1>1, TopFrame, ElementOfSeq DEF Ref
<1>3. DOMAIN Refs(Top.who) = 1 .. Len(Refs(Top.who))
  BY TopFrame, LenProperties
<1>4. Ref = Refs(Top.who)[Top.pos + 1]
  BY Zenon DEF Ref
<1>5. Ref.id \in Nat
  BY <1>2 DEF Reference
<1>6. ASSUME ~Ref.string PROVE Ref.id \in Word_Ids(geninfo, Top.who)
  <2>1. Refs(Top.who) = geninfo.refs[Top.who]
    BY Zenon DEF Refs
  <2>2. PICK k : k = Top.pos + 1
    OBVIOUS
  <2>3. k \in DOMAIN geninfo.refs[Top.who] /\ Ref = geninfo.refs[Top.who][k]
    BY ONLY <1>1, <1>3, <1>4, <2>1, <2>2, Zenon
  <2> QED
    BY ONLY <1>6, <2>3, Zenon DEF Word_Ids
<1> QED
  BY <1>1, <1>2, <1>4, <1>5, <1>6, Zenon

\* The walk moves past one reference.
LEMMA AdvancedFrames ==
  ASSUME TypeOK, Walking, ~At_End
  PROVE  /\ Advanced \in Seq(FrameType)
         /\ Len(Advanced) = Len(frames)
         /\ DOMAIN Advanced = DOMAIN frames
         /\ \A k \in DOMAIN frames : Advanced[k].who = frames[k].who
         /\ \A k \in DOMAIN frames : k # Len(frames) => Advanced[k] = frames[k]
         /\ Advanced[Len(frames)].pos = Top.pos + 1
<1>1. frames \in Seq(FrameType) /\ Len(frames) \in 1 .. Len(frames)
  BY TopFrame, LenProperties DEF TypeOK, FrameType
<1>2. Frame(Top.who, Top.pos + 1) \in FrameType
  BY TopFrame DEF FrameType, Frame
<1>3. Advanced \in Seq(FrameType) /\ Len(Advanced) = Len(frames)
  BY <1>1, <1>2, ExceptSeq DEF Advanced
<1>4. DOMAIN frames = 1 .. Len(frames) /\ DOMAIN Advanced = 1 .. Len(frames)
  BY <1>1, <1>3, LenProperties
<1> QED
  BY <1>1, <1>3, <1>4 DEF Advanced, Frame, Top

\* The frames stay well formed when the walk moves on, ...
LEMMA AdvancedType ==
  ASSUME TypeOK, Walking, ~At_End
  PROVE  \A k \in DOMAIN frames : Advanced[k].pos <= Len(Refs(Advanced[k].who))
<1> SUFFICES ASSUME NEW k \in DOMAIN frames PROVE Advanced[k].pos <= Len(Refs(Advanced[k].who))
  OBVIOUS
<1>1. CASE k # Len(frames)
  BY <1>1, AdvancedFrames DEF TypeOK
<1>2. CASE k = Len(frames)
  BY <1>2, AdvancedFrames, NextRef, TopFrame
<1> QED
  BY <1>1, <1>2

\* ... and cover what they covered, with the reference just met.
LEMMA AdvancedCovered ==
  ASSUME TypeOK, Walking, ~At_End, ActiveCovered, NEW uw, NEW us,
         used_words \subseteq uw, used_strings \subseteq us, Met(Ref, uw, us)
  PROVE  \A k \in DOMAIN frames : Covered(uw, us, Advanced[k].who, Advanced[k].pos)
<1> SUFFICES ASSUME NEW k \in DOMAIN frames
             PROVE  Covered(uw, us, Advanced[k].who, Advanced[k].pos)
  OBVIOUS
<1>1. Covered(uw, us, frames[k].who, frames[k].pos)
  BY DEF ActiveCovered, Covered, Met
<1>2. CASE k # Len(frames)
  BY <1>1, <1>2, AdvancedFrames
<1>3. CASE k = Len(frames)
  <2>1. /\ Covered(uw, us, Top.who, Top.pos) /\ Top.pos \in Nat
        /\ Ref = geninfo.refs[Top.who][Top.pos + 1]
    BY <1>1, <1>3, TopFrame, NextRef DEF FrameType, Refs
  <2>2. Covered(uw, us, Top.who, Top.pos + 1)
    BY <2>1 DEF Covered
  <2> QED
    BY <1>3, <2>2, AdvancedFrames, TopFrame
<1> QED
  BY <1>2, <1>3

\* What a fully covered body refers to has been met.
LEMMA CoveredAll ==
  ASSUME TypeOK, NEW who \in Names \cup {Main},
         Covered(used_words, used_strings, who, Len(geninfo.refs[who]))
  PROVE  /\ Word_Ids(geninfo, who) \subseteq used_words
         /\ String_Ids(geninfo, who) \subseteq used_strings
<1>1. DOMAIN geninfo.refs[who] = 1 .. Len(geninfo.refs[who])
  BY LenProperties DEF TypeOK, Program
<1> QED
  BY <1>1 DEF Covered, Met, Word_Ids, String_Ids

\* A body keeps being walked, or having been, when the walk moves on.
LEMMA AdvancedWalked ==
  ASSUME TypeOK, Walking, ~At_End, WalkedOrActive, NEW who \in Live, NEW uw, NEW us,
         used_words \subseteq uw, used_strings \subseteq us
  PROVE  \/ Covered(uw, us, who, Len(geninfo.refs[who]))
         \/ \E k \in DOMAIN frames : Advanced[k].who = who
<1>1. CASE Covered(used_words, used_strings, who, Len(geninfo.refs[who]))
  BY <1>1 DEF Covered, Met
<1>2. CASE \E k \in DOMAIN frames : frames[k].who = who
  BY <1>2, AdvancedFrames
<1> QED
  BY <1>1, <1>2 DEF WalkedOrActive, Walking

-----------------------------------------------------------------------------
\* The walk starts in main with nothing visited: the inductive invariant holds.
LEMMA InitIInv == Init => IInv
<1> SUFFICES ASSUME Init PROVE IInv
  OBVIOUS
<1> USE DEF Init
<1>1. geninfo \in Program /\ Resolved(geninfo)
  BY ProgramsAssumption
<1>2. frames \in Seq(FrameType) /\ Len(frames) = 1 /\ frames[1] = Frame(Main, 0) /\ DOMAIN frames = {1}
  BY DEF FrameType, Frame
<1>3. Len(Refs(Main)) \in Nat
  BY <1>1, LenProperties DEF Program, Refs
<1>4. TypeOK
  <2>1. \A k \in DOMAIN frames : frames[k].pos <= Len(Refs(frames[k].who))
    BY <1>2, <1>3 DEF Frame
  <2>2. removed \in BOOLEAN /\ pc \in {"walk", "returned"}
    OBVIOUS
  <2> QED
    BY <1>1, <1>2, <2>1, <2>2 DEF TypeOK, FrameType
<1>5. ActiveKept /\ ActiveCovered
  BY <1>2 DEF ActiveKept, ActiveCovered, Kept_Bodies, Covered, Frame
<1>6. WalkedOrActive
  BY <1>2 DEF WalkedOrActive, Live, Frame
<1>7. NothingUsedErased
  BY DEF NothingUsedErased, NothingMissing
<1>8. MetIsReachable
  BY <1>2 DEF MetIsReachable, Frame
<1>9. OnlyReachableKept
  BY DEF OnlyReachableKept
<1> QED
  BY <1>1, <1>4, <1>5, <1>6, <1>7, <1>8, <1>9 DEF IInv
-----------------------------------------------------------------------------
(* The steps of the walk.  What they share: the program and its tables stay *)
(* the same, more is used, and the frames below the top do not move.        *)

\* Visiting a string literal preserves the inductive invariant.
LEMMA StepVisitString == IInv /\ Visit_String => IInv'
<1> SUFFICES ASSUME IInv, Visit_String PROVE IInv'
  OBVIOUS
<1> USE DEF IInv
<1>0. TypeOK /\ Walking /\ ~At_End
  BY DEF Visit_String
<1>1. /\ UNCHANGED <<geninfo, words, strings, used_words, removed, pc>>
      /\ used_strings' = used_strings \cup {Ref.id}
      /\ frames' = Advanced
  BY DEF Visit_String
<1>2. TypeOK'
  BY <1>0, <1>1, AdvancedFrames, AdvancedType, NextRef DEF TypeOK, FrameType, Refs
<1>3. ActiveKept'
  BY <1>0, <1>1, AdvancedFrames DEF ActiveKept, Kept_Bodies
<1>4. ActiveCovered'
  <2>1. Met(Ref, used_words, used_strings')
    BY <1>1 DEF Met, Visit_String
  <2>2. \A k \in DOMAIN frames :
          Covered(used_words, used_strings', Advanced[k].who, Advanced[k].pos)
    BY <1>0, <1>1, <2>1, AdvancedCovered
  <2> QED
    BY <1>0, <1>1, <2>2, AdvancedFrames DEF ActiveCovered, Covered
<1>5. (Functions_Alone(geninfo) => WalkedOrActive)'
  <2> SUFFICES ASSUME WalkedOrActive PROVE WalkedOrActive'
    BY <1>1 DEF Functions_Alone
  <2>1. \A who \in Live :
          \/ Covered(used_words, used_strings', who, Len(geninfo.refs[who]))
          \/ \E k \in DOMAIN frames : Advanced[k].who = who
    BY <1>0, <1>1, AdvancedWalked
  <2> QED
    BY <1>0, <1>1, <2>1, AdvancedFrames DEF WalkedOrActive, Live, Covered
<1>6. NothingUsedErased' /\ OnlyReachableKept'
  BY <1>1 DEF NothingUsedErased, NothingMissing, Kept_Bodies, OnlyReachableKept
<1>7. MetIsReachable'
  BY <1>0, <1>1, AdvancedFrames DEF MetIsReachable
<1> QED
  BY <1>1, <1>2, <1>3, <1>4, <1>5, <1>6, <1>7

\* Passing a word that was visited before preserves the inductive invariant.
LEMMA StepVisitKnownWord == IInv /\ Visit_Known_Word => IInv'
<1> SUFFICES ASSUME IInv, Visit_Known_Word PROVE IInv'
  OBVIOUS
<1> USE DEF IInv
<1>0. TypeOK /\ Walking /\ ~At_End
  BY DEF Visit_Known_Word
<1>1. /\ UNCHANGED <<geninfo, words, strings, used_words, used_strings, removed, pc>>
      /\ frames' = Advanced
  BY DEF Visit_Known_Word
<1>2. TypeOK'
  BY <1>0, <1>1, AdvancedFrames, AdvancedType, SMTT(30) DEF TypeOK, FrameType, Refs
<1>3. ActiveKept'
  BY <1>0, <1>1, AdvancedFrames DEF ActiveKept, Kept_Bodies
<1>4. ActiveCovered'
  <2>1. Met(Ref, used_words, used_strings)
    BY DEF Met, Visit_Known_Word
  <2>2. \A k \in DOMAIN frames :
          Covered(used_words, used_strings, Advanced[k].who, Advanced[k].pos)
    BY <1>0, <2>1, AdvancedCovered
  <2> QED
    BY <1>0, <1>1, <2>2, AdvancedFrames DEF ActiveCovered, Covered
<1>5. (Functions_Alone(geninfo) => WalkedOrActive)'
  <2> SUFFICES ASSUME WalkedOrActive PROVE WalkedOrActive'
    BY <1>1 DEF Functions_Alone
  <2>1. \A who \in Live :
          \/ Covered(used_words, used_strings, who, Len(geninfo.refs[who]))
          \/ \E k \in DOMAIN frames : Advanced[k].who = who
    BY <1>0, AdvancedWalked
  <2> QED
    BY <1>0, <1>1, <2>1, AdvancedFrames DEF WalkedOrActive, Live, Covered
<1>6. NothingUsedErased' /\ OnlyReachableKept'
  BY <1>1 DEF NothingUsedErased, NothingMissing, Kept_Bodies, OnlyReachableKept
<1>7. MetIsReachable'
  BY <1>0, <1>1, AdvancedFrames DEF MetIsReachable
<1> QED
  BY <1>1, <1>2, <1>3, <1>4, <1>5, <1>6, <1>7

\* Where no function shares its id, the word found for the id of a function is
\* that function, and so its body is the one walked next.
LEMMA StepVisitNewWord == IInv /\ Visit_New_Word => IInv'
<1> SUFFICES ASSUME IInv, Visit_New_Word PROVE IInv'
  OBVIOUS
<1> USE DEF IInv
<1>0. TypeOK /\ Walking /\ ~At_End /\ ~Ref.string
  BY DEF Visit_New_Word
<1>1. /\ UNCHANGED <<geninfo, words, strings, used_strings, removed, pc>>
      /\ used_words' = used_words \cup {Ref.id}
  BY DEF Visit_New_Word
<1>2. PICK v \in With_Id(Ref.id) :
        frames' = IF geninfo.kind[v] = "Function" THEN Append(Advanced, Frame(v, 0))
                  ELSE Advanced
  BY DEF Visit_New_Word
<1>3. v \in words /\ v \in geninfo.words /\ v \in Names /\ geninfo.id[v] = Ref.id
  BY <1>0 DEF With_Id, TypeOK, Program
<1> DEFINE top == Len(frames) + 1
           isfun == geninfo.kind[v] = "Function"
<1>4. /\ Advanced \in Seq(FrameType) /\ DOMAIN Advanced = 1 .. Len(frames)
      /\ DOMAIN frames = 1 .. Len(frames) /\ Len(Advanced) = Len(frames)
      /\ Len(frames) \in Nat
  BY <1>0, AdvancedFrames, TopFrame, LenProperties DEF TypeOK, FrameType
<1>5. Frame(v, 0) \in FrameType
  BY <1>3 DEF Frame, FrameType
<1>6. /\ frames' \in Seq(FrameType)
      /\ DOMAIN frames' = IF isfun THEN 1 .. top ELSE 1 .. Len(frames)
      /\ \A k \in 1 .. Len(frames) : frames'[k] = Advanced[k]
      /\ isfun => frames'[top] = Frame(v, 0)
  <2>1. CASE isfun
    <3>1. frames' = Append(Advanced, Frame(v, 0))
      BY <1>2, <2>1
    <3>2. /\ Append(Advanced, Frame(v, 0)) \in Seq(FrameType)
          /\ Len(Append(Advanced, Frame(v, 0))) = top
          /\ \A k \in 1 .. Len(frames) : Append(Advanced, Frame(v, 0))[k] = Advanced[k]
          /\ Append(Advanced, Frame(v, 0))[top] = Frame(v, 0)
      BY <1>4, <1>5, AppendProperties
    <3> QED
      BY <2>1, <3>1, <3>2, LenProperties
  <2>2. CASE ~isfun
    BY <1>2, <1>4, <2>2
  <2> QED
    BY <2>1, <2>2
<1>7. ASSUME NEW k \in DOMAIN frames'
      PROVE  k \in DOMAIN frames \/ (isfun /\ k = top /\ frames'[k] = Frame(v, 0))
  BY <1>4, <1>6, <1>7
<1>8. Frame(v, 0).who = v /\ Frame(v, 0).pos = 0
  BY DEF Frame
<1>9. Len(Refs(v)) \in Nat
  BY <1>0, <1>3, LenProperties DEF Refs, TypeOK, Program
<1> HIDE DEF isfun
<1>10. TypeOK'
  <2>1. \A k \in DOMAIN frames' : frames'[k].pos <= Len(Refs(frames'[k].who))
    BY <1>0, <1>4, <1>6, <1>7, <1>8, <1>9, AdvancedType
  <2>2. Ref.id \in Nat
    BY <1>0, NextRef
  <2> QED
    BY <1>1, <1>6, <2>1, <2>2 DEF TypeOK, FrameType, Refs
<1>11. ActiveKept'
  <2>1. isfun => v \in Kept_Bodies
    BY <1>3 DEF Kept_Bodies, Functions, isfun
  <2> QED
    BY <1>0, <1>1, <1>4, <1>6, <1>7, <1>8, <2>1, AdvancedFrames DEF ActiveKept, Kept_Bodies
<1>12. ActiveCovered'
  <2>1. Met(Ref, used_words', used_strings)
    BY <1>0, <1>1 DEF Met
  <2>2. \A k \in DOMAIN frames :
          Covered(used_words', used_strings, Advanced[k].who, Advanced[k].pos)
    BY <1>0, <1>1, <2>1, AdvancedCovered
  <2>3. Covered(used_words', used_strings, v, 0)
    BY DEF Covered
  <2> QED
    BY <1>0, <1>1, <1>4, <1>6, <1>7, <1>8, <2>2, <2>3 DEF ActiveCovered, Covered
<1>13. (Functions_Alone(geninfo) => WalkedOrActive)'
  <2> SUFFICES ASSUME Functions_Alone(geninfo), WalkedOrActive, NEW who \in Live'
               PROVE  \/ Covered(used_words', used_strings, who, Len(geninfo.refs[who]))
                      \/ \E k \in DOMAIN frames' : frames'[k].who = who
    BY <1>1 DEF WalkedOrActive, Functions_Alone, Covered
  <2>1. CASE who \in Live
    <3>0. used_words \subseteq used_words' /\ used_strings \subseteq used_strings
      BY <1>1
    <3>1. \/ Covered(used_words', used_strings, who, Len(geninfo.refs[who]))
          \/ \E k \in DOMAIN frames : Advanced[k].who = who
      <4> HIDE DEF IInv
      <4> QED BY <1>0, <2>1, <3>0, AdvancedWalked
    <3> QED
      BY <1>4, <1>6, <3>1
  <2>2. CASE who \notin Live
    <3>1. who \in Functions(geninfo) /\ geninfo.id[who] = Ref.id
      BY <1>1, <2>2 DEF Live
    <3>2. v = who
      BY <1>3, <3>1 DEF Functions_Alone
    <3>3. isfun
      BY <3>1, <3>2 DEF Functions, isfun
    <3> QED
      BY <1>4, <1>6, <1>8, <3>2, <3>3
  <2> QED
    BY <2>1, <2>2
<1>14. NothingUsedErased' /\ OnlyReachableKept'
  BY <1>1 DEF NothingUsedErased, NothingMissing, Kept_Bodies, OnlyReachableKept
<1>15. MetIsReachable'
  <2> SUFFICES ASSUME NEW S \in SUBSET Nat, Closed(geninfo, S)
               PROVE  /\ used_words' \subseteq S
                      /\ \A k \in DOMAIN frames' :
                           frames'[k].who = Main \/ geninfo.id[frames'[k].who] \in S
    BY <1>1 DEF MetIsReachable, Closed
  <2>1. Top.who = Main \/ (Top.who \in Functions(geninfo) /\ geninfo.id[Top.who] \in S)
    BY <1>0, TopFrame DEF MetIsReachable, ActiveKept, Kept_Bodies
  <2>2. Ref.id \in S
    BY <1>0, <2>1, NextRef DEF Closed
  <2> QED
    BY <1>0, <1>1, <1>3, <1>4, <1>6, <1>7, <1>8, <2>2, AdvancedFrames DEF MetIsReachable
<1> QED
  BY <1>1, <1>10, <1>11, <1>12, <1>13, <1>14, <1>15

\* Returning from the body of a word preserves the inductive invariant.
LEMMA StepLeaveBody == IInv /\ Leave_Body => IInv'
<1> SUFFICES ASSUME IInv, Leave_Body PROVE IInv'
  OBVIOUS
<1> USE DEF IInv
<1>0. TypeOK /\ Walking /\ At_End
  BY DEF Leave_Body
<1>1. /\ UNCHANGED <<geninfo, words, strings, used_words, used_strings, removed, pc>>
      /\ frames' = SubSeq(frames, 1, Len(frames) - 1)
  BY DEF Leave_Body
<1>2. /\ frames \in Seq(FrameType) /\ Len(frames) \in Nat \ {0}
      /\ DOMAIN frames = 1 .. Len(frames)
  BY <1>0, TopFrame, LenProperties DEF TypeOK, FrameType
<1>3. /\ frames' \in Seq(FrameType)
      /\ DOMAIN frames' = 1 .. Len(frames) - 1
      /\ \A k \in 1 .. Len(frames) - 1 : k \in DOMAIN frames /\ frames'[k] = frames[k]
  <2>1. \A k \in 1 .. Len(frames) - 1 : frames[k] \in FrameType
    BY <1>2, ElementOfSeq
  <2>2. /\ SubSeq(frames, 1, Len(frames) - 1) \in Seq(FrameType)
        /\ Len(SubSeq(frames, 1, Len(frames) - 1)) = Len(frames) - 1
        /\ \A k \in 1 .. Len(frames) - 1 : SubSeq(frames, 1, Len(frames) - 1)[k] = frames[k]
    BY <1>2, <2>1, SubSeqProperties
  <2> QED
    BY <1>1, <1>2, <2>2, LenProperties
<1>4. TypeOK'
  BY <1>1, <1>3 DEF TypeOK, FrameType, Refs
<1>5. ActiveKept' /\ ActiveCovered'
  BY <1>1, <1>3 DEF ActiveKept, Kept_Bodies, ActiveCovered, Covered
<1>6. (Functions_Alone(geninfo) => WalkedOrActive)'
  <2> SUFFICES ASSUME WalkedOrActive, NEW who \in Live
               PROVE  \/ Covered(used_words, used_strings, who, Len(geninfo.refs[who]))
                      \/ \E k \in DOMAIN frames' : frames'[k].who = who
    BY <1>1 DEF WalkedOrActive, Functions_Alone, Live, Covered
  <2>1. Covered(used_words, used_strings, Top.who, Len(geninfo.refs[Top.who]))
    BY <1>0, TopFrame DEF ActiveCovered, At_End, Refs
  <2>2. CASE Covered(used_words, used_strings, who, Len(geninfo.refs[who]))
    BY <2>2
  <2>3. CASE \E k \in DOMAIN frames : frames[k].who = who
    <3>1. PICK k \in DOMAIN frames : frames[k].who = who
      BY <2>3
    <3>2. CASE k = Len(frames)
      BY <2>1, <3>1, <3>2 DEF Top
    <3>3. CASE k # Len(frames)
      <4>1. k \in 1 .. Len(frames) - 1
        BY <1>2, <3>3
      <4> QED
        BY <1>3, <3>1, <4>1
    <3> QED
      BY <3>2, <3>3
  <2> QED
    BY <1>0, <2>2, <2>3 DEF WalkedOrActive, Walking
<1>7. NothingUsedErased' /\ OnlyReachableKept'
  BY <1>1 DEF NothingUsedErased, NothingMissing, Kept_Bodies, OnlyReachableKept
<1>8. MetIsReachable'
  BY <1>1, <1>3 DEF MetIsReachable
<1> QED
  BY <1>1, <1>4, <1>5, <1>6, <1>7, <1>8

\* With no body being walked, every body called for is covered: the removal
\* keeps what the code that stays refers to.
LEMMA StepEraseUnused == IInv /\ Erase_Unused => IInv'
<1> SUFFICES ASSUME IInv, Erase_Unused PROVE IInv'
  OBVIOUS
<1> USE DEF IInv
<1>1. /\ UNCHANGED <<geninfo, used_words, used_strings, frames>>
      /\ words' = {w \in words : geninfo.kind[w] \in {"Function", "Array"} =>
                                    geninfo.id[w] \in used_words}
      /\ strings' = strings \cap used_strings
      /\ pc = "walk" /\ pc' = "returned" /\ frames = <<>>
  BY DEF Erase_Unused
<1>2. DOMAIN frames = {}
  BY <1>1
<1>3. TypeOK'
  <2>1. removed' \in BOOLEAN
    BY DEF Erase_Unused
  <2>2. words' \subseteq words /\ strings' \subseteq strings
    BY <1>1
  <2>3. words' \subseteq geninfo'.words /\ strings' \subseteq geninfo'.strings
    BY <1>1, <2>2 DEF TypeOK
  <2> QED
    BY <1>1, <2>1, <2>3 DEF TypeOK, Refs
<1>4. ActiveKept' /\ ActiveCovered' /\ (Functions_Alone(geninfo) => WalkedOrActive)'
  BY <1>1, <1>2 DEF ActiveKept, ActiveCovered, WalkedOrActive
<1>5. NothingUsedErased'
  <2> SUFFICES ASSUME Functions_Alone(geninfo), NEW who \in Kept_Bodies'
               PROVE  /\ \A w \in geninfo.words :
                           geninfo.id[w] \in Word_Ids(geninfo, who) => w \in words'
                      /\ String_Ids(geninfo, who) \cap geninfo.strings \subseteq strings'
    <3>1. geninfo' = geninfo
      BY <1>1
    <3> QED
      BY <3>1, Zenon DEF NothingUsedErased, NothingMissing
  <2>1. who \in Kept_Bodies /\ who \in Live /\ who \in Names \cup {Main}
    BY <1>1 DEF Kept_Bodies, Live, Functions, TypeOK, Program
  <2>2. Covered(used_words, used_strings, who, Len(geninfo.refs[who]))
    BY <1>1, <1>2, <2>1 DEF WalkedOrActive
  <2>3. Word_Ids(geninfo, who) \subseteq used_words /\ String_Ids(geninfo, who) \subseteq used_strings
    BY <2>1, <2>2, CoveredAll
  <2> QED
    BY <1>1, <2>1, <2>3 DEF NothingUsedErased, NothingMissing
<1>6. MetIsReachable'
  BY <1>1, <1>2 DEF MetIsReachable
<1>7. OnlyReachableKept'
  <2> SUFFICES ASSUME NEW S \in SUBSET {geninfo.id[w] : w \in geninfo.words}, Closed(geninfo, S),
                      NEW w \in words', geninfo.kind[w] \in {"Function", "Array"}
               PROVE  geninfo.id[w] \in S
    BY <1>1, SMTT(30) DEF OnlyReachableKept, Closed
  <2>1. S \in SUBSET Nat
    BY DEF TypeOK, Program
  <2> QED
    BY <1>1, <2>1 DEF MetIsReachable
<1> QED
  BY <1>1, <1>3, <1>4, <1>5, <1>6, <1>7

\* Starting the next walk preserves the inductive invariant.
LEMMA StepCallAgain == IInv /\ Call_Again => IInv'
<1> SUFFICES ASSUME IInv, Call_Again PROVE IInv'
  OBVIOUS
<1> USE DEF IInv, Call_Again
<1>1. /\ frames' \in Seq(FrameType) /\ Len(frames') = 1
      /\ frames'[1] = Frame(Main, 0) /\ DOMAIN frames' = {1}
  BY DEF FrameType, Frame
<1>2. Len(Refs(Main)) \in Nat
  BY LenProperties DEF TypeOK, Program, Refs
<1>3. TypeOK'
  <2>1. \A k \in DOMAIN frames' : frames'[k].pos <= Len(Refs(frames'[k].who))
    BY <1>1, <1>2 DEF Frame
  <2> QED
    BY <1>1, <2>1 DEF TypeOK, FrameType, Refs
<1>4. ActiveKept' /\ ActiveCovered'
  BY <1>1 DEF ActiveKept, ActiveCovered, Kept_Bodies, Covered, Frame
<1>5. WalkedOrActive'
  BY <1>1 DEF WalkedOrActive, Live, Frame
<1>6. NothingUsedErased' /\ OnlyReachableKept'
  BY DEF NothingUsedErased, NothingMissing, Kept_Bodies, OnlyReachableKept
<1>7. MetIsReachable'
  BY <1>1 DEF MetIsReachable, Frame
<1> QED
  BY <1>3, <1>4, <1>5, <1>6, <1>7

-----------------------------------------------------------------------------
\* The invariant is inductive and holds in every state of the pass.
THEOREM Invariance == Spec => []IInv
<1>1. IInv /\ [Next]_vars => IInv'
  <2> SUFFICES ASSUME IInv, [Next]_vars PROVE IInv'
    OBVIOUS
  <2>1. CASE UNCHANGED vars
    <3>1. /\ geninfo' = geninfo /\ words' = words /\ strings' = strings
          /\ used_words' = used_words /\ used_strings' = used_strings
          /\ frames' = frames /\ removed' = removed /\ pc' = pc
      BY <2>1, Zenon DEF vars
    <3>2. TypeOK'
      BY <3>1, Zenon DEF IInv, TypeOK, Refs
    <3>3. ActiveKept' /\ ActiveCovered'
      BY <3>1, Zenon DEF IInv, ActiveKept, ActiveCovered, Covered, Kept_Bodies
    <3>4. (Functions_Alone(geninfo) => WalkedOrActive)'
      BY <3>1, Zenon DEF IInv, WalkedOrActive, Covered, Live
    <3>5. NothingUsedErased'
      BY <3>1, Zenon DEF IInv, NothingUsedErased, NothingMissing, Kept_Bodies
    <3>6. MetIsReachable'
      <4>1. MetIsReachable
        BY Zenon DEF IInv
      <4> QED
        BY ONLY <3>1, <4>1, Zenon DEF MetIsReachable
    <3>7. OnlyReachableKept'
      <4>1. OnlyReachableKept
        BY Zenon DEF IInv
      <4> QED
        <5>1. SUFFICES ASSUME pc' = "returned",
                              NEW S \in SUBSET {geninfo'.id[w] : w \in geninfo'.words},
                              Closed(geninfo', S),
                              NEW w \in words', geninfo'.kind[w] \in {"Function", "Array"}
                       PROVE  geninfo'.id[w] \in S
          BY Zenon DEF OnlyReachableKept
        <5>2. S \in SUBSET {geninfo.id[v] : v \in geninfo.words}
          BY ONLY <3>1, <5>1, Zenon
        <5> QED
          BY ONLY <3>1, <4>1, <5>1, <5>2, Zenon DEF OnlyReachableKept
    <3> QED
      BY <3>1, <3>2, <3>3, <3>4, <3>5, <3>6, <3>7, Zenon DEF IInv
  <2> QED
    BY <2>1, StepVisitString, StepVisitKnownWord, StepVisitNewWord, StepLeaveBody,
       StepEraseUnused, StepCallAgain DEF Next
<1> QED
  BY <1>1, InitIInv, PTL DEF Spec

\* remove_unused_words_and_strings removes nothing that main or a function that
\* stays refers to, in any program in which no function has the id of another
\* word.
THEOREM NothingUsedErasedHolds == Spec => []NothingUsedErased
BY Invariance, PTL DEF IInv

\* What stays is reachable from main, whatever the ids: what a call of the
\* pass leaves behind, another has no reason to remove.
THEOREM OnlyReachableKeptHolds == Spec => []OnlyReachableKept
BY Invariance, PTL DEF IInv

\* The assertion in the walk holds in every call of the pass, in a program no
\* function of which shares its id with another word.
THEOREM WordFoundHolds == Spec => []WordFound
<1>1. IInv => WordFound
  <2> SUFFICES ASSUME IInv, Functions_Alone(geninfo), Walking, ~At_End, ~Ref.string
               PROVE  With_Id(Ref.id) # {}
    BY DEF WordFound
  <2>1. Top.who \in Kept_Bodies /\ Ref.id \in Word_Ids(geninfo, Top.who)
    BY TopFrame, NextRef DEF IInv, ActiveKept
  <2>2. PICK w \in geninfo.words : geninfo.id[w] = Ref.id
    BY <2>1 DEF IInv, Resolved, Kept_Bodies
  <2>3. w \in words
    BY <2>1, <2>2 DEF IInv, NothingUsedErased, NothingMissing
  <2> QED
    BY <2>2, <2>3 DEF With_Id
<1> QED
  BY <1>1, Invariance, PTL
=============================================================================
