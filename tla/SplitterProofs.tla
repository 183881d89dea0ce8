--------------------------- MODULE SplitterProofs ---------------------------
(***************************************************************************)
(* A token cut into pieces and joined again, for any tokens, any number and *)
(* length of cookies, and any number of requests at a time.                 *)
(***************************************************************************)
EXTENDS CookieSplitter, SequenceTheorems, WellFoundedInduction, TLAPS

Characters == UNION {Range(v) : v \in Values}

LEMMA ValuesAreSequences == Values \subseteq Seq(Characters)
<1> SUFFICES ASSUME NEW v \in Values
             PROVE  v \in Seq(Characters)
  OBVIOUS
<1>1. v \in Seq(Range(v)) /\ Range(v) \subseteq Characters
  BY SplitterAssumption DEF Characters
<1> QED BY <1>1, SeqMonotonic

LEMMA LeastIndex ==
    ASSUME NEW S, S \subseteq Nat, S # {}
    PROVE  \E m \in S : \A k \in S : ~(k < m)
<1>1. PICK m \in S : \A k \in S : ~(<<k, m>> \in OpToRel(<, Nat))
  BY NatLessThanWellFounded, WFMin, Zenon
<1>2. \A k \in S : ~(k < m)
  BY <1>1 DEF OpToRel
<1> QED BY <1>2

(* The pieces joined, when it is known what each beginning of them joins to. *)
LEMMA JoinedPieces ==
    ASSUME NEW S, NEW n \in Nat \ {0},
           NEW pieces \in [1..n -> Seq(S)], NEW joined \in [1..n -> Seq(S)],
           joined[1] = pieces[1],
           \A i \in 2..n : joined[i] = joined[i - 1] \o pieces[i]
    PROVE  FlattenSeq(pieces) = joined[n]
<1> DEFINE Step(f) == [i \in 1..n |-> IF i = 1 THEN pieces[i] ELSE f[i - 1] \o pieces[i]]
           flat == CHOOSE f : f = Step(f)
<1>1. pieces \in Seq(Seq(S)) /\ Len(pieces) = n
  <2>1. pieces \in Seq(Seq(S))
    BY SeqDef
  <2>2. DOMAIN pieces = 1..Len(pieces) /\ Len(pieces) \in Nat
    BY <2>1, LenProperties
  <2> QED BY <2>1, <2>2
<1>2. joined = Step(joined)
  <2>1. ASSUME NEW i \in 1..n
        PROVE  joined[i] = IF i = 1 THEN pieces[i] ELSE joined[i - 1] \o pieces[i]
    <3>1. i = 1 \/ i \in 2..n
      OBVIOUS
    <3> QED BY <3>1
  <2> QED BY <2>1
<1>3. flat = Step(flat)
  <2>1. \E f : f = Step(f)
    BY <1>2
  <2> HIDE DEF Step
  <2> QED BY <2>1, Zenon
<1> HIDE DEF flat
<1>4. \A i \in 1..n : flat[i] = joined[i]
  <2> DEFINE T == {j \in 1..n : flat[j] # joined[j]}
  <2>1. SUFFICES ASSUME T # {}
                 PROVE  FALSE
    OBVIOUS
  <2>2. PICK i \in T : \A k \in T : ~(k < i)
    <3>1. T \subseteq Nat
      OBVIOUS
    <3> HIDE DEF T
    <3> QED BY <2>1, <3>1, LeastIndex
  <2>3. CASE i = 1
    BY <2>2, <2>3, <1>3
  <2>4. CASE i # 1
    <3>1. i - 1 \in 1..n /\ i \in 2..n /\ i - 1 < i
      BY <2>4
    <3>2. flat[i - 1] = joined[i - 1]
      BY <2>2, <3>1
    <3>3. flat[i] = flat[i - 1] \o pieces[i]
      BY <1>3, <2>4, <3>1
    <3> QED BY <2>2, <3>1, <3>2, <3>3
  <2> QED BY <2>3, <2>4
<1>5. FlattenSeq(pieces) = flat[n]
  BY <1>1, Zenon DEF FlattenSeq, flat
<1> QED BY <1>4, <1>5

-----------------------------------------------------------------------------
(* Where a value is cut.                                                    *)
LEMMA CutEnough ==
    ASSUME NEW v \in Values
    PROVE  /\ splitValueAt(v) \in Nat \ {0}
           /\ additionalCookies * splitValueAt(v) >= Len(v)
           /\ Fits(v) => splitValueAt(v) = maxLengthPerCookie
<1> DEFINE l == Len(v)
           n == additionalCookies
           m == maxLengthPerCookie
           q == Ceil(l, n)
<1>1. l \in Nat /\ n \in Nat \ {0} /\ m \in Nat \ {0}
  BY ValuesAreSequences, LenProperties, SplitterAssumption
<1>2. n * m \in Nat
  BY <1>1
<1>3. CASE l <= n * m
  <2>1. splitValueAt(v) = m
    BY <1>1, <1>2, <1>3 DEF splitValueAt
  <2> QED BY <1>1, <1>2, <1>3, <2>1
<1>4. CASE l > n * m
  <2>1. splitValueAt(v) = q /\ ~Fits(v)
    BY <1>1, <1>2, <1>4 DEF splitValueAt, Fits
  <2>2. q \in Nat /\ n * q >= l
    BY <1>1 DEF Ceil
  <2>3. l > 0
    BY <1>1, <1>2, <1>4
  <2>4. q # 0
    BY <1>1, <2>2, <2>3
  <2> QED BY <2>1, <2>2, <2>4
<1> QED BY <1>1, <1>2, <1>3, <1>4

(* The end of a piece: what has been joined up to it is the value up to there. *)
CutAt(v, i) == IF i * splitValueAt(v) < Len(v) THEN i * splitValueAt(v) ELSE Len(v)
PieceOf(v, i) == Substring(v, (i - 1) * splitValueAt(v), i * splitValueAt(v))

LEMMA CutsInOrder ==
    ASSUME NEW v \in Values, NEW i \in Nat \ {0}
    PROVE  /\ CutAt(v, i) \in 0..Len(v) /\ CutAt(v, i - 1) \in 0..CutAt(v, i)
           /\ (i - 1) * splitValueAt(v) \in Nat
           /\ CutAt(v, i - 1) = (i - 1) * splitValueAt(v) \/ (CutAt(v, i - 1) = CutAt(v, i)
                                                             /\ CutAt(v, i) <= (i - 1) * splitValueAt(v))
           /\ CutAt(v, i) - (i - 1) * splitValueAt(v) <= splitValueAt(v)
<1> DEFINE k == splitValueAt(v)
           l == Len(v)
<1>1. k \in Nat \ {0} /\ l \in Nat
  BY CutEnough, ValuesAreSequences, LenProperties
<1>2. i * k = (i - 1) * k + k /\ (i - 1) * k \in Nat
  BY <1>1
<1> DEFINE a == (i - 1) * k
           b == i * k
<1>3. a \in Nat /\ b = a + k
  BY <1>2
<1>4. CutAt(v, i - 1) = (IF a < l THEN a ELSE l) /\ CutAt(v, i) = (IF b < l THEN b ELSE l)
  BY DEF CutAt
<1> HIDE DEF a, b, k, l
<1>5. /\ CutAt(v, i) \in 0..l /\ CutAt(v, i - 1) \in 0..CutAt(v, i)
      /\ CutAt(v, i - 1) = a \/ (CutAt(v, i - 1) = CutAt(v, i) /\ CutAt(v, i) <= a)
      /\ CutAt(v, i) - a <= k
  BY <1>1, <1>3, <1>4
<1> QED BY <1>3, <1>5 DEF a, k, l

LEMMA CutSequence ==
    ASSUME NEW S, NEW v \in Seq(S), NEW to \in 0..Len(v), NEW from \in Nat,
           NEW before \in 0..to, before = from \/ (before = to /\ to <= from)
    PROVE  /\ SubSeq(v, from + 1, to) \in Seq(S)
           /\ Len(SubSeq(v, from + 1, to)) = IF from < to THEN to - from ELSE 0
           /\ SubSeq(v, 1, before) \o SubSeq(v, from + 1, to) = SubSeq(v, 1, to)
<1>1. Len(v) \in Nat /\ to \in Nat /\ before \in Nat
  BY LenProperties
<1>2. \A i \in (from + 1)..to : v[i] \in S
  BY <1>1, ElementOfSeq
<1>3. /\ SubSeq(v, from + 1, to) \in Seq(S)
      /\ Len(SubSeq(v, from + 1, to)) = IF from + 1 <= to THEN to - (from + 1) + 1 ELSE 0
  BY <1>1, <1>2, SubSeqProperties
<1>4. CASE before = from
  <2>1. SubSeq(v, 1, before) \o SubSeq(v, before + 1, to) = SubSeq(v, 1, to)
    BY <1>1, ConcatAdjacentSubSeq
  <2> QED BY <1>1, <1>3, <1>4, <2>1
<1>5. CASE before = to /\ to <= from
  <2>1. SubSeq(v, from + 1, to) = <<>>
    BY <1>1, <1>5, SubSeqEmpty
  <2>2. SubSeq(v, 1, to) \in Seq(S)
    BY <1>1, ElementOfSeq, SubSeqProperties
  <2>3. SubSeq(v, 1, to) \o <<>> = SubSeq(v, 1, to)
    BY <2>2, ConcatEmptySeq
  <2> QED BY <1>1, <1>3, <1>5, <2>1, <2>3
<1> QED BY <1>4, <1>5

LEMMA PieceProperties ==
    ASSUME NEW v \in Values, NEW i \in Pieces
    PROVE  /\ PieceOf(v, i) \in Seq(Characters)
           /\ Len(PieceOf(v, i)) <= splitValueAt(v)
           /\ SubSeq(v, 1, CutAt(v, i)) = SubSeq(v, 1, CutAt(v, i - 1)) \o PieceOf(v, i)
<1>1. /\ splitValueAt(v) \in Nat \ {0} /\ Len(v) \in Nat
      /\ v \in Seq(Characters) /\ i \in Nat \ {0}
  BY CutEnough, ValuesAreSequences, LenProperties, SplitterAssumption DEF Pieces
<1>2. PICK from \in Nat : from = (i - 1) * splitValueAt(v)
  BY <1>1, CutsInOrder
<1>3. PICK to \in 0..Len(v) : to = CutAt(v, i)
  BY <1>1, CutsInOrder
<1>4. PICK before \in 0..to : before = CutAt(v, i - 1)
  BY <1>1, <1>3, CutsInOrder
<1>5. (before = from \/ (before = to /\ to <= from)) /\ to - from <= splitValueAt(v)
  BY <1>1, <1>2, <1>3, <1>4, CutsInOrder
<1>6. PieceOf(v, i) = SubSeq(v, from + 1, to)
  BY <1>2, <1>3 DEF PieceOf, Substring, CutAt
<1>7. /\ SubSeq(v, from + 1, to) \in Seq(Characters)
      /\ Len(SubSeq(v, from + 1, to)) = IF from < to THEN to - from ELSE 0
      /\ SubSeq(v, 1, before) \o SubSeq(v, from + 1, to) = SubSeq(v, 1, to)
  BY <1>1, <1>5, CutSequence
<1>8. Len(PieceOf(v, i)) <= splitValueAt(v)
  BY <1>1, <1>5, <1>6, <1>7
<1> QED BY <1>3, <1>4, <1>6, <1>7, <1>8

(* Joining the pieces a value was cut into gives the value back.            *)
THEOREM SplitThenJoined ==
    ASSUME NEW v \in Values
    PROVE  FlattenSeq([i \in Pieces |-> splitValueIntoCookies(v)[i].value]) = v
<1> DEFINE n == additionalCookies
           pieces == [i \in Pieces |-> PieceOf(v, i)]
           joined == [i \in Pieces |-> SubSeq(v, 1, CutAt(v, i))]
<1>1. /\ n \in Nat \ {0} /\ Pieces = 1..n
      /\ v \in Seq(Characters) /\ Len(v) \in Nat /\ splitValueAt(v) \in Nat \ {0}
  BY CutEnough, ValuesAreSequences, LenProperties, SplitterAssumption DEF Pieces
<1>2. pieces \in [1..n -> Seq(Characters)]
  BY <1>1, PieceProperties
<1>3. joined \in [1..n -> Seq(Characters)]
  <2> SUFFICES ASSUME NEW i \in 1..n
               PROVE  SubSeq(v, 1, CutAt(v, i)) \in Seq(Characters)
    BY <1>1
  <2>1. i \in Nat \ {0}
    BY <1>1
  <2>2. CutAt(v, i) \in 0..Len(v)
    BY <2>1, CutsInOrder
  <2> QED BY <1>1, <2>2, ElementOfSeq, SubSeqProperties
<1>4. joined[1] = pieces[1]
  <2>1. CutAt(v, 1 - 1) = 0
    BY <1>1 DEF CutAt
  <2>2. SubSeq(v, 1, 0) = <<>>
    BY SubSeqEmpty
  <2>3. 1 \in Pieces
    BY <1>1
  <2>4. SubSeq(v, 1, CutAt(v, 1)) = SubSeq(v, 1, CutAt(v, 1 - 1)) \o PieceOf(v, 1)
    BY <2>3, PieceProperties
  <2>5. <<>> \o PieceOf(v, 1) = PieceOf(v, 1)
    BY <2>3, PieceProperties, ConcatEmptySeq
  <2> QED BY <2>1, <2>2, <2>3, <2>4, <2>5
<1>5. \A i \in 2..n : joined[i] = joined[i - 1] \o pieces[i]
  <2> SUFFICES ASSUME NEW i \in 2..n
               PROVE  joined[i] = joined[i - 1] \o pieces[i]
    OBVIOUS
  <2>1. i \in Pieces /\ i - 1 \in Pieces
    BY <1>1
  <2> QED BY <2>1, PieceProperties
<1>6. joined[n] = v
  <2>1. CutAt(v, n) = Len(v)
    BY <1>1, CutEnough DEF CutAt
  <2> QED BY <1>1, <2>1, SubSeqFull
<1>7. [i \in Pieces |-> splitValueIntoCookies(v)[i].value] = pieces
  BY DEF splitValueIntoCookies, Piece, PieceOf
<1> HIDE DEF pieces, joined, n
<1>8. FlattenSeq(pieces) = joined[n]
  BY <1>1, <1>2, <1>3, <1>4, <1>5, JoinedPieces
<1> QED BY <1>6, <1>7, <1>8

LEMMA NothingJoined ==
    ASSUME NEW empty \in [Pieces -> {<<>>}]
    PROVE  FlattenSeq(empty) = <<>>
<1>1. additionalCookies \in Nat \ {0} /\ Pieces = 1..additionalCookies
  BY SplitterAssumption DEF Pieces
<1>2. <<>> \in Seq(Characters) /\ <<>> \o <<>> = <<>>
  BY EmptySeq, ConcatEmptySeq
<1>3. \A i \in 1..additionalCookies : empty[i] = <<>>
  BY <1>1
<1>4. empty \in [1..additionalCookies -> Seq(Characters)]
  BY <1>1, <1>2
<1>5. \A i \in 2..additionalCookies : empty[i] = empty[i - 1] \o empty[i]
  <2> SUFFICES ASSUME NEW i \in 2..additionalCookies
               PROVE  empty[i] = empty[i - 1] \o empty[i]
    OBVIOUS
  <2>1. i \in 1..additionalCookies /\ i - 1 \in 1..additionalCookies
    BY <1>1
  <2> QED BY <1>2, <1>3, <2>1
<1>6. FlattenSeq(empty) = empty[additionalCookies]
  <2>1. empty[1] = empty[1]
    OBVIOUS
  <2> QED BY <1>1, <1>4, <1>5, <2>1, JoinedPieces
<1> QED BY <1>1, <1>3, <1>6

-----------------------------------------------------------------------------
(***************************************************************************)
(* The invariant: what each request has set is the whole of the value it     *)
(* stored last, or the clearing of just what it came with; and a request     *)
(* that has met no other came with what the browser still holds.            *)
(***************************************************************************)
Content == Seq(Characters)
Mark == [touched : BOOLEAN, value : Content]
Deeds == {Nothing, Mixed, Left(<<>>)} \cup {Left(v) : v \in Values}
AllUntouched == [i \in Pieces |-> Untouched]

SplitterTyped ==
    /\ browserPieces \in [Pieces -> Content]
    /\ active \subseteq Requests
    /\ state \in [Requests -> [Pieces -> Content]]
    /\ newer \in [Requests -> [Pieces -> Mark]]
    /\ ownSet \in [Requests -> Deeds]
    /\ lastLeft \in Deeds

SetOrCleared ==
    \A r \in Requests :
        /\ r \notin active => ownSet[r] = Nothing
        /\ ownSet[r] = Nothing => newer[r] = AllUntouched
        /\ ownSet[r] = Left(<<>>) =>
              newer[r] = [i \in Pieces |-> IF state[r][i] # <<>> THEN Piece(<<>>) ELSE Untouched]
        /\ \A v \in Values : ownSet[r] = Left(v) => newer[r] = splitValueIntoCookies(v)

AloneUpToDate == \A r \in undisturbed : active = {r} /\ state[r] = browserPieces

SplitterInv == SplitterTyped /\ SetOrCleared /\ AloneUpToDate /\ LeftWhole

LEMMA Marks ==
    /\ <<>> \in Content /\ Len(<<>>) = 0
    /\ Untouched \in Mark /\ Piece(<<>>) \in Mark
    /\ \A v \in Values : splitValueIntoCookies(v) \in [Pieces -> Mark]
    /\ <<>> \notin Values
<1>1. <<>> \in Content /\ Len(<<>>) = 0
  BY EmptySeq DEF Content
<1>2. ASSUME NEW v \in Values
      PROVE  splitValueIntoCookies(v) \in [Pieces -> Mark]
  BY PieceProperties DEF splitValueIntoCookies, Piece, PieceOf, Mark, Content
<1> QED BY <1>1, <1>2, SplitterAssumption DEF Untouched, Piece, Mark

LEMMA SplitterStart == SplitterInit => SplitterInv
<1> SUFFICES ASSUME SplitterInit
             PROVE  SplitterInv
  OBVIOUS
<1>1. SplitterTyped
  BY Marks DEF SplitterInit, SplitterTyped, Deeds
<1>2. SetOrCleared
  BY Marks DEF SplitterInit, SetOrCleared, AllUntouched, Nothing, Left
<1>3. AloneUpToDate
  BY DEF SplitterInit, AloneUpToDate
<1>4. LeftWhole
  <2>1. browserPieces \in [Pieces -> {<<>>}]
    BY DEF SplitterInit
  <2> QED BY <2>1, NothingJoined DEF SplitterInit, LeftWhole, Left
<1> QED BY <1>1, <1>2, <1>3, <1>4 DEF SplitterInv

LEMMA SendKeeps ==
    ASSUME SplitterInv, NEW r \in Requests, SendPieces(r)
    PROVE  SplitterInv'
<1> USE DEF SplitterInv
<1>1. SplitterTyped'
  BY DEF SendPieces, SplitterTyped
<1>2. SetOrCleared'
  <2>1. ownSet[r] = Nothing /\ newer[r] = AllUntouched
    BY DEF SendPieces, SetOrCleared
  <2>2. Nothing # Left(<<>>) /\ \A v \in Values : Nothing # Left(v)
    BY DEF Nothing, Left
  <2>3. \A q \in Requests : q # r => state'[q] = state[q] /\ (q \in active' <=> q \in active)
    BY DEF SendPieces, SplitterTyped
  <2> QED BY <2>1, <2>2, <2>3 DEF SendPieces, SetOrCleared
<1>3. AloneUpToDate'
  BY DEF SendPieces, AloneUpToDate, SplitterTyped
<1>4. LeftWhole'
  BY DEF SendPieces, LeftWhole
<1> QED BY <1>1, <1>2, <1>3, <1>4

LEMMA StoringKeeps ==
    ASSUME SplitterInv, NEW r \in Requests, NEW v \in Values, setExtraAuthStorage(r, v)
    PROVE  SplitterInv'
<1> USE DEF SplitterInv
<1>1. SplitterTyped'
  BY Marks DEF setExtraAuthStorage, SplitterTyped, Deeds
<1>2. SetOrCleared'
  <2>1. /\ Left(v) # Nothing /\ Left(v) # Left(<<>>)
        /\ \A w \in Values : Left(w) = Left(v) => w = v
    BY Marks DEF Nothing, Left
  <2>2. ownSet'[r] = Left(v) /\ newer'[r] = splitValueIntoCookies(v) /\ r \in active'
    BY DEF setExtraAuthStorage, SplitterTyped
  <2>3. \A q \in Requests : q # r => ownSet'[q] = ownSet[q] /\ newer'[q] = newer[q]
    BY DEF setExtraAuthStorage, SplitterTyped
  <2>4. UNCHANGED <<active, state>>
    BY DEF setExtraAuthStorage
  <2> QED BY <2>1, <2>2, <2>3, <2>4 DEF SetOrCleared
<1>3. AloneUpToDate'
  BY DEF setExtraAuthStorage, AloneUpToDate
<1>4. LeftWhole'
  BY DEF setExtraAuthStorage, LeftWhole
<1> QED BY <1>1, <1>2, <1>3, <1>4

LEMMA ClearingKeeps ==
    ASSUME SplitterInv, NEW r \in Requests, clearSplitCookies(r)
    PROVE  SplitterInv'
<1> USE DEF SplitterInv
<1> DEFINE unset == [i \in Pieces |-> IF state[r][i] # <<>> THEN Piece(<<>>) ELSE newer[r][i]]
<1>1. /\ newer' = [newer EXCEPT ![r] = unset]
      /\ ownSet' = [ownSet EXCEPT ![r] = Cleared(ownSet[r])]
      /\ UNCHANGED <<browserPieces, active, state, lastLeft, undisturbed>> /\ r \in active
  BY DEF clearSplitCookies
<1>2. Cleared(ownSet[r]) \in {Left(<<>>), Mixed}
  BY DEF Cleared
<1>3. unset \in [Pieces -> Mark]
  BY Marks DEF SplitterTyped
<1>4. SplitterTyped'
  <2> HIDE DEF unset
  <2> QED BY <1>1, <1>2, <1>3 DEF SplitterTyped, Deeds
<1>5. SetOrCleared'
  <2>1. /\ Left(<<>>) # Nothing /\ Mixed # Nothing /\ Mixed # Left(<<>>)
        /\ \A v \in Values : Left(v) # Left(<<>>) /\ Left(v) # Mixed
    BY Marks DEF Nothing, Left, Mixed
  <2>2. ASSUME Cleared(ownSet[r]) = Left(<<>>)
        PROVE  unset = [i \in Pieces |-> IF state[r][i] # <<>> THEN Piece(<<>>) ELSE Untouched]
    <3>1. ownSet[r] \in {Nothing, Left(<<>>)}
      BY <2>1, <2>2 DEF Cleared
    <3>2. \A i \in Pieces : state[r][i] = <<>> => newer[r][i] = Untouched
      BY <3>1 DEF SetOrCleared, AllUntouched
    <3> QED BY <3>2
  <2>3. ownSet'[r] = Cleared(ownSet[r]) /\ newer'[r] = unset
    BY <1>1 DEF SplitterTyped
  <2>4. \A q \in Requests : q # r => ownSet'[q] = ownSet[q] /\ newer'[q] = newer[q]
    BY <1>1 DEF SplitterTyped
  <2> HIDE DEF unset
  <2> QED BY <1>1, <1>2, <2>1, <2>2, <2>3, <2>4 DEF SetOrCleared
<1>6. AloneUpToDate'
  BY <1>1 DEF AloneUpToDate
<1>7. LeftWhole'
  BY <1>1 DEF LeftWhole
<1> QED BY <1>4, <1>5, <1>6, <1>7

(* Delivered or lost, a request is over and starts from nothing.             *)
LEMMA OverIsOver ==
    ASSUME SplitterInv, NEW r \in Requests, r \in active,
           active' = active \ {r},
           state' = [state EXCEPT ![r] = [i \in Pieces |-> <<>>]],
           newer' = [newer EXCEPT ![r] = AllUntouched],
           ownSet' = [ownSet EXCEPT ![r] = Nothing],
           undisturbed' = {}
    PROVE  /\ active' \subseteq Requests
           /\ state' \in [Requests -> [Pieces -> Content]]
           /\ newer' \in [Requests -> [Pieces -> Mark]]
           /\ ownSet' \in [Requests -> Deeds]
           /\ SetOrCleared' /\ AloneUpToDate'
<1> USE DEF SplitterInv
<1>1. AllUntouched \in [Pieces -> Mark] /\ [i \in Pieces |-> <<>>] \in [Pieces -> Content]
  BY Marks DEF AllUntouched
<1>2. /\ active' \subseteq Requests /\ state' \in [Requests -> [Pieces -> Content]]
      /\ newer' \in [Requests -> [Pieces -> Mark]] /\ ownSet' \in [Requests -> Deeds]
  BY <1>1 DEF SplitterTyped, Deeds
<1>3. SetOrCleared'
  <2>1. Nothing # Left(<<>>) /\ \A v \in Values : Nothing # Left(v)
    BY DEF Nothing, Left
  <2>2. ownSet'[r] = Nothing /\ newer'[r] = AllUntouched
    BY DEF SplitterTyped
  <2>3. \A q \in Requests : q # r =>
            /\ ownSet'[q] = ownSet[q] /\ newer'[q] = newer[q] /\ state'[q] = state[q]
            /\ q \in active' <=> q \in active
    BY DEF SplitterTyped
  <2> QED BY <2>1, <2>2, <2>3 DEF SetOrCleared
<1> QED BY <1>2, <1>3 DEF AloneUpToDate

LEMMA LosingKeeps ==
    ASSUME SplitterInv, NEW r \in Requests, LosePieces(r)
    PROVE  SplitterInv'
<1>1. /\ active' \subseteq Requests /\ state' \in [Requests -> [Pieces -> Content]]
      /\ newer' \in [Requests -> [Pieces -> Mark]] /\ ownSet' \in [Requests -> Deeds]
      /\ SetOrCleared' /\ AloneUpToDate'
  BY OverIsOver DEF LosePieces, AllUntouched
<1>2. UNCHANGED <<browserPieces, lastLeft>>
  BY DEF LosePieces
<1>3. SplitterTyped'
  BY <1>1, <1>2 DEF SplitterInv, SplitterTyped
<1>4. LeftWhole'
  BY <1>2 DEF SplitterInv, LeftWhole
<1> QED BY <1>1, <1>3, <1>4 DEF SplitterInv

(* What the browser holds when the answer of a request that stored, or cleared, *)
(* and met no other has arrived.                                             *)
LEMMA DeliveredWhole ==
    ASSUME SplitterInv, NEW r \in Requests, DeliverPieces(r), r \in undisturbed,
           newer[r] # AllUntouched, Fits(ownSet[r].value), ownSet[r].did = "left"
    PROVE  FlattenSeq(browserPieces') = ownSet[r].value
<1> USE DEF SplitterInv
<1>1. \A i \in Pieces : browserPieces'[i] =
          IF newer[r][i].touched /\ Len(newer[r][i].value) <= maxLengthPerCookie
          THEN newer[r][i].value ELSE browserPieces[i]
  BY DEF DeliverPieces
<1>2. DOMAIN browserPieces' = Pieces /\ browserPieces' = [i \in Pieces |-> browserPieces'[i]]
  BY DEF DeliverPieces
<1>3. ownSet[r] = Left(<<>>) \/ \E v \in Values : ownSet[r] = Left(v)
  <2>1. ownSet[r] # Nothing
    BY DEF SetOrCleared
  <2>2. ownSet[r] # Mixed
    BY DEF Mixed
  <2> QED BY <2>1, <2>2 DEF SplitterTyped, Deeds
<1>4. CASE ownSet[r] = Left(<<>>)
  <2>1. state[r] = browserPieces
    BY DEF AloneUpToDate
  <2>2. ASSUME NEW i \in Pieces
        PROVE  browserPieces'[i] = <<>>
    <3>1. newer[r][i] = IF browserPieces[i] # <<>> THEN Piece(<<>>) ELSE Untouched
      BY <1>4, <2>1 DEF SetOrCleared
    <3>2. Piece(<<>>).touched /\ Piece(<<>>).value = <<>> /\ ~Untouched.touched
      BY DEF Piece, Untouched
    <3>3. Len(<<>>) <= maxLengthPerCookie
      BY Marks, SplitterAssumption
    <3> QED BY <1>1, <3>1, <3>2, <3>3
  <2>3. browserPieces' \in [Pieces -> {<<>>}]
    BY <1>2, <2>2
  <2> QED BY <1>4, <2>3, NothingJoined DEF Left
<1>5. ASSUME NEW v \in Values, ownSet[r] = Left(v)
      PROVE  FlattenSeq(browserPieces') = v
  <2>1. newer[r] = splitValueIntoCookies(v) /\ splitValueAt(v) = maxLengthPerCookie
    <3>1. newer[r] = splitValueIntoCookies(v)
      BY <1>5 DEF SetOrCleared
    <3>2. Fits(v)
      BY <1>5 DEF Left
    <3> QED BY <3>1, <3>2, CutEnough
  <2>2. ASSUME NEW i \in Pieces
        PROVE  browserPieces'[i] = splitValueIntoCookies(v)[i].value
    <3>1. /\ newer[r][i].touched /\ newer[r][i].value = PieceOf(v, i)
          /\ splitValueIntoCookies(v)[i].value = PieceOf(v, i)
      BY <2>1 DEF splitValueIntoCookies, Piece, PieceOf
    <3>2. Len(PieceOf(v, i)) <= maxLengthPerCookie
      BY <2>1, PieceProperties
    <3> QED BY <1>1, <3>1, <3>2
  <2>3. browserPieces' = [i \in Pieces |-> splitValueIntoCookies(v)[i].value]
    BY <1>2, <2>2
  <2> QED BY <2>3, SplitThenJoined
<1>6. \A v \in Values : ownSet[r] = Left(v) => ownSet[r].value = v
  BY DEF Left
<1> QED BY <1>3, <1>4, <1>5, <1>6

LEMMA DeliveringKeeps ==
    ASSUME SplitterInv, NEW r \in Requests, DeliverPieces(r)
    PROVE  SplitterInv'
<1>1. /\ active' \subseteq Requests /\ state' \in [Requests -> [Pieces -> Content]]
      /\ newer' \in [Requests -> [Pieces -> Mark]] /\ ownSet' \in [Requests -> Deeds]
      /\ SetOrCleared' /\ AloneUpToDate'
  BY OverIsOver DEF DeliverPieces, AllUntouched
<1>2. lastLeft' = IF newer[r] = AllUntouched THEN lastLeft
              ELSE IF r \in undisturbed /\ Fits(ownSet[r].value) THEN ownSet[r] ELSE Mixed
  BY DEF DeliverPieces, AllUntouched
<1>3. SplitterTyped'
  <2>1. lastLeft' \in Deeds
    BY <1>2 DEF SplitterInv, SplitterTyped, Deeds
  <2>2. browserPieces' \in [Pieces -> Content]
    BY DEF DeliverPieces, SplitterInv, SplitterTyped, Mark
  <2> QED BY <1>1, <2>1, <2>2 DEF SplitterTyped
<1>4. LeftWhole'
  <2>1. CASE newer[r] = AllUntouched
    <3>1. \A i \in Pieces : ~newer[r][i].touched
      BY <2>1 DEF AllUntouched, Untouched
    <3>2. browserPieces' = browserPieces
      BY <3>1 DEF DeliverPieces, SplitterInv, SplitterTyped
    <3> QED BY <1>2, <2>1, <3>2 DEF SplitterInv, LeftWhole
  <2>2. CASE newer[r] # AllUntouched /\ r \in undisturbed /\ Fits(ownSet[r].value)
    BY <1>2, <2>2, DeliveredWhole DEF LeftWhole
  <2>3. CASE newer[r] # AllUntouched /\ ~(r \in undisturbed /\ Fits(ownSet[r].value))
    BY <1>2, <2>3 DEF LeftWhole, Mixed
  <2> QED BY <2>1, <2>2, <2>3
<1> QED BY <1>1, <1>3, <1>4 DEF SplitterInv

LEMMA SplitterStep == SplitterInv /\ [SplitterNext]_splitterVars => SplitterInv'
<1> SUFFICES ASSUME SplitterInv, [SplitterNext]_splitterVars
             PROVE  SplitterInv'
  OBVIOUS
<1>1. CASE UNCHANGED splitterVars
  BY <1>1 DEF splitterVars, SplitterInv, SplitterTyped, SetOrCleared, AloneUpToDate, LeftWhole
<1> QED BY <1>1, SendKeeps, StoringKeeps, ClearingKeeps, DeliveringKeeps, LosingKeeps
           DEF SplitterNext

LEMMA SplitterAlways == SplitterSpec => []SplitterInv
<1> QED BY SplitterStart, SplitterStep, PTL DEF SplitterSpec

(* Only the value it stored inflates from what a request has set.             *)
LEMMA OwnReadBack ==
    ASSUME SplitterInv, NEW r \in active, ownSet[r].did = "left", ownSet[r].value # <<>>
    PROVE  getExtraAuthStorageValue(r) = {ownSet[r].value}
<1> USE DEF SplitterInv
<1>1. PICK v \in Values : ownSet[r] = Left(v)
  <2>1. r \in Requests /\ ownSet[r] \in Deeds
    BY DEF SplitterTyped
  <2> QED BY <2>1 DEF Deeds, Nothing, Mixed, Left
<1>2. newer[r] = splitValueIntoCookies(v) /\ ownSet[r].value = v
  BY <1>1 DEF SetOrCleared, SplitterTyped, Left
<1>3. 1 \in Pieces
  BY SplitterAssumption DEF Pieces
<1>4. newer[r][1].touched
  BY <1>2, <1>3 DEF splitValueIntoCookies, Piece
<1>5. unsplitCookiesIntoValue(r) = v
  <2>1. [i \in Pieces |-> IF newer[r][1].touched THEN newer[r][i].value ELSE state[r][i]]
          = [i \in Pieces |-> splitValueIntoCookies(v)[i].value]
    BY <1>2, <1>4
  <2> QED BY <2>1, SplitThenJoined DEF unsplitCookiesIntoValue
<1>6. Inflates(v, v)
  BY ValuesAreSequences, LenProperties, SubSeqFull DEF Inflates
<1>7. ASSUME NEW w \in Values, Inflates(v, w)
      PROVE  w = v
  <2>1. /\ w \in Seq(Characters) /\ v \in Seq(Characters)
        /\ Len(w) \in Nat \ {0} /\ Len(v) \in Nat
    BY ValuesAreSequences, LenProperties, EmptySeq, SplitterAssumption
  <2>2. Len(w) <= Len(v) /\ SubSeq(v, 1, Len(w)) = w
    BY <1>7 DEF Inflates
  <2>3. SubSeq(v, 1, Len(w))[1] = v[1]
    <3>1. \A i \in 1..Len(w) : v[i] \in Characters
      BY <2>1, <2>2, ElementOfSeq
    <3>2. \A i \in 1..(Len(w) - 1 + 1) : SubSeq(v, 1, Len(w))[i] = v[1 + i - 1]
      BY <2>1, <3>1, SubSeqProperties
    <3> QED BY <2>1, <3>2
  <2> QED BY <2>2, <2>3, SplitterAssumption
<1> QED BY <1>2, <1>5, <1>6, <1>7 DEF getExtraAuthStorageValue

(* A request reads back the very token it stored last.                       *)
THEOREM OwnTokenRead == SplitterSpec => []OwnWriteRead
<1>1. SplitterInv => OwnWriteRead
  BY OwnReadBack DEF OwnWriteRead
<1> QED BY <1>1, SplitterAlways, PTL

(* The browser holds what the last undisturbed request stored, whole, or      *)
(* nothing where it cleared.                                                *)
THEOREM TokenLeftWhole == SplitterSpec => []LeftWhole
<1>1. SplitterInv => LeftWhole
  BY DEF SplitterInv
<1> QED BY <1>1, SplitterAlways, PTL
=============================================================================
