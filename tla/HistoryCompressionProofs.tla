---------------------- MODULE HistoryCompressionProofs ----------------------
(***************************************************************************)
(* Theorems about HistoryCompression, for every number of investigations   *)
(* that overlap, every bound on the rounds and every KeepRecent.           *)
(***************************************************************************)
EXTENDS HistoryCompression, SequenceTheorems, FiniteSetTheorems, TLAPS

----------------------------------------------------------------------------
(* The invariant.                                                          *)

Stages == {"idle", "load", "collect", "compress", "reload", "measure", "save", "plan", "run"}

CompressionType ==
    /\ texts \in Seq(BOOLEAN)
    /\ snap \in [upTo : Nat, content : SUBSET Nat]
    /\ pc \in [Calls -> Stages]
    /\ round \in [Calls -> Nat]
    /\ entries \in [Calls -> Seq(SUBSET Nat)]
    /\ older \in [Calls -> Nat]
    /\ base \in [Calls -> Nat]
    /\ upTo \in [Calls -> Nat]
    /\ seen \subseteq Nat
    /\ calm \in BOOLEAN

\* Whatever is used as a number of a round is that of a stored one, or 0, and an
\* index of a compressed entry is not 0.
WithinHistory(c) ==
    /\ base[c] <= Count
    /\ upTo[c] <= Count
    /\ pc[c] \in {"reload", "measure", "save"} => older[c] # 0 /\ entries[c] # <<>>

\* The calls have come one after the other, and none but c is under way.
Alone(c) == calm /\ \A d \in Calls \ {c} : pc[d] = "idle"

OneAtATime == calm => \A c \in Calls : pc[c] # "idle" => Alone(c)

\* What a call has read of the snapshot is what the snapshot still says.
ReadsAreFresh(c) ==
    /\ pc[c] \in {"collect", "measure"} => base[c] = snap.upTo
    /\ pc[c] = "save" => upTo[c] >= snap.upTo

\* The stages at which the prompt holds what no planner has been given yet.
Prompting == {"compress", "reload", "measure", "save", "plan"}

\* A text is known to some planner, or it is in the prompt of the call that is
\* under way, or, when there is no such prompt, it will be in the next one.
NothingForgotten(c) ==
    /\ pc[c] \in Prompting => WithText \subseteq seen \cup Joined(entries[c])
    /\ pc[c] = "run" => WithText \subseteq seen
    /\ pc[c] \notin Prompting => \A r \in WithText : r <= snap.upTo => r \in seen

CompressionInv ==
    /\ CompressionType
    /\ snap.upTo <= Count
    /\ OneAtATime
    /\ \A c \in Calls :
        /\ WithinHistory(c)
        /\ Alone(c) => ReadsAreFresh(c) /\ NothingForgotten(c)

----------------------------------------------------------------------------
(* The operators of the model.                                             *)

\* LoadRoundsAfter lists the rounds in their order.
LEMMA RoundsAfterList ==
    ASSUME NEW n \in Nat, Count \in Nat
    PROVE  /\ RoundsAfter(n) \in Seq(Nat)
           /\ Len(RoundsAfter(n)) = IF n < Count THEN Count - n ELSE 0
           /\ \A i \in 1..Len(RoundsAfter(n)) : RoundsAfter(n)[i] = n + i
<1> DEFINE len == IF n < Count THEN Count - n ELSE 0
<1>1. len \in Nat
  OBVIOUS
<1>2. RoundsAfter(n) = [i \in 1..len |-> n + i]
  BY DEF RoundsAfter
<1> HIDE DEF len
<1>3. RoundsAfter(n) \in [1..len -> Nat]
  BY <1>1, <1>2
<1>4. RoundsAfter(n) \in Seq(Nat) /\ Len(RoundsAfter(n)) = len
  BY <1>1, <1>3, SeqDef, LenProperties
<1> QED
  BY <1>1, <1>2, <1>4 DEF len

\* A set of numbers can be listed by rank: every member has one, from 1 up to
\* their number, and every such number is the rank of a member.
LEMMA Ranks ==
    ASSUME NEW W \in SUBSET Nat, IsFiniteSet(W),
           NEW rank, rank = [r \in W |-> Cardinality({q \in W : q <= r})]
    PROVE  /\ rank \in [W -> 1..Cardinality(W)]
           /\ \A p, r \in W : rank[p] = rank[r] => p = r
           /\ \A i \in 1..Cardinality(W) : \E r \in W : rank[r] = i
<1> DEFINE Upto(r) == {q \in W : q <= r}
<1>1. \A r \in W : /\ IsFiniteSet(Upto(r))
                   /\ Cardinality(Upto(r)) \in Nat
                   /\ Cardinality(Upto(r)) <= Cardinality(W)
                   /\ Cardinality(Upto(r)) # 0
  <2> TAKE r \in W
  <2>1. Upto(r) \in SUBSET W /\ r \in Upto(r)
    OBVIOUS
  <2>2. IsFiniteSet(Upto(r)) /\ Cardinality(Upto(r)) <= Cardinality(W)
    BY <2>1, FS_Subset
  <2>3. Cardinality(Upto(r)) \in Nat
    BY <2>2, FS_CardinalityType
  <2>4. Cardinality(Upto(r)) # 0
    BY <2>1, <2>2, FS_EmptySet
  <2> QED
    BY <2>2, <2>3, <2>4
<1>2. Cardinality(W) \in Nat
  BY FS_CardinalityType
<1>3. rank = [r \in W |-> Cardinality(Upto(r))]
  OBVIOUS
<1> HIDE DEF Upto
<1>4. rank \in [W -> 1..Cardinality(W)]
  BY <1>1, <1>2, <1>3
<1>5. ASSUME NEW p \in W, NEW r \in W, p < r
      PROVE  rank[p] # rank[r]
  <2>1. Upto(p) \in SUBSET Upto(r) /\ r \in Upto(r) /\ r \notin Upto(p)
    <3>1. \A q \in W : q \in Nat
      OBVIOUS
    <3>2. \A q \in W : q <= p => q <= r
      BY <1>5, <3>1
    <3>3. r \in Upto(r) /\ r \notin Upto(p)
      BY <1>5, <3>1 DEF Upto
    <3> QED
      BY <3>2, <3>3 DEF Upto
  <2>2. Cardinality(Upto(r)) = Cardinality(Upto(p)) => Upto(r) = Upto(p)
    BY <1>1, <2>1, FS_Subset
  <2> QED
    BY <1>3, <2>1, <2>2
<1>6. \A p, r \in W : rank[p] = rank[r] => p = r
  BY <1>5
<1>7. rank \in Injection(W, 1..Cardinality(W))
  BY <1>4, <1>6 DEF Injection, IsInjective
<1>8. IsFiniteSet(1..Cardinality(W)) /\ Cardinality(1..Cardinality(W)) = Cardinality(W)
  BY <1>2, FS_Interval
<1>9. rank \in Surjection(W, 1..Cardinality(W))
  BY <1>7, <1>8, FS_Injection
<1> QED
  BY <1>4, <1>6, <1>9 DEF Surjection

\* Every round after n that has a text is listed by TextsAfter, and nothing else.
LEMMA TextsAfterList ==
    ASSUME texts \in Seq(BOOLEAN), NEW n \in Nat
    PROVE  /\ TextsAfter(n) \in Seq(Nat)
           /\ \A r \in WithText : n < r =>
                \E i \in 1..Len(TextsAfter(n)) : TextsAfter(n)[i] = r
<1> DEFINE W == {r \in (n + 1)..Count : texts[r]}
           rank == [r \in W |-> Cardinality({q \in W : q <= r})]
<1>1. Count \in Nat
  BY LenProperties DEF Count
<1>2. W \in SUBSET ((n + 1)..Count) /\ W \in SUBSET Nat
  BY <1>1
<1>3. IsFiniteSet(W)
  <2>1. IsFiniteSet((n + 1)..Count)
    BY <1>1, FS_Interval
  <2> QED
    BY <1>2, <2>1, FS_Subset
<1>4. TextsAfter(n) =
        [i \in 1..Cardinality(W) |->
            CHOOSE r \in W : Cardinality({q \in W : q <= r}) = i]
  BY DEF TextsAfter
<1>5. \A r \in WithText : n < r => r \in W
  BY <1>1 DEF WithText
<1>6. Cardinality(W) \in Nat
  BY <1>3, FS_CardinalityType
<1> HIDE DEF W
<1>7. /\ rank \in [W -> 1..Cardinality(W)]
      /\ \A p, r \in W : rank[p] = rank[r] => p = r
      /\ \A i \in 1..Cardinality(W) : \E r \in W : rank[r] = i
  <2>1. rank = [r \in W |-> Cardinality({q \in W : q <= r})]
    OBVIOUS
  <2> HIDE DEF rank
  <2> QED
    BY <1>2, <1>3, <2>1, Ranks
<1>8. \A i \in 1..Cardinality(W) : TextsAfter(n)[i] \in W /\ rank[TextsAfter(n)[i]] = i
  <2> TAKE i \in 1..Cardinality(W)
  <2>1. \E r \in W : Cardinality({q \in W : q <= r}) = i
    BY <1>7
  <2>2. TextsAfter(n)[i] = CHOOSE r \in W : Cardinality({q \in W : q <= r}) = i
    BY <1>4
  <2> QED
    BY <2>1, <2>2
<1>9. TextsAfter(n) \in [1..Cardinality(W) -> Nat]
  BY <1>2, <1>4, <1>8
<1>10. TextsAfter(n) \in Seq(Nat) /\ Len(TextsAfter(n)) = Cardinality(W)
  BY <1>6, <1>9, SeqDef, LenProperties
<1>11. \A r \in W : rank[r] \in 1..Cardinality(W) /\ TextsAfter(n)[rank[r]] = r
  <2> HIDE DEF rank
  <2> QED
    BY <1>7, <1>8
<1> QED
  BY <1>5, <1>10, <1>11

\* Entries that are put together tell about what each of them tells about.
LEMMA JoinedConcat ==
    ASSUME NEW s \in Seq(SUBSET Nat), NEW t \in Seq(SUBSET Nat)
    PROVE  /\ s \o t \in Seq(SUBSET Nat)
           /\ Joined(s) \in SUBSET Nat
           /\ Joined(s \o t) = Joined(s) \cup Joined(t)
<1>1. /\ Len(s) \in Nat /\ DOMAIN s = 1..Len(s)
      /\ Len(t) \in Nat /\ DOMAIN t = 1..Len(t)
      /\ \A i \in 1..Len(s) : s[i] \in SUBSET Nat
  BY LenProperties, ElementOfSeq
<1>2. /\ s \o t \in Seq(SUBSET Nat)
      /\ Len(s \o t) = Len(s) + Len(t)
      /\ \A i \in 1..Len(s) + Len(t) :
            (s \o t)[i] = IF i <= Len(s) THEN s[i] ELSE t[i - Len(s)]
  BY ConcatProperties
<1>3. DOMAIN (s \o t) = 1..Len(s) + Len(t)
  BY <1>2, LenProperties
<1>4. ASSUME NEW r, r \in Joined(s \o t)
      PROVE  r \in Joined(s) \cup Joined(t)
  <2>1. PICK i \in 1..Len(s) + Len(t) : r \in (s \o t)[i]
    BY <1>3, <1>4 DEF Joined
  <2>2. CASE i <= Len(s)
    BY <1>1, <1>2, <2>1, <2>2 DEF Joined
  <2>3. CASE ~(i <= Len(s))
    <3>1. i - Len(s) \in 1..Len(t) /\ r \in t[i - Len(s)]
      BY <1>1, <1>2, <2>1, <2>3
    <3> QED
      BY <1>1, <3>1 DEF Joined
  <2> QED
    BY <2>2, <2>3
<1>5. ASSUME NEW r, r \in Joined(s)
      PROVE  r \in Joined(s \o t)
  <2>1. PICK i \in 1..Len(s) : r \in s[i]
    BY <1>1, <1>5 DEF Joined
  <2>2. i \in 1..Len(s) + Len(t) /\ (s \o t)[i] = s[i]
    BY <1>1, <1>2, <2>1
  <2> QED
    BY <1>3, <2>1, <2>2 DEF Joined
<1>6. ASSUME NEW r, r \in Joined(t)
      PROVE  r \in Joined(s \o t)
  <2>1. PICK i \in 1..Len(t) : r \in t[i]
    BY <1>1, <1>6 DEF Joined
  <2>2. /\ i + Len(s) \in 1..Len(s) + Len(t)
        /\ ~(i + Len(s) <= Len(s)) /\ (i + Len(s)) - Len(s) = i
    BY <1>1, <2>1
  <2>3. (s \o t)[i + Len(s)] = t[i]
    BY <1>2, <2>2
  <2> QED
    BY <1>3, <2>1, <2>2, <2>3 DEF Joined
<1>7. Joined(s) \in SUBSET Nat
  BY <1>1 DEF Joined
<1> QED
  BY <1>2, <1>4, <1>5, <1>6, <1>7

\* What the model makes of the oldest entries tells about what they told about:
\* compressing a prompt takes nothing out of it.
LEMMA CompressedEntries ==
    ASSUME NEW es \in Seq(SUBSET Nat), NEW n \in 1..Len(es)
    PROVE  LET shorter == <<Joined(SubSeq(es, 1, n))>> \o SubSeq(es, n + 1, Len(es))
           IN  /\ shorter \in Seq(SUBSET Nat)
               /\ shorter # <<>>
               /\ Joined(shorter) = Joined(es)
<1> DEFINE front == SubSeq(es, 1, n)
           back  == SubSeq(es, n + 1, Len(es))
<1>1. Len(es) \in Nat /\ \A i \in 1..Len(es) : es[i] \in SUBSET Nat
  BY LenProperties, ElementOfSeq
<1>2. front \in Seq(SUBSET Nat) /\ back \in Seq(SUBSET Nat)
  <2>1. \A i \in 1..n : es[i] \in SUBSET Nat
    BY <1>1
  <2>2. \A i \in (n + 1)..Len(es) : es[i] \in SUBSET Nat
    BY <1>1
  <2> QED
    BY <1>1, <2>1, <2>2, SubSeqProperties
<1>3. front \o back = es
  <2>1. SubSeq(es, 1, n) \o SubSeq(es, n + 1, Len(es)) = SubSeq(es, 1, Len(es))
    BY <1>1, ConcatAdjacentSubSeq
  <2> QED
    BY <2>1, SubSeqFull
<1> HIDE DEF front, back
<1>4. Joined(es) = Joined(front) \cup Joined(back) /\ Joined(front) \in SUBSET Nat
  BY <1>2, <1>3, JoinedConcat
<1>5. <<Joined(front)>> \in Seq(SUBSET Nat) /\ Joined(<<Joined(front)>>) = Joined(front)
  BY <1>4 DEF Joined
<1>6. /\ <<Joined(front)>> \o back \in Seq(SUBSET Nat)
      /\ Joined(<<Joined(front)>> \o back) = Joined(front) \cup Joined(back)
  BY <1>2, <1>5, JoinedConcat
<1>7. <<Joined(front)>> \o back # <<>>
  BY <1>2, <1>5, ConcatEqualIffEmpty
<1> QED
  BY <1>4, <1>6, <1>7 DEF front, back

----------------------------------------------------------------------------
(* Every step keeps the invariant.                                         *)
LEMMA CompressionInit == Init => CompressionInv
<1> SUFFICES ASSUME Init PROVE CompressionInv
  OBVIOUS
<1>1. texts = <<>> /\ Count = 0 /\ WithText = {}
  BY DEF Init, Count, WithText
<1>2. CompressionType
  BY <1>1, EmptySeq DEF Init, CompressionType, Stages, NoSnapshot
<1>3. \A c \in Calls : WithinHistory(c) /\ ReadsAreFresh(c) /\ NothingForgotten(c)
  BY <1>1 DEF Init, WithinHistory, ReadsAreFresh, NothingForgotten, Prompting
<1>4. OneAtATime
  BY DEF Init, OneAtATime
<1> QED
  BY <1>1, <1>2, <1>3, <1>4 DEF CompressionInv, Init, NoSnapshot

\* A step of c keeps the invariant when it keeps what the invariant says of c,
\* and, where calls have come one after the other, c is the one under way.
LEMMA CallStep ==
    ASSUME CompressionInv, NEW c \in Calls, CompressionType',
           Count <= Count', snap'.upTo <= Count',
           \A d \in Calls \ {c} :
                /\ pc'[d] = pc[d] /\ base'[d] = base[d] /\ upTo'[d] = upTo[d]
                /\ older'[d] = older[d] /\ entries'[d] = entries[d],
           calm' => Alone(c),
           WithinHistory(c)',
           Alone(c) /\ calm' => ReadsAreFresh(c)' /\ NothingForgotten(c)'
    PROVE  CompressionInv'
<1>1. Count \in Nat /\ Count' \in Nat
  BY LenProperties DEF CompressionInv, CompressionType, Count
<1>2. calm' => \A d \in Calls \ {c} : pc'[d] = "idle"
  BY DEF Alone
<1>3. OneAtATime'
  BY <1>2 DEF OneAtATime, Alone
<1>4. ASSUME NEW d \in Calls
      PROVE  WithinHistory(d)'
  <2>1. CASE d = c
    BY <2>1
  <2>2. CASE d # c
    <3>1. WithinHistory(d) /\ base[d] \in Nat /\ upTo[d] \in Nat
      BY DEF CompressionInv, CompressionType
    <3> QED
      BY <1>1, <2>2, <3>1 DEF WithinHistory
  <2> QED
    BY <2>1, <2>2
<1>5. ASSUME NEW d \in Calls, Alone(d)'
      PROVE  ReadsAreFresh(d)' /\ NothingForgotten(d)'
  <2>1. ReadsAreFresh(c)' /\ NothingForgotten(c)'
    BY <1>5 DEF Alone
  <2>2. CASE d = c
    BY <2>1, <2>2
  <2>3. CASE d # c
    <3>1. pc'[d] = "idle" /\ pc'[c] = "idle"
      BY <1>2, <1>5, <2>3 DEF Alone
    <3> QED
      BY <2>1, <3>1 DEF ReadsAreFresh, NothingForgotten, Prompting
  <2> QED
    BY <2>2, <2>3
<1> QED
  BY <1>3, <1>4, <1>5 DEF CompressionInv

\* What the actions of c have in common: what they find, by the invariant.
LEMMA Found ==
    ASSUME CompressionInv, NEW c \in Calls
    PROVE  /\ Count \in Nat /\ snap.upTo \in Nat /\ snap.upTo <= Count
           /\ snap.content \in SUBSET Nat
           /\ WithText \in SUBSET Nat /\ \A r \in WithText : r <= Count
           /\ entries[c] \in Seq(SUBSET Nat)
           /\ base[c] \in Nat /\ upTo[c] \in Nat /\ older[c] \in Nat
           /\ base[c] <= Count /\ upTo[c] <= Count
           /\ calm /\ pc[c] # "idle" => Alone(c)
           /\ Alone(c) => calm /\ ReadsAreFresh(c) /\ NothingForgotten(c)
<1>1. Count \in Nat
  BY LenProperties DEF CompressionInv, CompressionType, Count
<1>2. WithText \in SUBSET Nat /\ \A r \in WithText : r <= Count
  BY <1>1 DEF WithText
<1> QED
  BY <1>1, <1>2 DEF CompressionInv, CompressionType, WithinHistory, OneAtATime, Alone

\* Where the history stands still, so do the sets and the numbers made of it.
LEMMA SameTexts == UNCHANGED texts => Count' = Count /\ WithText' = WithText
BY DEF Count, WithText

LEMMA StartKeeps ==
    ASSUME CompressionInv, NEW c \in Calls, Start(c)
    PROVE  CompressionInv'
<1>1. PICK stage \in {"plan", "load"} :
        /\ pc' = [pc EXCEPT ![c] = stage]
        /\ stage = "plan" => Count = 0
  BY DEF Start, Goto
<1>2. CompressionType'
  <2>1. calm' \in BOOLEAN
    BY DEF Start
  <2>2. pc' \in [Calls -> Stages]
    BY <1>1 DEF CompressionInv, CompressionType, Stages
  <2>3. round' \in [Calls -> Nat]
    BY Found DEF CompressionInv, CompressionType, Start
  <2> QED
    BY <2>1, <2>2, <2>3 DEF CompressionInv, CompressionType, Start
<1>3. pc[c] = "idle" /\ (calm' => calm /\ \A d \in Calls : pc[d] = "idle")
  BY DEF Start
<1>4. calm' => Alone(c)
  BY <1>3 DEF Alone
<1>5. pc'[c] = stage
  BY <1>1 DEF CompressionInv, CompressionType
<1>6. WithinHistory(c)'
  BY <1>1, <1>5, Found, SameTexts DEF WithinHistory, Start
<1>7. Count = 0 => WithText = {}
  BY DEF WithText
<1>8. Alone(c) => ReadsAreFresh(c)' /\ NothingForgotten(c)'
  BY <1>1, <1>3, <1>5, <1>7, Found, SameTexts
     DEF ReadsAreFresh, NothingForgotten, Prompting, Start
<1>9. Count <= Count' /\ snap'.upTo <= Count'
  BY Found, SameTexts DEF Start
<1>10. \A d \in Calls \ {c} :
        /\ pc'[d] = pc[d] /\ base'[d] = base[d] /\ upTo'[d] = upTo[d]
        /\ older'[d] = older[d] /\ entries'[d] = entries[d]
  BY <1>1 DEF CompressionInv, CompressionType, Start
<1> QED
  BY <1>2, <1>4, <1>6, <1>8, <1>9, <1>10, CallStep

LEMMA LoadSnapshotKeeps ==
    ASSUME CompressionInv, NEW c \in Calls, LoadSnapshot(c)
    PROVE  CompressionInv'
<1>a. (IF snap.content # {} THEN <<snap.content>> ELSE <<>>) \in Seq(SUBSET Nat)
  <2>1. snap.content \in SUBSET Nat
    BY Found
  <2>2. <<snap.content>> \in Seq(SUBSET Nat)
    BY <2>1
  <2>3. <<>> \in Seq(SUBSET Nat)
    BY EmptySeq
  <2> QED
    BY <2>2, <2>3
<1>1. CompressionType'
  BY <1>a, Found DEF CompressionInv, CompressionType, Stages, LoadSnapshot, Goto
<1>2. calm' => Alone(c)
  BY Found DEF LoadSnapshot
<1>3. WithinHistory(c)'
  BY Found, SameTexts
     DEF CompressionInv, CompressionType, WithinHistory, LoadSnapshot, Goto
<1>4. Alone(c) /\ calm' => ReadsAreFresh(c)' /\ NothingForgotten(c)'
  BY Found, SameTexts
     DEF CompressionInv, CompressionType, ReadsAreFresh, NothingForgotten, Prompting,
         LoadSnapshot, Goto
<1>5. Count <= Count' /\ snap'.upTo <= Count'
  BY Found, SameTexts DEF LoadSnapshot
<1>6. \A d \in Calls \ {c} :
        /\ pc'[d] = pc[d] /\ base'[d] = base[d] /\ upTo'[d] = upTo[d]
        /\ older'[d] = older[d] /\ entries'[d] = entries[d]
  BY DEF CompressionInv, CompressionType, LoadSnapshot, Goto
<1> QED
  BY <1>1, <1>2, <1>3, <1>4, <1>5, <1>6, CallStep

LEMMA CollectKeeps ==
    ASSUME CompressionInv, NEW c \in Calls, Collect(c)
    PROVE  CompressionInv'
<1> DEFINE new == TextsAfter(base[c])
           singles == [i \in DOMAIN new |-> {new[i]}]
<1>a. texts \in Seq(BOOLEAN) /\ base[c] \in Nat /\ entries[c] \in Seq(SUBSET Nat)
  BY Found DEF CompressionInv, CompressionType
<1>b. /\ new \in Seq(Nat)
      /\ \A r \in WithText : base[c] < r => \E i \in 1..Len(new) : new[i] = r
  BY <1>a, TextsAfterList
<1>c. Len(new) \in Nat /\ DOMAIN new = 1..Len(new) /\ \A i \in 1..Len(new) : new[i] \in Nat
  BY <1>b, LenProperties, ElementOfSeq
<1>d. entries' = [entries EXCEPT ![c] = entries[c] \o singles]
  BY DEF Collect
<1> HIDE DEF new
<1>e. singles \in [1..Len(new) -> SUBSET Nat]
  BY <1>c
<1>f. singles \in Seq(SUBSET Nat)
  BY <1>c, <1>e, SeqDef
<1>g. /\ entries[c] \o singles \in Seq(SUBSET Nat)
      /\ Joined(entries[c] \o singles) = Joined(entries[c]) \cup Joined(singles)
  BY <1>a, <1>f, JoinedConcat
<1>h. \A r \in WithText : base[c] < r => r \in Joined(singles)
  BY <1>b, <1>c, <1>e DEF Joined
<1>i. Joined(<<>>) = {}
  BY DEF Joined
<1> HIDE DEF singles
<1>1. CompressionType'
  BY <1>d, <1>g
     DEF CompressionInv, CompressionType, Stages, Collect, Goto, LeaveCompression
<1>2. calm' => Alone(c)
  BY Found DEF Collect, LeaveCompression
<1>3. WithinHistory(c)'
  BY Found, SameTexts
     DEF CompressionInv, CompressionType, WithinHistory, Collect, Goto, LeaveCompression
<1>4. Alone(c) /\ calm' => ReadsAreFresh(c)' /\ NothingForgotten(c)'
  <2> SUFFICES ASSUME Alone(c), calm'
               PROVE  ReadsAreFresh(c)' /\ NothingForgotten(c)'
    OBVIOUS
  <2>1. pc[c] = "collect" /\ base[c] = snap.upTo
    BY Found DEF Collect, ReadsAreFresh
  <2>2. \A r \in WithText : r <= base[c] => r \in seen
    BY <2>1, Found DEF NothingForgotten, Prompting
  <2>3. \A r \in WithText : r <= base[c] \/ base[c] < r
    BY Found
  <2>4. entries'[c] = entries[c] \o singles
    BY <1>d DEF CompressionInv, CompressionType
  <2>5. WithText \subseteq seen \cup Joined(entries'[c])
    BY <1>g, <1>h, <2>2, <2>3, <2>4
  <2>6. pc'[c] \in {"plan", "compress"}
    BY DEF CompressionInv, CompressionType, Collect, Goto
  <2>7. UNCHANGED <<texts, snap, seen>> /\ WithText' = WithText
    BY SameTexts DEF Collect
  <2>8. ReadsAreFresh(c)'
    BY <2>6 DEF ReadsAreFresh
  <2>9. NothingForgotten(c)'
    BY <2>5, <2>6, <2>7 DEF NothingForgotten, Prompting, Joined
  <2> QED
    BY <2>8, <2>9
<1>5. Count <= Count' /\ snap'.upTo <= Count'
  BY Found, SameTexts DEF Collect
<1>6. \A d \in Calls \ {c} :
        /\ pc'[d] = pc[d] /\ base'[d] = base[d] /\ upTo'[d] = upTo[d]
        /\ older'[d] = older[d] /\ entries'[d] = entries[d]
  BY DEF CompressionInv, CompressionType, Collect, Goto, LeaveCompression
<1> QED
  BY <1>1, <1>2, <1>3, <1>4, <1>5, <1>6, CallStep

LEMMA CollectFailsKeeps ==
    ASSUME CompressionInv, NEW c \in Calls, CollectFails(c)
    PROVE  CompressionInv'
<1>1. CompressionType'
  BY EmptySeq
     DEF CompressionInv, CompressionType, Stages, CollectFails, Goto, Leave,
         LeaveCompression
<1>2. calm' => Alone(c)
  BY Found DEF CollectFails, Leave, LeaveCompression
<1>3. WithinHistory(c)'
  BY Found, SameTexts
     DEF CompressionInv, CompressionType, WithinHistory, CollectFails, Goto, Leave,
         LeaveCompression
<1>4. Alone(c) /\ calm' => ReadsAreFresh(c)' /\ NothingForgotten(c)'
  BY Found, SameTexts
     DEF CompressionInv, CompressionType, ReadsAreFresh, NothingForgotten, Prompting,
         CollectFails, Goto, Leave, LeaveCompression
<1>5. Count <= Count' /\ snap'.upTo <= Count'
  BY Found, SameTexts DEF CollectFails
<1>6. \A d \in Calls \ {c} :
        /\ pc'[d] = pc[d] /\ base'[d] = base[d] /\ upTo'[d] = upTo[d]
        /\ older'[d] = older[d] /\ entries'[d] = entries[d]
  BY DEF CompressionInv, CompressionType, CollectFails, Goto, Leave, LeaveCompression
<1> QED
  BY <1>1, <1>2, <1>3, <1>4, <1>5, <1>6, CallStep

LEMMA UseRawKeeps ==
    ASSUME CompressionInv, NEW c \in Calls, UseRaw(c)
    PROVE  CompressionInv'
<1>1. CompressionType'
  BY DEF CompressionInv, CompressionType, Stages, UseRaw, Goto
<1>2. calm' => Alone(c)
  BY Found DEF UseRaw
<1>3. WithinHistory(c)'
  BY Found, SameTexts DEF CompressionInv, CompressionType, WithinHistory, UseRaw, Goto
<1>4. Alone(c) /\ calm' => ReadsAreFresh(c)' /\ NothingForgotten(c)'
  BY Found, SameTexts
     DEF CompressionInv, CompressionType, ReadsAreFresh, NothingForgotten, Prompting,
         UseRaw, Goto
<1>5. Count <= Count' /\ snap'.upTo <= Count'
  BY Found, SameTexts DEF UseRaw
<1>6. \A d \in Calls \ {c} :
        /\ pc'[d] = pc[d] /\ base'[d] = base[d] /\ upTo'[d] = upTo[d]
        /\ older'[d] = older[d] /\ entries'[d] = entries[d]
  BY DEF CompressionInv, CompressionType, UseRaw, Goto
<1> QED
  BY <1>1, <1>2, <1>3, <1>4, <1>5, <1>6, CallStep

LEMMA CompressKeeps ==
    ASSUME CompressionInv, NEW c \in Calls, Compress(c)
    PROVE  CompressionInv'
<1> DEFINE n == Len(entries[c]) - KeepRecent
           shorter == <<Joined(SubSeq(entries[c], 1, n))>> \o SubSeq(entries[c], n + 1, Len(entries[c]))
<1>0. entries[c] \in Seq(SUBSET Nat)
  BY Found
<1>a. n \in 1..Len(entries[c]) /\ n \in Nat \ {0}
  BY <1>0, LenProperties, CompressionAssumption DEF Compress
<1>b. entries' = [entries EXCEPT ![c] = shorter] /\ older' = [older EXCEPT ![c] = n]
  BY DEF Compress
<1>c. /\ shorter \in Seq(SUBSET Nat)
      /\ shorter # <<>>
      /\ Joined(shorter) = Joined(entries[c])
  BY <1>0, <1>a, CompressedEntries
<1> HIDE DEF n, shorter
<1>1. CompressionType'
  <2>1. older' \in [Calls -> Nat]
    BY <1>a, <1>b DEF CompressionInv, CompressionType
  <2>2. entries' \in [Calls -> Seq(SUBSET Nat)]
    BY <1>b, <1>c DEF CompressionInv, CompressionType
  <2> QED
    BY <2>1, <2>2 DEF CompressionInv, CompressionType, Stages, Compress, Goto
<1>2. calm' => Alone(c)
  BY Found DEF Compress
<1>3. WithinHistory(c)'
  BY <1>a, <1>b, <1>c, Found, SameTexts
     DEF CompressionInv, CompressionType, WithinHistory, Compress, Goto
<1>4. Alone(c) /\ calm' => ReadsAreFresh(c)' /\ NothingForgotten(c)'
  BY <1>b, <1>c, Found, SameTexts
     DEF CompressionInv, CompressionType, ReadsAreFresh, NothingForgotten, Prompting,
         Compress, Goto
<1>5. Count <= Count' /\ snap'.upTo <= Count'
  BY Found, SameTexts DEF Compress
<1>6. \A d \in Calls \ {c} :
        /\ pc'[d] = pc[d] /\ base'[d] = base[d] /\ upTo'[d] = upTo[d]
        /\ older'[d] = older[d] /\ entries'[d] = entries[d]
  BY DEF CompressionInv, CompressionType, Compress, Goto
<1> QED
  BY <1>1, <1>2, <1>3, <1>4, <1>5, <1>6, CallStep

LEMMA ReloadSnapshotKeeps ==
    ASSUME CompressionInv, NEW c \in Calls, ReloadSnapshot(c)
    PROVE  CompressionInv'
<1>1. CompressionType'
  <2>1. PICK b \in {snap.upTo, 0} : base' = [base EXCEPT ![c] = b]
    BY DEF ReloadSnapshot
  <2>2. base' \in [Calls -> Nat]
    BY <2>1, Found DEF CompressionInv, CompressionType
  <2>3. calm' \in BOOLEAN
    BY DEF CompressionInv, CompressionType, ReloadSnapshot
  <2> QED
    BY <2>2, <2>3 DEF CompressionInv, CompressionType, Stages, ReloadSnapshot, Goto
<1>2. calm' => Alone(c)
  BY Found DEF ReloadSnapshot
<1>3. WithinHistory(c)'
  BY Found, SameTexts
     DEF CompressionInv, CompressionType, WithinHistory, ReloadSnapshot, Goto
<1>4. Alone(c) /\ calm' => ReadsAreFresh(c)' /\ NothingForgotten(c)'
  BY Found, SameTexts
     DEF CompressionInv, CompressionType, ReadsAreFresh, NothingForgotten, Prompting,
         ReloadSnapshot, Goto
<1>5. Count <= Count' /\ snap'.upTo <= Count'
  BY Found, SameTexts DEF ReloadSnapshot
<1>6. \A d \in Calls \ {c} :
        /\ pc'[d] = pc[d] /\ base'[d] = base[d] /\ upTo'[d] = upTo[d]
        /\ older'[d] = older[d] /\ entries'[d] = entries[d]
  BY DEF CompressionInv, CompressionType, ReloadSnapshot, Goto
<1> QED
  BY <1>1, <1>2, <1>3, <1>4, <1>5, <1>6, CallStep

LEMMA MeasureKeeps ==
    ASSUME CompressionInv, NEW c \in Calls, Measure(c)
    PROVE  CompressionInv'
<1>a. /\ RoundsAfter(base[c]) \in Seq(Nat)
      /\ \A i \in 1..Len(RoundsAfter(base[c])) :
            /\ RoundsAfter(base[c])[i] = base[c] + i
            /\ base[c] + i <= Count
  <2>1. base[c] \in Nat /\ base[c] <= Count /\ Count \in Nat
    BY Found
  <2> DEFINE remaining == RoundsAfter(base[c])
  <2>2. /\ remaining \in Seq(Nat)
        /\ Len(remaining) = IF base[c] < Count THEN Count - base[c] ELSE 0
        /\ \A i \in 1..Len(remaining) : remaining[i] = base[c] + i
    BY <2>1, RoundsAfterList
  <2> HIDE DEF remaining
  <2>3. \A i \in 1..Len(remaining) : base[c] + i <= Count
    BY <2>1, <2>2
  <2> QED
    BY <2>2, <2>3 DEF remaining
<1>b. Len(RoundsAfter(base[c])) \in Nat /\ Len(<<>>) = 0
  BY <1>a, LenProperties, EmptySeq
<1>c. older[c] # 0
  BY DEF CompressionInv, WithinHistory, Measure
<1>d. /\ upTo' = [upTo EXCEPT ![c] = upTo'[c]]
      /\ upTo'[c] \in Nat /\ base[c] <= upTo'[c] /\ upTo'[c] <= Count
  <2>1. CASE Measured(c, RoundsAfter(base[c]))
    <3> DEFINE to == IF older[c] <= Len(RoundsAfter(base[c]))
                       THEN RoundsAfter(base[c])[older[c]] ELSE base[c]
    <3>1. to \in Nat /\ base[c] <= to /\ to <= Count
      <4>1. older[c] <= Len(RoundsAfter(base[c])) => older[c] \in 1..Len(RoundsAfter(base[c]))
        BY <1>b, <1>c, Found
      <4> QED
        BY <1>a, <4>1, Found
    <3>2. upTo' = [upTo EXCEPT ![c] = to] /\ upTo'[c] = to
      BY <2>1 DEF Measured, CompressionInv, CompressionType
    <3> QED
      BY <3>1, <3>2
  <2>2. CASE Measured(c, <<>>)
    <3>1. ~(older[c] <= Len(<<>>))
      BY <1>b, <1>c, Found
    <3>2. upTo' = [upTo EXCEPT ![c] = base[c]]
      BY <2>2, <3>1 DEF Measured
    <3> QED
      BY <3>2, Found DEF CompressionInv, CompressionType
  <2> QED
    BY <2>1, <2>2 DEF Measure
<1>1. CompressionType'
  BY <1>d DEF CompressionInv, CompressionType, Stages, Measure, Goto
<1>2. calm' => Alone(c)
  BY Found DEF Measure
<1>3. WithinHistory(c)'
  BY <1>d, Found, SameTexts
     DEF CompressionInv, CompressionType, WithinHistory, Measure, Goto
<1>4. Alone(c) /\ calm' => ReadsAreFresh(c)' /\ NothingForgotten(c)'
  BY <1>d, Found, SameTexts
     DEF CompressionInv, CompressionType, ReadsAreFresh, NothingForgotten, Prompting,
         Measure, Goto
<1>5. Count <= Count' /\ snap'.upTo <= Count'
  BY Found, SameTexts DEF Measure
<1>6. \A d \in Calls \ {c} :
        /\ pc'[d] = pc[d] /\ base'[d] = base[d] /\ upTo'[d] = upTo[d]
        /\ older'[d] = older[d] /\ entries'[d] = entries[d]
  BY <1>d DEF CompressionInv, CompressionType, Measure, Goto
<1> QED
  BY <1>1, <1>2, <1>3, <1>4, <1>5, <1>6, CallStep

LEMMA SaveSnapshotKeeps ==
    ASSUME CompressionInv, NEW c \in Calls, SaveSnapshot(c)
    PROVE  CompressionInv'
<1>a. Head(entries[c]) \in SUBSET Nat
  BY Found, HeadTailProperties DEF CompressionInv, WithinHistory, SaveSnapshot
<1>1. CompressionType'
  BY <1>a
     DEF CompressionInv, CompressionType, Stages, SaveSnapshot, Goto, LeaveCompression
<1>2. calm' => Alone(c)
  BY Found DEF SaveSnapshot, LeaveCompression
<1>3. WithinHistory(c)'
  BY Found, SameTexts
     DEF CompressionInv, CompressionType, WithinHistory, SaveSnapshot, Goto,
         LeaveCompression
<1>4. Alone(c) /\ calm' => ReadsAreFresh(c)' /\ NothingForgotten(c)'
  BY Found, SameTexts
     DEF CompressionInv, CompressionType, ReadsAreFresh, NothingForgotten, Prompting,
         SaveSnapshot, Goto, LeaveCompression
<1>5. Count <= Count' /\ snap'.upTo <= Count'
  BY Found, SameTexts DEF SaveSnapshot
<1>6. \A d \in Calls \ {c} :
        /\ pc'[d] = pc[d] /\ base'[d] = base[d] /\ upTo'[d] = upTo[d]
        /\ older'[d] = older[d] /\ entries'[d] = entries[d]
  BY DEF CompressionInv, CompressionType, SaveSnapshot, Goto, LeaveCompression
<1> QED
  BY <1>1, <1>2, <1>3, <1>4, <1>5, <1>6, CallStep

LEMMA SaveSnapshotFailsKeeps ==
    ASSUME CompressionInv, NEW c \in Calls, SaveSnapshotFails(c)
    PROVE  CompressionInv'
<1>1. CompressionType'
  BY DEF CompressionInv, CompressionType, Stages, SaveSnapshotFails, Goto,
         LeaveCompression
<1>2. calm' => Alone(c)
  BY Found DEF SaveSnapshotFails, LeaveCompression
<1>3. WithinHistory(c)'
  BY Found, SameTexts
     DEF CompressionInv, CompressionType, WithinHistory, SaveSnapshotFails, Goto,
         LeaveCompression
<1>4. Alone(c) /\ calm' => ReadsAreFresh(c)' /\ NothingForgotten(c)'
  BY Found, SameTexts
     DEF CompressionInv, CompressionType, ReadsAreFresh, NothingForgotten, Prompting,
         SaveSnapshotFails, Goto, LeaveCompression
<1>5. Count <= Count' /\ snap'.upTo <= Count'
  BY Found, SameTexts DEF SaveSnapshotFails
<1>6. \A d \in Calls \ {c} :
        /\ pc'[d] = pc[d] /\ base'[d] = base[d] /\ upTo'[d] = upTo[d]
        /\ older'[d] = older[d] /\ entries'[d] = entries[d]
  BY DEF CompressionInv, CompressionType, SaveSnapshotFails, Goto, LeaveCompression
<1> QED
  BY <1>1, <1>2, <1>3, <1>4, <1>5, <1>6, CallStep

LEMMA PlanKeeps ==
    ASSUME CompressionInv, NEW c \in Calls, Plan(c)
    PROVE  CompressionInv'
<1>a. Joined(entries[c]) \in SUBSET Nat
  BY Found, JoinedConcat
<1>1. CompressionType'
  BY <1>a DEF CompressionInv, CompressionType, Stages, Plan, Goto
<1>2. calm' => Alone(c)
  BY Found DEF Plan
<1>3. WithinHistory(c)'
  BY Found, SameTexts DEF CompressionInv, CompressionType, WithinHistory, Plan, Goto
<1>4. Alone(c) /\ calm' => ReadsAreFresh(c)' /\ NothingForgotten(c)'
  BY Found, SameTexts
     DEF CompressionInv, CompressionType, ReadsAreFresh, NothingForgotten, Prompting,
         Plan, Goto
<1>5. Count <= Count' /\ snap'.upTo <= Count'
  BY Found, SameTexts DEF Plan
<1>6. \A d \in Calls \ {c} :
        /\ pc'[d] = pc[d] /\ base'[d] = base[d] /\ upTo'[d] = upTo[d]
        /\ older'[d] = older[d] /\ entries'[d] = entries[d]
  BY DEF CompressionInv, CompressionType, Plan, Goto
<1> QED
  BY <1>1, <1>2, <1>3, <1>4, <1>5, <1>6, CallStep

LEMMA StoreRoundKeeps ==
    ASSUME CompressionInv, NEW c \in Calls, StoreRound(c)
    PROVE  CompressionInv'
<1>a. PICK hasText \in BOOLEAN : texts' = Append(texts, hasText)
  BY DEF StoreRound
<1>b. /\ texts' \in Seq(BOOLEAN) /\ Count' = Count + 1
      /\ \A r \in 1..Count : texts'[r] = texts[r]
  BY <1>a, AppendProperties DEF CompressionInv, CompressionType, Count
<1>c. \A r \in WithText' : r <= Count => r \in WithText
  BY <1>b DEF WithText
<1>d. snap' = snap /\ seen' = seen
  BY DEF StoreRound
<1>1. CompressionType'
  BY <1>b, EmptySeq
     DEF CompressionInv, CompressionType, Stages, StoreRound, Goto, Leave,
         LeaveCompression
<1>2. calm' => Alone(c)
  BY Found DEF StoreRound, Leave, LeaveCompression
<1>3. WithinHistory(c)'
  BY <1>b, Found, SameTexts
     DEF CompressionInv, CompressionType, WithinHistory, StoreRound, Goto, Leave,
         LeaveCompression
<1>4. Alone(c) /\ calm' => ReadsAreFresh(c)' /\ NothingForgotten(c)'
  <2>1. pc[c] = "run" /\ pc'[c] = "idle"
    BY DEF CompressionInv, CompressionType, StoreRound, Leave, Goto
  <2>2. Alone(c) => WithText \subseteq seen
    BY <2>1, Found DEF NothingForgotten
  <2>3. \A r \in WithText' : r <= snap'.upTo => r <= Count
    BY <1>b, <1>d, Found DEF WithText
  <2>4. Alone(c) => \A r \in WithText' : r <= snap'.upTo => r \in seen'
    BY <1>c, <1>d, <2>2, <2>3
  <2> QED
    BY <2>1, <2>4 DEF ReadsAreFresh, NothingForgotten, Prompting
<1>5. Count <= Count' /\ snap'.upTo <= Count'
  BY <1>b, Found, SameTexts DEF StoreRound
<1>6. \A d \in Calls \ {c} :
        /\ pc'[d] = pc[d] /\ base'[d] = base[d] /\ upTo'[d] = upTo[d]
        /\ older'[d] = older[d] /\ entries'[d] = entries[d]
  BY DEF CompressionInv, CompressionType, StoreRound, Goto, Leave, LeaveCompression
<1> QED
  BY <1>1, <1>2, <1>3, <1>4, <1>5, <1>6, CallStep

LEMMA RunFailsKeeps ==
    ASSUME CompressionInv, NEW c \in Calls, RunFails(c)
    PROVE  CompressionInv'
<1>1. CompressionType'
  BY EmptySeq
     DEF CompressionInv, CompressionType, Stages, RunFails, Goto, Leave,
         LeaveCompression
<1>2. calm' => Alone(c)
  BY Found DEF RunFails, Leave, LeaveCompression
<1>3. WithinHistory(c)'
  BY Found, SameTexts
     DEF CompressionInv, CompressionType, WithinHistory, RunFails, Goto, Leave,
         LeaveCompression
<1>4. Alone(c) /\ calm' => ReadsAreFresh(c)' /\ NothingForgotten(c)'
  BY Found, SameTexts
     DEF CompressionInv, CompressionType, ReadsAreFresh, NothingForgotten, Prompting,
         RunFails, Goto, Leave, LeaveCompression
<1>5. Count <= Count' /\ snap'.upTo <= Count'
  BY Found, SameTexts DEF RunFails
<1>6. \A d \in Calls \ {c} :
        /\ pc'[d] = pc[d] /\ base'[d] = base[d] /\ upTo'[d] = upTo[d]
        /\ older'[d] = older[d] /\ entries'[d] = entries[d]
  BY DEF CompressionInv, CompressionType, RunFails, Goto, Leave, LeaveCompression
<1> QED
  BY <1>1, <1>2, <1>3, <1>4, <1>5, <1>6, CallStep

LEMMA CompressionStep == CompressionInv /\ [Next]_vars => CompressionInv'
<1> SUFFICES ASSUME CompressionInv, [Next]_vars PROVE CompressionInv'
  OBVIOUS
<1>1. CASE Next
  BY <1>1, StartKeeps, LoadSnapshotKeeps, CollectKeeps, CollectFailsKeeps, UseRawKeeps,
     CompressKeeps, ReloadSnapshotKeeps, MeasureKeeps, SaveSnapshotKeeps,
     SaveSnapshotFailsKeeps, PlanKeeps, StoreRoundKeeps, RunFailsKeeps DEF Next
<1>2. CASE UNCHANGED vars
  BY <1>2
     DEF vars, CompressionInv, CompressionType, OneAtATime, WithinHistory, Alone,
         ReadsAreFresh, NothingForgotten, WithText, Count
<1> QED
  BY <1>1, <1>2

LEMMA CompressionAlways == Spec => []CompressionInv
BY CompressionInit, CompressionStep, PTL DEF Spec

----------------------------------------------------------------------------
(* What it means for the history.                                          *)

\* No snapshot covers a round that is not stored, however many investigations
\* overlap and whatever fails in them.
THEOREM SnapshotIsWithinHistory == Spec => []SnapshotWithinHistory
<1>1. CompressionInv => SnapshotWithinHistory
  BY DEF CompressionInv, SnapshotWithinHistory
<1> QED
  BY <1>1, CompressionAlways, PTL

\* While calls come one after the other, a planner has been given every text that
\* is stored by the time its round runs: compressing drops nothing unread.
THEOREM NothingIsUnread == Spec => []NothingUnread
<1>1. CompressionInv => NothingUnread
  <2> SUFFICES ASSUME CompressionInv, calm, NEW c \in Calls, pc[c] = "run"
               PROVE  WithText \subseteq seen
    BY DEF NothingUnread
  <2> QED
    BY Found DEF NothingForgotten
<1> QED
  BY <1>1, CompressionAlways, PTL

\* While calls come one after the other, the number of the snapshot never goes back.
THEOREM SnapshotOnlyAdvances == Spec => SnapshotAdvances
<1>1. CompressionInv /\ [Next]_vars => [calm' => snap'.upTo >= snap.upTo]_vars
  <2> SUFFICES ASSUME CompressionInv, Next, calm'
               PROVE  snap'.upTo >= snap.upTo
    OBVIOUS
  <2>1. snap.upTo \in Nat
    BY DEF CompressionInv, CompressionType
  <2>2. ASSUME NEW c \in Calls, SaveSnapshot(c)
        PROVE  snap'.upTo >= snap.upTo
    <3>1. pc[c] = "save" /\ calm /\ snap'.upTo = upTo[c]
      BY <2>2 DEF SaveSnapshot
    <3> QED
      BY <3>1, Found DEF ReadsAreFresh
  <2>3. (\E c \in Calls : SaveSnapshot(c)) \/ snap' = snap
    BY DEF Next, Start, LoadSnapshot, Collect, CollectFails, UseRaw, Compress,
           ReloadSnapshot, Measure, SaveSnapshotFails, Plan, StoreRound, RunFails
  <2> QED
    BY <2>1, <2>2, <2>3
<1> QED
  BY <1>1, CompressionAlways, PTL DEF Spec, SnapshotAdvances
=============================================================================
