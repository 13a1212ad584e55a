------------------------ MODULE ExecutorAgentProofs ------------------------
(***************************************************************************)
(* Theorems about the conversation of an executor agent: ExecutorAgent,    *)
(* for conversations of any length, and any limits.                        *)
(***************************************************************************)
EXTENDS ExecutorAgent, SequenceTheorems, WellFoundedInduction, TLAPS

----------------------------------------------------------------------------
(* Induction over the length of a conversation.  A set of numbers stands   *)
(* for what is to be shown of them, and the functions of the model that    *)
(* recur over a sequence are given by the function that takes their step.  *)

LEMMA Least ==
    ASSUME NEW S, S \subseteq Nat, S # {}
    PROVE  \E x \in S : \A y \in S : x <= y
<1> DEFINE R == {ss \in Nat \X Nat : ss[1] < ss[2]}
<1>1. IsWellFoundedOn(R, Nat)
  BY NatLessThanWellFounded DEF OpToRel
<1> HIDE DEF R
<1>2. PICK x \in S : \A y \in S : ~(<<y, x>> \in R)
  BY <1>1, WFMin
<1>3. \A y \in S : ~(y < x)
  BY <1>2 DEF R
<1> QED
  BY <1>3

LEMMA Induction ==
    ASSUME NEW S, 0 \in S, \A n \in Nat : n \in S => n + 1 \in S
    PROVE  Nat \subseteq S
<1> SUFFICES ASSUME Nat \ S # {} PROVE FALSE
  OBVIOUS
<1>1. PICK x \in Nat \ S : \A y \in Nat \ S : x <= y
  BY Least, Nat \ S \subseteq Nat
<1>2. x # 0 /\ x - 1 \in Nat /\ x - 1 \notin S
  BY <1>1
<1> QED
  BY <1>1, <1>2

LEMMA BoundedInduction ==
    ASSUME NEW L \in Nat, NEW S, 0 \in S, \A n \in 0..L : n + 1 <= L /\ n \in S => n + 1 \in S
    PROVE  0..L \subseteq S
<1> DEFINE T == {n \in Nat : n <= L => n \in S}
<1>1. 0 \in T
  OBVIOUS
<1>2. \A n \in Nat : n \in T => n + 1 \in T
  OBVIOUS
<1>3. Nat \subseteq T
  <2> HIDE DEF T
  <2> QED
    BY <1>1, <1>2, Induction
<1> QED
  BY <1>3

Steps(L, V) == [1..L -> [V -> V]]

Recurs(f, L, V, c, step) ==
    f \in [0..L -> V] /\ f[0] = c /\ \A n \in 1..L : f[n] = step[n][f[n - 1]]

\* There is a function that begins with c and goes on by step.
LEMMA Recursion ==
    ASSUME NEW V, NEW c \in V, NEW L \in Nat, NEW step \in Steps(L, V)
    PROVE  \E f : Recurs(f, L, V, c, step)
<1> DEFINE Good(f, k) == f[0] = c /\ \A n \in 1..k : f[n] = step[n][f[n - 1]]
           S == {k \in 0..L : \E f \in [0..k -> V] : Good(f, k)}
<1>1. 0 \in S
  <2>1. [n \in 0..0 |-> c] \in [0..0 -> V] /\ Good([n \in 0..0 |-> c], 0)
    OBVIOUS
  <2>2. \E f \in [0..0 -> V] : Good(f, 0)
    BY <2>1
  <2> HIDE DEF Good
  <2> QED
    BY <2>2
<1>2. ASSUME NEW k \in 0..L, k + 1 <= L /\ k \in S PROVE k + 1 \in S
  <2>1. PICK f \in [0..k -> V] : Good(f, k)
    BY <1>2
  <2> DEFINE g == [n \in 0..(k + 1) |-> IF n <= k THEN f[n] ELSE step[k + 1][f[k]]]
  <2>2. g \in [0..(k + 1) -> V]
    BY <1>2 DEF Steps
  <2>3. Good(g, k + 1)
    BY <2>1
  <2>4. \E h \in [0..(k + 1) -> V] : Good(h, k + 1)
    BY <2>2, <2>3
  <2> HIDE DEF Good
  <2> QED
    BY <1>2, <2>4
<1>3. 0..L \subseteq S
  <2> HIDE DEF S
  <2> QED
    BY <1>1, <1>2, BoundedInduction
<1> QED
  BY <1>3 DEF Recurs

\* Two functions that begin with the same value and take the same steps.
SameSteps(f, g, L) ==
    f[0] = g[0] /\ \A n \in 1..L : f[n - 1] = g[n - 1] => f[n] = g[n]

Same(f, g, L) == \A n \in 0..L : f[n] = g[n]

LEMMA SameRecursion ==
    ASSUME NEW L \in Nat, NEW f, NEW g, SameSteps(f, g, L)
    PROVE  Same(f, g, L)
<1> DEFINE S == {n \in 0..L : f[n] = g[n]}
<1>1. 0 \in S
  BY DEF SameSteps
<1>2. ASSUME NEW n \in 0..L, n + 1 <= L /\ n \in S PROVE n + 1 \in S
  <2>1. n + 1 \in 1..L /\ (n + 1) - 1 = n
    BY <1>2
  <2> QED
    BY <1>2, <2>1 DEF SameSteps
<1>3. 0..L \subseteq S
  <2> HIDE DEF S
  <2> QED
    BY <1>1, <1>2, BoundedInduction
<1> QED
  BY <1>3 DEF Same

LEMMA Between ==
    \A a, b, c \in Nat : /\ a <= b /\ b < c => a < c
                         /\ a < b /\ b <= c => a < c
                         /\ a < b => a # b /\ b # a
OBVIOUS

LEMMA MessagesOf ==
    ASSUME NEW ms \in Seq(Messages)
    PROVE  /\ Len(ms) \in Nat /\ DOMAIN ms = 1..Len(ms)
           /\ ms \in [1..Len(ms) -> Messages]
           /\ \A n \in 1..Len(ms) : ms[n] \in Messages /\ ms[n].size \in Nat
<1>1. Len(ms) \in Nat /\ DOMAIN ms = 1..Len(ms) /\ ms \in [1..Len(ms) -> Messages]
  BY LenProperties
<1>2. \A m \in Messages : m.size \in Nat
  BY DEF Messages
<1> QED
  BY <1>1, <1>2

\* The messages of a conversation that is put together from two.
LEMMA PartsOf ==
    ASSUME NEW as \in Seq(Messages), NEW bs \in Seq(Messages)
    PROVE  /\ as \o bs \in Seq(Messages)
           /\ Len(as \o bs) = Len(as) + Len(bs)
           /\ \A n \in 1..Len(as) : n \in 1..Len(as \o bs) /\ (as \o bs)[n] = as[n]
           /\ \A n \in 1..Len(bs) : /\ Len(as) + n \in 1..Len(as \o bs)
                                    /\ (as \o bs)[Len(as) + n] = bs[n]
<1> DEFINE cs == as \o bs
           A == Len(as)
           B == Len(bs)
<1>1. /\ cs \in Seq(Messages) /\ Len(cs) = A + B
      /\ \A n \in 1..(A + B) : cs[n] = IF n <= A THEN as[n] ELSE bs[n - A]
  BY ConcatProperties
<1>2. A \in Nat /\ B \in Nat
  BY LenProperties
<1> HIDE DEF cs, A, B
<1>3. ASSUME NEW n \in 1..B PROVE A + n \in 1..Len(cs) /\ cs[A + n] = bs[n]
  <2>1. A + n \in 1..(A + B) /\ ~(A + n <= A) /\ (A + n) - A = n
    BY <1>2
  <2> QED
    BY <1>1, <2>1
<1>4. \A n \in 1..A : n \in 1..Len(cs) /\ cs[n] = as[n]
  <2> SUFFICES ASSUME NEW n \in 1..A PROVE n \in 1..Len(cs) /\ cs[n] = as[n]
    OBVIOUS
  <2>1. n \in 1..(A + B) /\ n <= A
    BY <1>2
  <2> QED
    BY <1>1, <2>1
<1> QED
  BY <1>1, <1>3, <1>4 DEF cs, A, B

LEMMA Associative == \A s, t, u \in Seq(Messages) : (s \o t) \o u = s \o (t \o u)
<1>1. \A V : \A s, t, u \in Seq(V) : (s \o t) \o u = s \o (t \o u)
  BY ConcatAssociative
<1> DEFINE V == Seq(Messages)
<1>2. \A s, t, u \in V : (s \o t) \o u = s \o (t \o u)
  BY <1>1
<1> QED
  BY <1>2

LEMMA AppendOfConcat ==
    \A as, bs \in Seq(Messages), e \in Messages : Append(as \o bs, e) = as \o Append(bs, e)
<1> SUFFICES ASSUME NEW as \in Seq(Messages), NEW bs \in Seq(Messages), NEW e \in Messages
             PROVE  Append(as \o bs, e) = as \o Append(bs, e)
  OBVIOUS
<1> DEFINE cs == as \o bs
<1>1. cs \in Seq(Messages)
  BY ConcatProperties
<1>2. <<e>> \in Seq(Messages)
  OBVIOUS
<1>3. cs \o <<e>> = as \o (bs \o <<e>>)
  BY <1>2, Associative, Zenon
<1> HIDE DEF cs
<1>4. Append(cs, e) = cs \o <<e>> /\ Append(bs, e) = bs \o <<e>>
  BY <1>1, AppendIsConcat
<1> QED
  BY <1>3, <1>4 DEF cs

----------------------------------------------------------------------------
(* The number of tokens.                                                   *)

Sum(ms) ==
    CHOOSE sum : sum = [n \in 0..Len(ms) |-> IF n = 0 THEN 0 ELSE sum[n - 1] + ms[n].size]

LEMMA TokensRecur ==
    ASSUME NEW ms \in Seq(Messages)
    PROVE  /\ Tokens(ms) = Sum(ms)[Len(ms)]
           /\ Sum(ms) \in [0..Len(ms) -> Nat]
           /\ Sum(ms)[0] = 0
           /\ \A n \in 1..Len(ms) : Sum(ms)[n] = Sum(ms)[n - 1] + ms[n].size
<1> DEFINE L == Len(ms)
           step == [n \in 1..L |-> [v \in Nat |-> v + ms[n].size]]
<1>1. L \in Nat /\ \A n \in 1..L : ms[n].size \in Nat
  BY MessagesOf
<1>2. 0 \in Nat /\ L \in Nat /\ step \in Steps(L, Nat)
  BY <1>1 DEF Steps
<1>3. PICK f : Recurs(f, L, Nat, 0, step)
  <2> HIDE DEF step, L
  <2> QED
    BY <1>2, Recursion
<1>4. ASSUME NEW n \in 1..L PROVE f[n] = f[n - 1] + ms[n].size
  <2>1. n - 1 \in 0..L /\ f[n - 1] \in Nat
    BY <1>1, <1>3 DEF Recurs
  <2> QED
    BY <1>3, <2>1 DEF Recurs
<1>5. \A n \in 0..L : f[n] = IF n = 0 THEN 0 ELSE f[n - 1] + ms[n].size
  <2> HIDE DEF L, step
  <2>1. f[0] = 0 /\ \A n \in 0..L : n # 0 => n \in 1..L
    BY <1>1, <1>3 DEF Recurs
  <2> QED
    BY <1>4, <2>1
<1>6. f \in [0..L -> Nat]
  BY <1>3 DEF Recurs
<1> HIDE DEF step
<1>7. f = [n \in 0..L |-> IF n = 0 THEN 0 ELSE f[n - 1] + ms[n].size]
  BY <1>5, <1>6, Zenon
<1> DEFINE sum == Sum(ms)
<1>8. sum = [n \in 0..L |-> IF n = 0 THEN 0 ELSE sum[n - 1] + ms[n].size]
  BY <1>7, Zenon DEF Sum
<1>9. Tokens(ms) = sum[L]
  BY Zenon DEF Tokens, Sum
<1> HIDE DEF L, sum
<1>10. \A n \in 0..L : sum[n] = IF n = 0 THEN 0 ELSE sum[n - 1] + ms[n].size
  BY <1>8, Zenon
<1>11. sum[0] = 0
  BY <1>1, <1>10
<1>12. ASSUME NEW n \in 1..L PROVE sum[n] = sum[n - 1] + ms[n].size
  <2>1. n \in 0..L /\ n # 0
    BY <1>1
  <2> QED
    BY <1>10, <2>1, Zenon
<1>13. \A n \in 0..L : f[n] = sum[n]
  <2>1. \A n \in 1..L : f[n - 1] = sum[n - 1] => f[n] = sum[n]
    BY <1>4, <1>12
  <2>2. SameSteps(f, sum, L)
    BY <1>3, <1>11, <2>1 DEF Recurs, SameSteps
  <2> QED
    BY <1>1, <2>2, SameRecursion DEF Same
<1>14. sum \in [0..L -> Nat]
  BY <1>6, <1>8, <1>13, Zenon
<1> QED
  BY <1>9, <1>11, <1>12, <1>14, Zenon DEF L, sum

LEMMA TokensType == ASSUME NEW ms \in Seq(Messages) PROVE Tokens(ms) \in Nat
BY TokensRecur, MessagesOf

LEMMA TokensOfEmpty == Tokens(<<>>) = 0
<1>1. <<>> \in Seq(Messages) /\ Len(<<>>) = 0
  BY EmptySeq
<1> QED
  BY <1>1, TokensRecur

\* A conversation has the tokens of its parts.
LEMMA TokensOfParts ==
    \A as, bs \in Seq(Messages) : Tokens(as \o bs) = Tokens(as) + Tokens(bs)
<1> SUFFICES ASSUME NEW as \in Seq(Messages), NEW bs \in Seq(Messages)
             PROVE  Tokens(as \o bs) = Tokens(as) + Tokens(bs)
  OBVIOUS
<1> DEFINE cs == as \o bs
           A == Len(as)
           B == Len(bs)
           f == Sum(as)
           g == Sum(bs)
           h == Sum(cs)
<1>1. /\ cs \in Seq(Messages) /\ Len(cs) = A + B /\ A \in Nat /\ B \in Nat
      /\ \A n \in 1..A : n \in 1..Len(cs) /\ cs[n] = as[n]
      /\ \A n \in 1..B : A + n \in 1..Len(cs) /\ cs[A + n] = bs[n] /\ bs[n].size \in Nat
  BY PartsOf, MessagesOf
<1>2. /\ f \in [0..A -> Nat] /\ f[0] = 0 /\ Tokens(as) = f[A]
      /\ \A n \in 1..A : f[n] = f[n - 1] + as[n].size
  BY TokensRecur
<1>3. /\ g \in [0..B -> Nat] /\ g[0] = 0 /\ Tokens(bs) = g[B]
      /\ \A n \in 1..B : g[n] = g[n - 1] + bs[n].size
  BY TokensRecur
<1>4. /\ h \in [0..Len(cs) -> Nat] /\ h[0] = 0 /\ Tokens(cs) = h[Len(cs)]
      /\ \A n \in 1..Len(cs) : h[n] = h[n - 1] + cs[n].size
  BY <1>1, TokensRecur
<1> HIDE DEF cs, A, B, f, g, h
<1>5. \A n \in 0..A : f[n] = h[n]
  <2>1. \A n \in 1..A : f[n - 1] = h[n - 1] => f[n] = h[n]
    BY <1>1, <1>2, <1>4
  <2>2. SameSteps(f, h, A)
    BY <1>2, <1>4, <2>1 DEF SameSteps
  <2> QED
    BY <1>1, <2>2, SameRecursion DEF Same
<1> DEFINE hh == [n \in 0..B |-> h[A + n]]
           gg == [n \in 0..B |-> f[A] + g[n]]
<1>6. \A n \in 0..B : hh[n] = gg[n]
  <2>1. hh[0] = gg[0]
    BY <1>1, <1>2, <1>3, <1>5
  <2>2. ASSUME NEW n \in 1..B, hh[n - 1] = gg[n - 1] PROVE hh[n] = gg[n]
    <3>1. n - 1 \in 0..B /\ A + (n - 1) = (A + n) - 1
      BY <1>1
    <3>2. h[A + n] = h[A + (n - 1)] + bs[n].size
      BY <1>1, <1>4, <3>1
    <3>3. g[n] = g[n - 1] + bs[n].size
      BY <1>3
    <3>4. h[A + (n - 1)] = f[A] + g[n - 1]
      BY <2>2, <3>1
    <3>5. f[A] \in Nat /\ g[n - 1] \in Nat /\ bs[n].size \in Nat
      BY <1>1, <1>2, <1>3, <3>1
    <3> QED
      BY <3>2, <3>3, <3>4, <3>5
  <2> HIDE DEF hh, gg
  <2>3. SameSteps(hh, gg, B)
    BY <2>1, <2>2 DEF SameSteps
  <2> QED
    BY <1>1, <2>3, SameRecursion DEF Same
<1>7. h[A + B] = f[A] + g[B]
  BY <1>1, <1>6
<1> QED
  BY <1>1, <1>2, <1>3, <1>4, <1>7 DEF cs

----------------------------------------------------------------------------
(* The messages of a kind.                                                 *)

Picked(ms, M) ==
    CHOOSE pick : pick = [n \in 0..Len(ms) |->
        IF n = 0 THEN <<>>
        ELSE IF ms[n] \in M THEN Append(pick[n - 1], ms[n]) ELSE pick[n - 1]]

LEMMA SelectRecur ==
    ASSUME NEW ms \in Seq(Messages), NEW M
    PROVE  /\ Select(ms, M) = Picked(ms, M)[Len(ms)]
           /\ Picked(ms, M) \in [0..Len(ms) -> Seq(Messages)]
           /\ Picked(ms, M)[0] = <<>>
           /\ \A n \in 1..Len(ms) : Picked(ms, M)[n] =
                IF ms[n] \in M THEN Append(Picked(ms, M)[n - 1], ms[n]) ELSE Picked(ms, M)[n - 1]
<1> DEFINE L == Len(ms)
           V == Seq(Messages)
           step == [n \in 1..L |-> [v \in V |-> IF ms[n] \in M THEN Append(v, ms[n]) ELSE v]]
           pick == Picked(ms, M)
<1>1. L \in Nat /\ \A n \in 1..L : ms[n] \in Messages
  BY MessagesOf
<1>2. <<>> \in V /\ L \in Nat /\ step \in Steps(L, V)
  <2>1. \A n \in 1..L, v \in V : Append(v, ms[n]) \in V
    BY <1>1, AppendProperties
  <2> QED
    BY <1>1, <2>1, EmptySeq DEF Steps
<1>3. PICK f : Recurs(f, L, V, <<>>, step)
  <2> HIDE DEF step, L, V
  <2> QED
    BY <1>2, Recursion
<1>4. ASSUME NEW n \in 1..L
      PROVE  f[n] = IF ms[n] \in M THEN Append(f[n - 1], ms[n]) ELSE f[n - 1]
  <2>1. n - 1 \in 0..L /\ f[n - 1] \in V
    BY <1>1, <1>3 DEF Recurs
  <2> QED
    BY <1>3, <2>1 DEF Recurs
<1>5. \A n \in 0..L : f[n] = IF n = 0 THEN <<>>
                          ELSE IF ms[n] \in M THEN Append(f[n - 1], ms[n]) ELSE f[n - 1]
  <2> HIDE DEF L, V, step
  <2>1. f[0] = <<>> /\ \A n \in 0..L : n # 0 => n \in 1..L
    BY <1>1, <1>3 DEF Recurs
  <2> QED
    BY <1>4, <2>1
<1>6. f \in [0..L -> V]
  BY <1>3 DEF Recurs
<1> HIDE DEF V, step
<1>7. f = [n \in 0..L |-> IF n = 0 THEN <<>>
                          ELSE IF ms[n] \in M THEN Append(f[n - 1], ms[n]) ELSE f[n - 1]]
  BY <1>5, <1>6, Zenon
<1>8. pick = [n \in 0..L |-> IF n = 0 THEN <<>>
                   ELSE IF ms[n] \in M THEN Append(pick[n - 1], ms[n]) ELSE pick[n - 1]]
  BY <1>7, Zenon DEF Picked
<1>9. Select(ms, M) = pick[L]
  BY Zenon DEF Select, Picked
<1> HIDE DEF L, pick
<1>10. \A n \in 0..L : pick[n] = IF n = 0 THEN <<>>
                    ELSE IF ms[n] \in M THEN Append(pick[n - 1], ms[n]) ELSE pick[n - 1]
  BY <1>8, Zenon
<1>11. pick[0] = <<>>
  BY <1>1, <1>10
<1>12. ASSUME NEW n \in 1..L
       PROVE  pick[n] = IF ms[n] \in M THEN Append(pick[n - 1], ms[n]) ELSE pick[n - 1]
  <2>1. n \in 0..L /\ n # 0
    BY <1>1
  <2> QED
    BY <1>10, <2>1, Zenon
<1>13. \A n \in 0..L : f[n] = pick[n]
  <2>1. \A n \in 1..L : f[n - 1] = pick[n - 1] => f[n] = pick[n]
    BY <1>4, <1>12
  <2>2. SameSteps(f, pick, L)
    BY <1>3, <1>11, <2>1 DEF Recurs, SameSteps
  <2> QED
    BY <1>1, <2>2, SameRecursion DEF Same
<1>14. pick \in [0..L -> V]
  BY <1>6, <1>8, <1>13, Zenon
<1> QED
  BY <1>9, <1>11, <1>12, <1>14, Zenon DEF L, V, pick

LEMMA SelectType == ASSUME NEW ms \in Seq(Messages), NEW M PROVE Select(ms, M) \in Seq(Messages)
BY SelectRecur, MessagesOf

\* A conversation in which none is of the kind, and one in which all are.
LEMMA SelectNone ==
    ASSUME NEW ms \in Seq(Messages), NEW M, \A n \in 1..Len(ms) : ms[n] \notin M
    PROVE  Select(ms, M) = <<>>
<1> DEFINE L == Len(ms)
           pick == Picked(ms, M)
           none == [n \in 0..L |-> <<>>]
<1>1. L \in Nat /\ Select(ms, M) = pick[L]
  BY MessagesOf, SelectRecur
<1>2. SameSteps(pick, none, L)
  <2>1. pick[0] = none[0] /\ \A n \in 1..L : pick[n] = pick[n - 1] /\ none[n] = none[n - 1]
    BY <1>1, SelectRecur
  <2> HIDE DEF L, pick, none
  <2> QED
    BY <2>1 DEF SameSteps
<1>3. pick[L] = none[L]
  <2> HIDE DEF L, pick, none
  <2> QED
    BY <1>1, <1>2, SameRecursion DEF Same
<1> QED
  BY <1>1, <1>3

LEMMA SelectAll ==
    ASSUME NEW ms \in Seq(Messages), NEW M, \A n \in 1..Len(ms) : ms[n] \in M
    PROVE  Select(ms, M) = ms
<1> DEFINE L == Len(ms)
           pick == Picked(ms, M)
           all == [n \in 0..L |-> SubSeq(ms, 1, n)]
<1>1. L \in Nat /\ Select(ms, M) = pick[L]
  BY MessagesOf, SelectRecur
<1>2. SameSteps(pick, all, L)
  <2>1. pick[0] = <<>> /\ \A n \in 1..L : pick[n] = Append(pick[n - 1], ms[n])
    BY SelectRecur
  <2>2. all[0] = <<>>
    BY <1>1
  <2>3. ASSUME NEW n \in 1..L PROVE all[n] = Append(all[n - 1], ms[n])
    <3>1. SubSeq(ms, 1, n) = Append(SubSeq(ms, 1, n - 1), ms[n])
      BY <1>1
    <3>2. n \in 0..L /\ n - 1 \in 0..L
      BY <1>1
    <3>3. all[n] = SubSeq(ms, 1, n) /\ all[n - 1] = SubSeq(ms, 1, n - 1)
      BY <3>2, Zenon
    <3> QED
      BY <3>1, <3>3, Zenon
  <2> HIDE DEF L, pick, all
  <2> QED
    BY <2>1, <2>2, <2>3 DEF SameSteps
<1>3. pick[L] = all[L]
  <2> HIDE DEF L, pick, all
  <2> QED
    BY <1>1, <1>2, SameRecursion DEF Same
<1>4. all[L] = ms
  BY <1>1
<1> QED
  BY <1>1, <1>3, <1>4

\* A conversation has the messages of its parts.
LEMMA SelectOfParts ==
    \A M : \A as, bs \in Seq(Messages) : Select(as \o bs, M) = Select(as, M) \o Select(bs, M)
<1> SUFFICES ASSUME NEW as \in Seq(Messages), NEW bs \in Seq(Messages), NEW M
             PROVE  Select(as \o bs, M) = Select(as, M) \o Select(bs, M)
  OBVIOUS
<1> DEFINE cs == as \o bs
           A == Len(as)
           B == Len(bs)
           f == Picked(as, M)
           g == Picked(bs, M)
           h == Picked(cs, M)
<1>1. /\ cs \in Seq(Messages) /\ Len(cs) = A + B /\ A \in Nat /\ B \in Nat
      /\ \A n \in 1..A : n \in 1..Len(cs) /\ cs[n] = as[n]
      /\ \A n \in 1..B : A + n \in 1..Len(cs) /\ cs[A + n] = bs[n] /\ bs[n] \in Messages
  BY PartsOf, MessagesOf
<1>2. /\ f \in [0..A -> Seq(Messages)] /\ f[0] = <<>> /\ Select(as, M) = f[A]
      /\ \A n \in 1..A : f[n] = IF as[n] \in M THEN Append(f[n - 1], as[n]) ELSE f[n - 1]
  BY SelectRecur
<1>3. /\ g \in [0..B -> Seq(Messages)] /\ g[0] = <<>> /\ Select(bs, M) = g[B]
      /\ \A n \in 1..B : g[n] = IF bs[n] \in M THEN Append(g[n - 1], bs[n]) ELSE g[n - 1]
  BY SelectRecur
<1>4. /\ h \in [0..Len(cs) -> Seq(Messages)] /\ h[0] = <<>> /\ Select(cs, M) = h[Len(cs)]
      /\ \A n \in 1..Len(cs) : h[n] = IF cs[n] \in M THEN Append(h[n - 1], cs[n]) ELSE h[n - 1]
  <2> HIDE DEF cs, A, B, f, g
  <2>1. cs \in Seq(Messages)
    BY <1>1
  <2> QED
    BY <2>1, SelectRecur
<1> HIDE DEF cs, A, B, f, g, h
<1>5. \A n \in 0..A : f[n] = h[n]
  <2>1. \A n \in 1..A : f[n - 1] = h[n - 1] => f[n] = h[n]
    BY <1>1, <1>2, <1>4
  <2>2. SameSteps(f, h, A)
    BY <1>2, <1>4, <2>1 DEF SameSteps
  <2> QED
    BY <1>1, <2>2, SameRecursion DEF Same
<1>6. f[A] \in Seq(Messages) /\ \A n \in 0..B : g[n] \in Seq(Messages)
  BY <1>1, <1>2, <1>3
<1> DEFINE hh == [n \in 0..B |-> h[A + n]]
           gg == [n \in 0..B |-> f[A] \o g[n]]
<1>7. \A n \in 0..B : hh[n] = gg[n]
  <2>1. hh[0] = gg[0]
    <3>1. A + 0 = A /\ A \in 0..A /\ 0 \in 0..B
      BY <1>1
    <3>2. h[A] = f[A] /\ f[A] \o g[0] = f[A]
      BY <1>3, <1>5, <1>6, <3>1, ConcatEmptySeq
    <3>3. hh[0] = h[A + 0] /\ gg[0] = f[A] \o g[0]
      BY <3>1, Zenon
    <3> QED
      BY <3>1, <3>2, <3>3, Zenon
  <2>2. ASSUME NEW n \in 1..B, hh[n - 1] = gg[n - 1] PROVE hh[n] = gg[n]
    <3>1. n - 1 \in 0..B /\ n \in 0..B /\ A + (n - 1) = (A + n) - 1
      BY <1>1
    <3>2. h[A + n] = IF bs[n] \in M THEN Append(h[A + (n - 1)], bs[n]) ELSE h[A + (n - 1)]
      BY <1>1, <1>4, <3>1
    <3>3. g[n] = IF bs[n] \in M THEN Append(g[n - 1], bs[n]) ELSE g[n - 1]
      BY <1>3
    <3>4. h[A + (n - 1)] = f[A] \o g[n - 1]
      <4>1. hh[n - 1] = h[A + (n - 1)] /\ gg[n - 1] = f[A] \o g[n - 1]
        BY <3>1, Zenon
      <4> QED
        BY <2>2, <4>1, Zenon
    <3>5. Append(f[A] \o g[n - 1], bs[n]) = f[A] \o Append(g[n - 1], bs[n])
      <4>1. bs[n] \in Messages /\ g[n - 1] \in Seq(Messages) /\ f[A] \in Seq(Messages)
        BY <1>1, <1>6, <3>1
      <4> QED
        BY <4>1, AppendOfConcat, Zenon
    <3>6. h[A + n] = f[A] \o g[n]
      BY <3>2, <3>3, <3>4, <3>5
    <3> QED
      BY <3>1, <3>6, Zenon
  <2> HIDE DEF hh, gg
  <2>3. SameSteps(hh, gg, B)
    BY <2>1, <2>2 DEF SameSteps
  <2> QED
    BY <1>1, <2>3, SameRecursion DEF Same
<1>8. h[A + B] = f[A] \o g[B]
  <2>1. B \in 0..B
    BY <1>1
  <2>2. hh[B] = h[A + B] /\ gg[B] = f[A] \o g[B]
    BY <2>1, Zenon
  <2> QED
    BY <1>7, <2>1, <2>2, Zenon
<1> QED
  BY <1>1, <1>2, <1>3, <1>4, <1>8 DEF cs

----------------------------------------------------------------------------
(* The turns of the model.                                                 *)

\* Each call is followed by its answers, and the turns rise.
IsCall(ms, i) ==
    /\ ms[i].role = "call"
    /\ i > 1 => ms[i - 1].turn < ms[i].turn
    /\ i < Len(ms) /\ ms[i + 1].role = "result"

IsAnswer(ms, i) == ms[i].role = "result" /\ i > 1 /\ ms[i - 1].turn = ms[i].turn

Whole(ms) == \A i \in 1..Len(ms) : IsCall(ms, i) \/ IsAnswer(ms, i)

\* The conversation is one turn: a call and its answers.
OneTurn(ms, t) ==
    /\ Len(ms) > 1
    /\ ms[1].role = "call"
    /\ \A i \in 2..Len(ms) : ms[i].role = "result"
    /\ \A i \in 1..Len(ms) : ms[i].turn = t

LEMMA TurnsOf ==
    ASSUME NEW ms \in Seq(Messages)
    PROVE  \A i \in 1..Len(ms) : ms[i].turn \in Nat
<1>1. \A m \in Messages : m.turn \in Nat
  BY DEF Messages
<1> QED
  BY <1>1, MessagesOf

LEMMA OneTurnIsWhole ==
    ASSUME NEW ms \in Seq(Messages), NEW t, OneTurn(ms, t)
    PROVE  Whole(ms)
<1> SUFFICES ASSUME NEW i \in 1..Len(ms) PROVE IsCall(ms, i) \/ IsAnswer(ms, i)
  BY DEF Whole
<1>1. Len(ms) \in Nat
  BY LenProperties
<1>2. CASE i = 1
  BY <1>1, <1>2 DEF OneTurn, IsCall
<1>3. CASE i # 1
  <2>1. i \in 2..Len(ms) /\ i - 1 \in 1..Len(ms)
    BY <1>1, <1>3
  <2> QED
    BY <2>1 DEF OneTurn, IsAnswer
<1> QED
  BY <1>2, <1>3

\* The turns never fall.
LEMMA TurnsRise ==
    ASSUME NEW ms \in Seq(Messages), Whole(ms)
    PROVE  \A i, j \in 1..Len(ms) : i <= j => ms[i].turn <= ms[j].turn
<1> DEFINE S == {j \in 0..Len(ms) : \A i \in 1..j : ms[i].turn <= ms[j].turn}
<1>1. Len(ms) \in Nat /\ \A i \in 1..Len(ms) : ms[i].turn \in Nat
  BY LenProperties, TurnsOf
<1>2. 0 \in S
  BY <1>1
<1>3. ASSUME NEW j \in 0..Len(ms), j + 1 <= Len(ms) /\ j \in S PROVE j + 1 \in S
  <2>1. j + 1 \in 1..Len(ms) /\ (j + 1) - 1 = j
    BY <1>1, <1>3
  <2>2. j + 1 > 1 => ms[j].turn <= ms[j + 1].turn
    <3> SUFFICES ASSUME j + 1 > 1 PROVE ms[j].turn <= ms[j + 1].turn
      OBVIOUS
    <3>1. j \in 1..Len(ms)
      BY <1>1
    <3> QED
      BY <1>1, <2>1, <3>1 DEF Whole, IsCall, IsAnswer
  <2>3. ASSUME NEW i \in 1..(j + 1) PROVE ms[i].turn <= ms[j + 1].turn
    <3>1. CASE i = j + 1
      BY <1>1, <2>1, <3>1
    <3>2. CASE i # j + 1
      <4>1. i \in 1..j /\ j \in 1..Len(ms) /\ i \in 1..Len(ms) /\ j + 1 > 1
        BY <1>1, <3>2
      <4>2. ms[i].turn <= ms[j].turn
        BY <1>3, <4>1
      <4> QED
        BY <1>1, <2>1, <2>2, <4>1, <4>2
    <3> QED
      BY <3>1, <3>2
  <2> QED
    BY <2>1, <2>3
<1>4. 0..Len(ms) \subseteq S
  <2> HIDE DEF S
  <2> QED
    BY <1>1, <1>2, <1>3, BoundedInduction
<1> QED
  BY <1>1, <1>4

\* Every message but a call follows the call that it answers.
Follows(ms, i, j) ==
    ms[j].role = "call" /\ \A k \in (j + 1)..i : ms[k].role = "result" /\ ms[k].turn = ms[j].turn

LEMMA EveryMessageHasACall ==
    ASSUME NEW ms \in Seq(Messages), Whole(ms)
    PROVE  \A i \in 1..Len(ms) : \E j \in 1..i : Follows(ms, i, j)
<1> DEFINE S == {i \in 0..Len(ms) : i > 0 => \E j \in 1..i : Follows(ms, i, j)}
<1>1. Len(ms) \in Nat
  BY LenProperties
<1>2. 0 \in S
  BY <1>1
<1>3. ASSUME NEW i \in 0..Len(ms), i + 1 <= Len(ms) /\ i \in S PROVE i + 1 \in S
  <2>1. i + 1 \in 1..Len(ms) /\ (i + 1) - 1 = i /\ i + 1 \in 1..(i + 1)
    BY <1>1, <1>3
  <2>2. CASE IsCall(ms, i + 1)
    <3>1. Follows(ms, i + 1, i + 1)
      BY <2>1, <2>2 DEF Follows, IsCall
    <3> QED
      BY <2>1, <3>1
  <2>3. CASE IsAnswer(ms, i + 1)
    <3>1. i > 0 /\ ms[i + 1].role = "result" /\ ms[i].turn = ms[i + 1].turn
      BY <2>1, <2>3 DEF IsAnswer
    <3>2. PICK j \in 1..i : Follows(ms, i, j)
      BY <1>3, <3>1
    <3>3. j \in 1..(i + 1) /\ \A k \in (j + 1)..(i + 1) : k \in (j + 1)..i \/ k = i + 1
      BY <3>1
    <3>4. ms[i].turn = ms[j].turn
      <4>1. i = j \/ i \in (j + 1)..i
        BY <3>1
      <4> QED
        BY <3>2, <4>1 DEF Follows
    <3>5. Follows(ms, i + 1, j)
      BY <3>1, <3>2, <3>3, <3>4 DEF Follows
    <3> QED
      BY <2>1, <3>3, <3>5
  <2> QED
    BY <2>1, <2>2, <2>3 DEF Whole
<1>4. 0..Len(ms) \subseteq S
  <2> HIDE DEF S
  <2> QED
    BY <1>1, <1>2, <1>3, BoundedInduction
<1> QED
  BY <1>1, <1>4

\* The blocks that Recent takes begin at the calls.
LEMMA BlocksStartAtCalls ==
    ASSUME NEW ms \in Seq(Messages), Whole(ms)
    PROVE  BlockStarts(ms) = {i \in 1..Len(ms) : ms[i].role = "call"}
<1>1. Len(ms) \in Nat /\ DOMAIN ms = 1..Len(ms)
  BY LenProperties
<1>2. ASSUME NEW i \in 1..Len(ms), ms[i].role = "call" PROVE i \in BlockStarts(ms)
  <2>1. \A j \in 1..(i - 1) : i \in (j + 1)..i
    BY <1>1
  <2> QED
    BY <1>1, <1>2, <2>1 DEF BlockStarts
<1>3. ASSUME NEW i \in BlockStarts(ms) PROVE i \in 1..Len(ms) /\ ms[i].role = "call"
  <2>1. i \in 1..Len(ms)
    BY <1>1 DEF BlockStarts
  <2>2. PICK j \in 1..i : Follows(ms, i, j)
    BY <2>1, EveryMessageHasACall
  <2>3. ~(j \in 1..(i - 1))
    BY <2>2 DEF BlockStarts, Follows
  <2>4. j = i
    BY <1>1, <2>1, <2>3
  <2> QED
    BY <2>1, <2>2, <2>4 DEF Follows
<1> QED
  BY <1>2, <1>3

\* A conversation in three parts.
LEMMA ThreeParts ==
    ASSUME NEW ms \in Seq(Messages), NEW i \in 1..Len(ms), NEW j \in i..Len(ms)
    PROVE  LET as == SubSeq(ms, 1, i - 1)
               bs == SubSeq(ms, i, j)
               cs == SubSeq(ms, j + 1, Len(ms))
           IN  /\ as \in Seq(Messages) /\ bs \in Seq(Messages) /\ cs \in Seq(Messages)
               /\ ms = as \o (bs \o cs)
               /\ Len(as) = i - 1 /\ Len(bs) = (j - i) + 1 /\ Len(cs) = Len(ms) - j
               /\ \A k \in 1..Len(as) : as[k] = ms[k]
               /\ \A k \in 1..Len(bs) : bs[k] = ms[(i + k) - 1]
               /\ \A k \in 1..Len(cs) : cs[k] = ms[j + k]
<1> DEFINE as == SubSeq(ms, 1, i - 1)
           bs == SubSeq(ms, i, j)
           cs == SubSeq(ms, j + 1, Len(ms))
           L == Len(ms)
<1>1. L \in Nat /\ \A k \in 1..L : ms[k] \in Messages
  BY MessagesOf
<1>2. /\ as \in Seq(Messages) /\ Len(as) = i - 1
      /\ \A k \in 1..Len(as) : as[k] = ms[k]
  <2>1. 1 \in Int /\ i - 1 \in Int /\ \A k \in 1..(i - 1) : ms[k] \in Messages
    BY <1>1
  <2> QED
    BY <1>1, <2>1, SubSeqProperties
<1>3. /\ bs \in Seq(Messages) /\ Len(bs) = (j - i) + 1
      /\ \A k \in 1..Len(bs) : bs[k] = ms[(i + k) - 1]
  <2>1. i \in Int /\ j \in Int /\ \A k \in i..j : ms[k] \in Messages
    BY <1>1
  <2> QED
    BY <1>1, <2>1, SubSeqProperties
<1>4. /\ cs \in Seq(Messages) /\ Len(cs) = L - j
      /\ \A k \in 1..Len(cs) : cs[k] = ms[j + k]
  <2>1. j + 1 \in Int /\ L \in Int /\ \A k \in (j + 1)..L : ms[k] \in Messages
    BY <1>1
  <2> QED
    BY <1>1, <2>1, SubSeqProperties
<1>5. bs \o cs = SubSeq(ms, i, L)
  <2>1. i \in 1..(L + 1) /\ j \in (i - 1)..L /\ L \in j..L
    BY <1>1
  <2> QED
    BY <2>1, ConcatAdjacentSubSeq
<1>6. as \o SubSeq(ms, i, L) = ms
  <2>1. 1 \in 1..(L + 1) /\ i - 1 \in (1 - 1)..L /\ L \in (i - 1)..L /\ (i - 1) + 1 = i
    BY <1>1
  <2>2. as \o SubSeq(ms, (i - 1) + 1, L) = SubSeq(ms, 1, L)
    BY <2>1, ConcatAdjacentSubSeq
  <2> QED
    BY <2>1, <2>2, SubSeqFull
<1> QED
  BY <1>2, <1>3, <1>4, <1>5, <1>6

\* The end of a block: the last position before the next call.
IsEnd(ms, i, j) ==
    /\ j \in i..Len(ms)
    /\ \A k \in (i + 1)..j : k \notin BlockStarts(ms)
    /\ j = Len(ms) \/ j + 1 \in BlockStarts(ms)

LEMMA BlockEnds ==
    ASSUME NEW ms \in Seq(Messages), NEW i \in 1..Len(ms)
    PROVE  \E j : IsEnd(ms, i, j) /\ Block(ms, i) = SubSeq(ms, i, j)
<1> DEFINE L == Len(ms)
           S == {j \in i..L : j = L \/ j + 1 \in BlockStarts(ms)}
           End == CHOOSE j \in i..L : /\ \A k \in (i + 1)..j : k \notin BlockStarts(ms)
                                      /\ j = L \/ j + 1 \in BlockStarts(ms)
<1>1. L \in Nat
  BY LenProperties
<1>2. S \subseteq Nat /\ L \in S
  BY <1>1
<1>3. PICK x \in S : \A y \in S : x <= y
  <2> HIDE DEF S
  <2> QED
    BY <1>2, Least
<1>4. ASSUME NEW k \in (i + 1)..x PROVE k \notin BlockStarts(ms)
  <2>1. k - 1 \in i..L /\ k - 1 < x /\ (k - 1) + 1 = k
    BY <1>1
  <2>2. k - 1 \notin S
    <3> HIDE DEF S
    <3> QED
      BY <1>2, <1>3, <2>1
  <2> QED
    BY <2>1, <2>2
<1>5. \E j \in i..L : /\ \A k \in (i + 1)..j : k \notin BlockStarts(ms)
                      /\ j = L \/ j + 1 \in BlockStarts(ms)
  BY <1>3, <1>4
<1>6. IsEnd(ms, i, End)
  BY <1>5, Zenon DEF IsEnd
<1>7. Block(ms, i) = SubSeq(ms, i, End)
  BY Zenon DEF Block
<1> QED
  BY <1>6, <1>7, Zenon

CallOf(ms, i, t) == i \in 1..Len(ms) /\ ms[i].role = "call" /\ ms[i].turn = t

\* The block that begins at a call is the whole turn of that call.
LEMMA BlockIsTurn ==
    ASSUME NEW ms \in Seq(Messages), Whole(ms), NEW i \in 1..Len(ms), NEW t \in Nat,
           CallOf(ms, i, t)
    PROVE  /\ Block(ms, i) \in Seq(Messages)
           /\ OneTurn(Block(ms, i), t)
           /\ OfTurn(ms, t) = Block(ms, i)
<1> DEFINE L == Len(ms)
           M == {m \in Messages : m.turn = t}
<1>1. L \in Nat /\ \A k \in 1..L : ms[k] \in Messages /\ ms[k].turn \in Nat
  BY MessagesOf, TurnsOf
<1>2. BlockStarts(ms) = {k \in 1..L : ms[k].role = "call"}
  BY BlocksStartAtCalls
<1>3. PICK j : IsEnd(ms, i, j) /\ Block(ms, i) = SubSeq(ms, i, j)
  BY BlockEnds
<1>4. j \in i..L /\ j \in Nat /\ i \in Nat
  BY <1>1, <1>3 DEF IsEnd
<1>5. \A k \in (i + 1)..j : IsAnswer(ms, k)
  <2> SUFFICES ASSUME NEW k \in (i + 1)..j PROVE IsAnswer(ms, k)
    OBVIOUS
  <2>1. k \in 1..L /\ k \notin BlockStarts(ms)
    BY <1>1, <1>3, <1>4 DEF IsEnd
  <2>2. ms[k].role # "call"
    BY <1>2, <2>1
  <2> QED
    BY <2>1, <2>2 DEF Whole, IsCall
<1>6. \A k \in i..j : ms[k].turn = t
  <2> DEFINE S == {n \in 0..(j - i) : ms[i + n].turn = t}
  <2>1. j - i \in Nat /\ 0 \in S
    BY <1>4 DEF CallOf
  <2>2. ASSUME NEW n \in 0..(j - i), n + 1 <= j - i /\ n \in S PROVE n + 1 \in S
    <3>1. i + (n + 1) \in (i + 1)..j /\ (i + (n + 1)) - 1 = i + n
      BY <1>4, <2>2
    <3>2. ms[i + n].turn = ms[i + (n + 1)].turn
      BY <1>5, <3>1 DEF IsAnswer
    <3> QED
      BY <1>4, <2>2, <3>2
  <2>3. 0..(j - i) \subseteq S
    <3> HIDE DEF S
    <3> QED
      BY <2>1, <2>2, BoundedInduction
  <2>4. ASSUME NEW k \in i..j PROVE ms[k].turn = t
    <3>1. k - i \in 0..(j - i) /\ i + (k - i) = k
      BY <1>4
    <3>2. ms[i + (k - i)].turn = t
      BY <2>3, <3>1
    <3> QED
      BY <3>1, <3>2
  <2> QED
    BY <2>4
<1>7. \A k \in 1..(i - 1) : ms[k].turn < t
  <2> SUFFICES ASSUME NEW k \in 1..(i - 1) PROVE ms[k].turn < t
    OBVIOUS
  <2>1. k \in 1..L /\ i - 1 \in 1..L /\ k <= i - 1 /\ i > 1
    BY <1>1
  <2>2. ms[k].turn <= ms[i - 1].turn
    BY <2>1, TurnsRise
  <2>3. ms[i - 1].turn < t
    BY <2>1 DEF Whole, IsCall, IsAnswer, CallOf
  <2>4. ms[k].turn \in Nat /\ ms[i - 1].turn \in Nat
    BY <1>1, <2>1
  <2> QED
    BY <2>2, <2>3, <2>4, Between, Zenon
<1>8. \A k \in (j + 1)..L : ms[k].turn > t
  <2> SUFFICES ASSUME NEW k \in (j + 1)..L PROVE ms[k].turn > t
    OBVIOUS
  <2>1. j + 1 \in 1..L /\ k \in 1..L /\ j \in 1..L /\ j + 1 <= k /\ (j + 1) - 1 = j /\ j + 1 > 1
    BY <1>1, <1>4
  <2>2. ms[j + 1].role = "call"
    BY <1>2, <1>3, <1>4, <2>1 DEF IsEnd
  <2>3. ms[j].turn < ms[j + 1].turn
    BY <2>1, <2>2 DEF Whole, IsCall, IsAnswer
  <2>4. ms[j + 1].turn <= ms[k].turn
    BY <2>1, TurnsRise
  <2>5. ms[j].turn = t
    BY <1>4, <1>6
  <2>6. ms[j + 1].turn \in Nat /\ ms[k].turn \in Nat
    BY <1>1, <2>1
  <2> QED
    BY <2>3, <2>4, <2>5, <2>6, Between, Zenon
<1>9. i + 1 \in (i + 1)..j
  <2>1. i < L /\ ms[i + 1].role = "result" /\ i + 1 \in 1..L
    BY <1>1 DEF Whole, IsCall, IsAnswer, CallOf
  <2>2. i + 1 \notin BlockStarts(ms)
    BY <1>2, <2>1
  <2> QED
    BY <1>1, <1>3, <1>4, <2>1, <2>2 DEF IsEnd
<1> DEFINE as == SubSeq(ms, 1, i - 1)
           bs == SubSeq(ms, i, j)
           cs == SubSeq(ms, j + 1, L)
<1>10. /\ as \in Seq(Messages) /\ bs \in Seq(Messages) /\ cs \in Seq(Messages)
       /\ ms = as \o (bs \o cs)
       /\ Len(as) = i - 1 /\ Len(bs) = (j - i) + 1 /\ Len(cs) = L - j
       /\ \A k \in 1..Len(as) : as[k] = ms[k]
       /\ \A k \in 1..Len(bs) : bs[k] = ms[(i + k) - 1]
       /\ \A k \in 1..Len(cs) : cs[k] = ms[j + k]
  BY <1>4, ThreeParts
<1> HIDE DEF L, M, as, bs, cs
<1>11. OneTurn(bs, t)
  <2>1. Len(bs) > 1 /\ bs[1] = ms[i]
    <3>1. Len(bs) > 1 /\ 1 \in 1..Len(bs) /\ (i + 1) - 1 = i
      BY <1>4, <1>9, <1>10
    <3> QED
      BY <1>10, <3>1
  <2>2. ASSUME NEW k \in 2..Len(bs) PROVE bs[k].role = "result"
    <3>1. (i + k) - 1 \in (i + 1)..j /\ k \in 1..Len(bs)
      BY <1>4, <1>10
    <3> QED
      BY <1>5, <1>10, <3>1 DEF IsAnswer
  <2>3. ASSUME NEW k \in 1..Len(bs) PROVE bs[k].turn = t
    <3>1. (i + k) - 1 \in i..j
      BY <1>4, <1>10
    <3> QED
      BY <1>6, <1>10, <3>1
  <2> QED
    BY <2>1, <2>2, <2>3 DEF OneTurn, CallOf
<1>12. Select(as, M) = <<>>
  <2>1. ASSUME NEW k \in 1..Len(as) PROVE as[k].turn # t
    <3>1. k \in 1..(i - 1) /\ k \in 1..L
      BY <1>1, <1>4, <1>10
    <3>2. ms[k].turn < t /\ ms[k].turn \in Nat
      BY <1>1, <1>7, <3>1
    <3> QED
      BY <1>10, <3>2, Between, Zenon
  <2> QED
    BY <1>10, <2>1, SelectNone DEF M
<1>13. Select(bs, M) = bs
  <2>1. \A k \in 1..Len(bs) : bs[k] \in Messages /\ bs[k].turn = t
    BY <1>10, <1>11, MessagesOf DEF OneTurn
  <2> QED
    BY <1>10, <2>1, SelectAll DEF M
<1>14. Select(cs, M) = <<>>
  <2>1. ASSUME NEW k \in 1..Len(cs) PROVE cs[k].turn # t
    <3>1. j + k \in (j + 1)..L /\ j + k \in 1..L
      BY <1>1, <1>4, <1>10
    <3>2. ms[j + k].turn > t /\ ms[j + k].turn \in Nat
      BY <1>1, <1>8, <3>1
    <3> QED
      BY <1>10, <3>2, Between, Zenon
  <2> QED
    BY <1>10, <2>1, SelectNone DEF M
<1>15. Select(ms, M) = bs
  <2>1. bs \o cs \in Seq(Messages)
    BY <1>10, ConcatProperties
  <2>2. Select(as \o (bs \o cs), M) = Select(as, M) \o Select(bs \o cs, M)
    BY <1>10, <2>1, SelectOfParts, Zenon
  <2>3. Select(bs \o cs, M) = Select(bs, M) \o Select(cs, M)
    BY <1>10, SelectOfParts, Zenon
  <2>4. <<>> \o (bs \o <<>>) = bs
    BY <1>10, ConcatEmptySeq
  <2> QED
    BY <1>10, <1>12, <1>13, <1>14, <2>2, <2>3, <2>4
<1> QED
  BY <1>3, <1>10, <1>11, <1>15, Zenon DEF OfTurn, M, bs

\* Whole turns put after whole turns of before.
LEMMA WholeParts ==
    ASSUME NEW as \in Seq(Messages), NEW bs \in Seq(Messages), Whole(as), Whole(bs),
           \A i \in 1..Len(as), j \in 1..Len(bs) : as[i].turn < bs[j].turn
    PROVE  Whole(as \o bs)
<1> DEFINE cs == as \o bs
           A == Len(as)
           B == Len(bs)
<1>1. Len(cs) = A + B /\ A \in Nat /\ B \in Nat
  BY PartsOf, LenProperties
<1>2. /\ \A n \in 1..A : cs[n] = as[n]
      /\ \A n \in 1..B : cs[A + n] = bs[n]
  BY PartsOf
<1> HIDE DEF cs, A, B
<1>3. ASSUME NEW n \in 1..A PROVE IsCall(cs, n) \/ IsAnswer(cs, n)
  <2>1. CASE IsCall(as, n)
    <3>1. n < A
      BY <2>1 DEF IsCall, A
    <3>2. n + 1 \in 1..A /\ n < Len(cs) /\ (n > 1 => n - 1 \in 1..A)
      BY <1>1, <3>1
    <3> QED
      BY <1>2, <2>1, <3>2 DEF IsCall
  <2>2. CASE IsAnswer(as, n)
    <3>1. n > 1
      BY <2>2 DEF IsAnswer
    <3>2. n - 1 \in 1..A
      BY <1>1, <3>1
    <3> QED
      BY <1>2, <2>2, <3>2 DEF IsAnswer
  <2> QED
    BY <2>1, <2>2 DEF Whole, A
<1>4. ASSUME NEW n \in 1..B PROVE IsCall(cs, A + n) \/ IsAnswer(cs, A + n)
  <2>1. CASE IsCall(bs, n)
    <3>1. n < B
      BY <2>1 DEF IsCall, B
    <3>2. n + 1 \in 1..B /\ A + n < Len(cs) /\ (A + n) + 1 = A + (n + 1)
      BY <1>1, <3>1
    <3>3. cs[A + n].role = "call" /\ cs[(A + n) + 1].role = "result"
      BY <1>2, <2>1, <3>2 DEF IsCall
    <3>4. ASSUME A + n > 1 PROVE cs[(A + n) - 1].turn < cs[A + n].turn
      <4>1. CASE n = 1
        <5>1. A \in 1..A /\ (A + n) - 1 = A /\ 1 \in 1..B
          BY <1>1, <3>4, <4>1
        <5>2. cs[A] = as[A] /\ as[A].turn < bs[1].turn
          BY <1>2, <5>1 DEF A, B
        <5> QED
          BY <1>2, <4>1, <5>1, <5>2
      <4>2. CASE n > 1
        <5>1. n - 1 \in 1..B /\ (A + n) - 1 = A + (n - 1)
          BY <1>1, <4>2
        <5> QED
          BY <1>2, <2>1, <4>2, <5>1 DEF IsCall
      <4> QED
        BY <4>1, <4>2
    <3> QED
      BY <3>2, <3>3, <3>4 DEF IsCall
  <2>2. CASE IsAnswer(bs, n)
    <3>1. n > 1
      BY <2>2 DEF IsAnswer
    <3>2. n > 1 /\ n - 1 \in 1..B /\ (A + n) - 1 = A + (n - 1) /\ A + n > 1
      BY <1>1, <3>1
    <3> QED
      BY <1>2, <2>2, <3>2 DEF IsAnswer
  <2> QED
    BY <2>1, <2>2 DEF Whole, B
<1>5. ASSUME NEW n \in 1..Len(cs) PROVE IsCall(cs, n) \/ IsAnswer(cs, n)
  <2>1. CASE n <= A
    <3>1. n \in 1..A
      BY <1>1, <2>1
    <3> QED
      BY <1>3, <3>1
  <2>2. CASE n > A
    <3>1. n - A \in 1..B /\ A + (n - A) = n
      BY <1>1, <2>2
    <3>2. IsCall(cs, A + (n - A)) \/ IsAnswer(cs, A + (n - A))
      BY <1>4, <3>1
    <3> QED
      BY <3>1, <3>2
  <2> QED
    BY <1>1, <2>1, <2>2
<1> QED
  BY <1>5 DEF Whole, cs

----------------------------------------------------------------------------
(* The recent messages.                                                    *)

\* A turn is kept as it is, or the whole of it is cut for want of room.
KeptOrCut(ms, kept, t) ==
    \/ OfTurn(kept, t) = OfTurn(ms, t)
    \/ /\ OfTurn(kept, t) = <<>>
       /\ Tokens(LaterThan(kept, t) \o OfTurn(ms, t)) > MaxRecent

\* What has been kept of the last n messages.
KeptOf(ms, n, kept) ==
    /\ kept \in Seq(Messages) /\ Whole(kept)
    /\ Tokens(kept) <= MaxRecent
    /\ \A i \in 1..Len(kept) : \E c \in ((Len(ms) + 1) - n)..Len(ms) : CallOf(ms, c, kept[i].turn)
    /\ \A c \in ((Len(ms) + 1) - n)..Len(ms) : \A t \in Nat :
            CallOf(ms, c, t) => KeptOrCut(ms, kept, t)

WithBlock(ms, i, kept) ==
    IF i \in BlockStarts(ms) /\ Tokens(Block(ms, i) \o kept) <= MaxRecent
      THEN Block(ms, i) \o kept ELSE kept

\* What of a conversation is of a turn, and of the later turns, when all of it
\* is of one turn or of later turns.
LEMMA OfOneTurn ==
    ASSUME NEW ms \in Seq(Messages), NEW t \in Nat, OneTurn(ms, t), NEW u \in Nat
    PROVE  /\ u # t => OfTurn(ms, u) = <<>>
           /\ u = t => OfTurn(ms, u) = ms
           /\ u >= t => LaterThan(ms, u) = <<>>
<1>1. \A k \in 1..Len(ms) : ms[k] \in Messages /\ ms[k].turn = t
  BY MessagesOf DEF OneTurn
<1>2. ASSUME u # t PROVE OfTurn(ms, u) = <<>>
  BY <1>1, <1>2, SelectNone DEF OfTurn
<1>3. ASSUME u = t PROVE OfTurn(ms, u) = ms
  BY <1>1, <1>3, SelectAll DEF OfTurn
<1>4. ASSUME u >= t PROVE LaterThan(ms, u) = <<>>
  <2>1. \A k \in 1..Len(ms) : ~(ms[k].turn > u)
    BY <1>1, <1>4
  <2> QED
    BY <2>1, SelectNone DEF LaterThan
<1> QED
  BY <1>2, <1>3, <1>4

LEMMA OfLaterTurns ==
    ASSUME NEW ms \in Seq(Messages), NEW t \in Nat, \A i \in 1..Len(ms) : t < ms[i].turn
    PROVE  OfTurn(ms, t) = <<>> /\ LaterThan(ms, t) = ms
<1>1. \A k \in 1..Len(ms) : ms[k] \in Messages /\ ms[k].turn # t /\ ms[k].turn > t
  <2>1. \A k \in 1..Len(ms) : ms[k].turn \in Nat
    BY TurnsOf
  <2> QED
    BY <2>1, MessagesOf
<1>2. OfTurn(ms, t) = <<>>
  BY <1>1, SelectNone DEF OfTurn
<1>3. LaterThan(ms, t) = ms
  BY <1>1, SelectAll DEF LaterThan
<1> QED
  BY <1>2, <1>3

LEMMA TakeBlock ==
    ASSUME AgentAssumption, NEW ms \in Seq(Messages), Whole(ms),
           NEW n \in 0..Len(ms), n + 1 <= Len(ms), NEW kept, KeptOf(ms, n, kept)
    PROVE  KeptOf(ms, n + 1, WithBlock(ms, (Len(ms) + 1) - (n + 1), kept))
<1> DEFINE L == Len(ms)
           p == (L + 1) - n
           i == (L + 1) - (n + 1)
<1>1. L \in Nat
  BY LenProperties
<1>2. /\ i \in 1..L /\ i \in Nat /\ i + 1 = p
      /\ i \in i..L /\ \A c \in i..L : c = i \/ c \in p..L
      /\ p..L \subseteq i..L
  <2>1. i \in 1..L /\ i \in Nat /\ i + 1 = p
    BY <1>1
  <2>2. p \in Nat /\ i <= p
    BY <2>1
  <2> HIDE DEF L, p, i
  <2>3. ASSUME NEW c \in i..L, c # i PROVE c \in p..L
    BY <1>1, <2>1, <2>2, <2>3
  <2>4. ASSUME NEW c \in p..L PROVE c \in i..L
    BY <1>1, <2>1, <2>2
  <2>5. i \in i..L
    BY <1>1, <2>1
  <2> QED
    BY <2>1, <2>3, <2>4, <2>5
<1>3. /\ kept \in Seq(Messages) /\ Whole(kept) /\ Tokens(kept) <= MaxRecent
      /\ \A k \in 1..Len(kept) : \E c \in p..L : CallOf(ms, c, kept[k].turn)
      /\ \A c \in p..L : \A t \in Nat : CallOf(ms, c, t) => KeptOrCut(ms, kept, t)
  BY DEF KeptOf
<1>4. BlockStarts(ms) = {c \in 1..L : ms[c].role = "call"}
  BY BlocksStartAtCalls
<1>5. \A k \in 1..L : ms[k].turn \in Nat
  BY TurnsOf
<1> HIDE DEF L, p, i
<1>6. SUFFICES KeptOf(ms, n + 1, WithBlock(ms, i, kept))
  BY DEF i, L
<1> DEFINE new == WithBlock(ms, i, kept)
\* The message is not the beginning of a block.
<1>7. CASE i \notin BlockStarts(ms)
  <2>1. new = kept
    BY <1>7 DEF WithBlock
  <2>2. \A t : ~CallOf(ms, i, t)
    BY <1>2, <1>4, <1>7 DEF CallOf
  <2>3. \A k \in 1..Len(kept) : \E c \in i..L : CallOf(ms, c, kept[k].turn)
    BY <1>2, <1>3
  <2>4. \A c \in i..L : \A t \in Nat : CallOf(ms, c, t) => KeptOrCut(ms, kept, t)
    BY <1>2, <1>3, <2>2
  <2> QED
    BY <1>3, <2>1, <2>3, <2>4 DEF KeptOf, i, L
<1>8. CASE i \in BlockStarts(ms)
  <2>1. PICK t \in Nat : CallOf(ms, i, t)
    BY <1>2, <1>4, <1>5, <1>8 DEF CallOf, L
  <2> DEFINE bs == Block(ms, i)
  <2>2. bs \in Seq(Messages) /\ OneTurn(bs, t) /\ OfTurn(ms, t) = bs
    BY <1>2, <2>1, BlockIsTurn DEF L
  <2>3. \A c \in p..L : \A u \in Nat : CallOf(ms, c, u) => t < u
    <3> SUFFICES ASSUME NEW c \in p..L, NEW u \in Nat, CallOf(ms, c, u) PROVE t < u
      OBVIOUS
    <3>1. c > 1 /\ c - 1 \in 1..L /\ i <= c - 1 /\ c \in 1..L
      BY <1>1, <1>2
    <3>2. ms[c - 1].turn < u
      BY <3>1 DEF CallOf, Whole, IsCall, IsAnswer, L
    <3>3. ms[i].turn <= ms[c - 1].turn
      BY <1>2, <3>1, TurnsRise DEF L
    <3>4. ms[i].turn = t
      BY <2>1 DEF CallOf
    <3>5. ms[c - 1].turn \in Nat
      BY <1>5, <3>1
    <3> QED
      BY <3>2, <3>3, <3>4, <3>5, Between, Zenon
  <2>4. \A k \in 1..Len(kept) : t < kept[k].turn
    <3>1. \A k \in 1..Len(kept) : kept[k].turn \in Nat
      BY <1>3, TurnsOf
    <3> QED
      BY <1>3, <2>3, <3>1
  <2>5. OfTurn(kept, t) = <<>> /\ LaterThan(kept, t) = kept
    BY <1>3, <2>4, OfLaterTurns
  <2>6. Tokens(bs) \in Nat /\ Tokens(kept) \in Nat
    BY <1>3, <2>2, TokensType
  <2> HIDE DEF bs, new
  \* The block is passed over.
  <2>7. CASE ~(Tokens(bs \o kept) <= MaxRecent)
    <3>1. new = kept
      BY <2>7 DEF WithBlock, new, bs
    <3>2. /\ Tokens(kept \o bs) = Tokens(kept) + Tokens(bs)
          /\ Tokens(bs \o kept) = Tokens(bs) + Tokens(kept)
      BY <1>3, <2>2, TokensOfParts
    <3>3. Tokens(LaterThan(kept, t) \o OfTurn(ms, t)) > MaxRecent
      <4>1. Tokens(kept \o bs) = Tokens(bs \o kept)
        BY <2>6, <3>2
      <4>2. Tokens(bs \o kept) \in Nat /\ MaxRecent \in Nat
        BY <2>6, <3>2 DEF AgentAssumption
      <4>3. Tokens(kept \o bs) > MaxRecent
        BY <2>7, <4>1, <4>2
      <4> QED
        BY <2>2, <2>5, <4>3
    <3>4. KeptOrCut(ms, kept, t)
      BY <2>5, <3>3 DEF KeptOrCut
    <3>5. \A k \in 1..Len(kept) : \E c \in i..L : CallOf(ms, c, kept[k].turn)
      BY <1>2, <1>3
    <3>6. \A c \in i..L : \A u \in Nat : CallOf(ms, c, u) => KeptOrCut(ms, kept, u)
      BY <1>2, <1>3, <2>1, <3>4 DEF CallOf
    <3>7. KeptOf(ms, n + 1, kept)
      BY <1>3, <3>5, <3>6 DEF KeptOf, i, L
    <3> QED
      BY <3>1, <3>7 DEF new
  \* The block is put in front.
  <2>8. CASE Tokens(bs \o kept) <= MaxRecent
    <3>1. new = bs \o kept
      BY <1>8, <2>8 DEF WithBlock, new, bs
    <3>2. /\ new \in Seq(Messages) /\ Len(new) = Len(bs) + Len(kept)
          /\ \A k \in 1..Len(new) : (k <= Len(bs) /\ new[k] = bs[k])
                                      \/ (k > Len(bs) /\ new[k] = kept[k - Len(bs)])
      BY <1>3, <2>2, <3>1, ConcatProperties
    <3>3. Whole(new)
      <4>1. \A k \in 1..Len(bs), m \in 1..Len(kept) : bs[k].turn < kept[m].turn
        BY <2>2, <2>4 DEF OneTurn
      <4>2. Whole(bs)
        BY <2>2, OneTurnIsWhole
      <4> QED
        BY <1>3, <2>2, <3>1, <4>1, <4>2, WholeParts
    <3>4. \A k \in 1..Len(new) : \E c \in i..L : CallOf(ms, c, new[k].turn)
      <4> SUFFICES ASSUME NEW k \in 1..Len(new) PROVE \E c \in i..L : CallOf(ms, c, new[k].turn)
        OBVIOUS
      <4>1. Len(bs) \in Nat /\ Len(kept) \in Nat
        BY <1>3, <2>2, LenProperties
      <4>2. CASE k <= Len(bs) /\ new[k] = bs[k]
        <5>1. k \in 1..Len(bs)
          BY <4>1, <4>2
        <5>2. new[k].turn = t
          BY <2>2, <4>2, <5>1 DEF OneTurn
        <5> QED
          BY <1>2, <2>1, <5>2
      <4>3. CASE k > Len(bs) /\ new[k] = kept[k - Len(bs)]
        <5>1. k \in 1..(Len(bs) + Len(kept)) /\ k > Len(bs)
          BY <3>2, <4>3
        <5>2. k - Len(bs) \in 1..Len(kept)
          BY <4>1, <5>1
        <5>3. PICK c \in p..L : CallOf(ms, c, kept[k - Len(bs)].turn)
          BY <1>3, <5>2
        <5> QED
          BY <1>2, <4>3, <5>3
      <4> QED
        BY <3>2, <4>2, <4>3
    <3>5. \A u \in Nat : /\ OfTurn(new, u) = OfTurn(bs, u) \o OfTurn(kept, u)
                         /\ LaterThan(new, u) = LaterThan(bs, u) \o LaterThan(kept, u)
      BY <1>3, <2>2, <3>1, SelectOfParts, Zenon DEF OfTurn, LaterThan
    <3>6. KeptOrCut(ms, new, t)
      <4>1. OfTurn(bs, t) = bs
        BY <2>2, OfOneTurn
      <4>2. OfTurn(new, t) = bs \o <<>>
        BY <2>5, <3>5, <4>1
      <4>3. OfTurn(new, t) = OfTurn(ms, t)
        BY <2>2, <4>2, ConcatEmptySeq
      <4> QED
        BY <4>3 DEF KeptOrCut
    <3>7. ASSUME NEW c \in p..L, NEW u \in Nat, CallOf(ms, c, u) PROVE KeptOrCut(ms, new, u)
      <4>1. t < u /\ u # t /\ u >= t
        BY <2>3, <3>7
      <4>2. OfTurn(bs, u) = <<>> /\ LaterThan(bs, u) = <<>>
        BY <2>2, <4>1, OfOneTurn
      <4>3. OfTurn(kept, u) \in Seq(Messages) /\ LaterThan(kept, u) \in Seq(Messages)
        BY <1>3, SelectType DEF OfTurn, LaterThan
      <4>4. OfTurn(new, u) = OfTurn(kept, u) /\ LaterThan(new, u) = LaterThan(kept, u)
        BY <3>5, <4>2, <4>3, ConcatEmptySeq
      <4>5. KeptOrCut(ms, kept, u)
        BY <1>3, <3>7
      <4> QED
        BY <4>4, <4>5 DEF KeptOrCut
    <3>8. \A c \in i..L : \A u \in Nat : CallOf(ms, c, u) => KeptOrCut(ms, new, u)
      BY <1>2, <2>1, <3>6, <3>7 DEF CallOf
    <3>9. Tokens(new) <= MaxRecent
      BY <2>8, <3>1
    <3>10. KeptOf(ms, n + 1, new)
      BY <3>2, <3>3, <3>4, <3>8, <3>9 DEF KeptOf, i, L
    <3> QED
      BY <3>10 DEF new
  <2> QED
    BY <2>7, <2>8
<1> QED
  BY <1>7, <1>8

\* What Recent has kept, as it goes back from the newest message.
Take(ms) ==
    CHOOSE take : take = [n \in 0..Len(ms) |->
        IF n = 0 THEN <<>> ELSE WithBlock(ms, (Len(ms) + 1) - n, take[n - 1])]

LEMMA RecentRecurs ==
    ASSUME NEW ms \in Seq(Messages), Whole(ms)
    PROVE  /\ Recent(ms) = Take(ms)[Len(ms)]
           /\ Take(ms)[0] = <<>>
           /\ \A n \in 1..Len(ms) :
                Take(ms)[n] = WithBlock(ms, (Len(ms) + 1) - n, Take(ms)[n - 1])
<1> DEFINE L == Len(ms)
           V == Seq(Messages)
           step == [n \in 1..L |-> [v \in V |-> WithBlock(ms, (L + 1) - n, v)]]
           take == Take(ms)
<1>1. L \in Nat
  BY LenProperties
<1>2. <<>> \in V /\ L \in Nat /\ step \in Steps(L, V)
  <2>1. ASSUME NEW n \in 1..L, NEW v \in V PROVE WithBlock(ms, (L + 1) - n, v) \in V
    <3>1. (L + 1) - n \in 1..L
      BY <1>1
    <3>2. CASE (L + 1) - n \in BlockStarts(ms)
      <4>1. ms[(L + 1) - n].role = "call" /\ ms[(L + 1) - n].turn \in Nat
        BY <3>1, <3>2, BlocksStartAtCalls, TurnsOf
      <4>2. Block(ms, (L + 1) - n) \in V
        BY <3>1, <4>1, BlockIsTurn DEF CallOf
      <4>3. Block(ms, (L + 1) - n) \o v \in V
        BY <4>2, ConcatProperties
      <4> QED
        BY <4>3 DEF WithBlock
    <3>3. CASE (L + 1) - n \notin BlockStarts(ms)
      BY <3>3 DEF WithBlock
    <3> QED
      BY <3>2, <3>3
  <2> QED
    BY <1>1, <2>1, EmptySeq DEF Steps
<1>3. PICK f : Recurs(f, L, V, <<>>, step)
  <2> HIDE DEF step, L, V
  <2> QED
    BY <1>2, Recursion
<1>4. ASSUME NEW n \in 1..L PROVE f[n] = WithBlock(ms, (L + 1) - n, f[n - 1])
  <2>1. n - 1 \in 0..L /\ f[n - 1] \in V
    BY <1>1, <1>3 DEF Recurs
  <2> QED
    BY <1>3, <2>1 DEF Recurs
<1>5. \A n \in 0..L : f[n] = IF n = 0 THEN <<>> ELSE WithBlock(ms, (L + 1) - n, f[n - 1])
  <2> HIDE DEF L, V, step
  <2>1. f[0] = <<>> /\ \A n \in 0..L : n # 0 => n \in 1..L
    BY <1>1, <1>3 DEF Recurs
  <2> QED
    BY <1>4, <2>1
<1>6. f \in [0..L -> V]
  BY <1>3 DEF Recurs
<1> HIDE DEF V, step
<1>7. f = [n \in 0..L |-> IF n = 0 THEN <<>> ELSE WithBlock(ms, (L + 1) - n, f[n - 1])]
  BY <1>5, <1>6, Zenon
<1>8. take = [n \in 0..L |-> IF n = 0 THEN <<>> ELSE WithBlock(ms, (L + 1) - n, take[n - 1])]
  BY <1>7, Zenon DEF Take
<1>9. Recent(ms) = take[L]
  BY Zenon DEF Recent, Take, WithBlock
<1> HIDE DEF L, take
<1>10. \A n \in 0..L : take[n] = IF n = 0 THEN <<>> ELSE WithBlock(ms, (L + 1) - n, take[n - 1])
  BY <1>8, Zenon
<1>11. take[0] = <<>>
  BY <1>1, <1>10
<1>12. ASSUME NEW n \in 1..L PROVE take[n] = WithBlock(ms, (L + 1) - n, take[n - 1])
  <2>1. n \in 0..L /\ n # 0
    BY <1>1
  <2> QED
    BY <1>10, <2>1, Zenon
<1> QED
  BY <1>9, <1>11, <1>12, Zenon DEF L, take

\* Recent keeps whole turns, as many as there is room for.
LEMMA RecentOf ==
    ASSUME AgentAssumption, NEW ms \in Seq(Messages), Whole(ms)
    PROVE  /\ Recent(ms) \in Seq(Messages) /\ Whole(Recent(ms))
           /\ Tokens(Recent(ms)) <= MaxRecent
           /\ \A i \in 1..Len(Recent(ms)) : \E j \in 1..Len(ms) : Recent(ms)[i].turn = ms[j].turn
           /\ \A j \in 1..Len(ms) : KeptOrCut(ms, Recent(ms), ms[j].turn)
<1> DEFINE L == Len(ms)
           S == {n \in 0..L : KeptOf(ms, n, Take(ms)[n])}
<1>1. L \in Nat
  BY LenProperties
<1>2. 0 \in S
  <2>1. <<>> \in Seq(Messages) /\ Len(<<>>) = 0 /\ Tokens(<<>>) <= MaxRecent
    BY EmptySeq, TokensOfEmpty DEF AgentAssumption
  <2>2. ((L + 1) - 0)..L = {} /\ 1..0 = {}
    BY <1>1
  <2>3. KeptOf(ms, 0, <<>>)
    BY <2>1, <2>2 DEF KeptOf, Whole
  <2> QED
    BY <1>1, <2>3, RecentRecurs
<1>3. ASSUME NEW n \in 0..L, n + 1 <= L /\ n \in S PROVE n + 1 \in S
  <2>1. n + 1 \in 1..L /\ (n + 1) - 1 = n /\ n + 1 \in 0..L
    BY <1>1, <1>3
  <2>2. Take(ms)[n + 1] = WithBlock(ms, (L + 1) - (n + 1), Take(ms)[n])
    BY <2>1, RecentRecurs
  <2>3. KeptOf(ms, n + 1, WithBlock(ms, (L + 1) - (n + 1), Take(ms)[n]))
    BY <1>3, TakeBlock
  <2> QED
    BY <2>1, <2>2, <2>3
<1>4. 0..L \subseteq S
  <2> HIDE DEF S
  <2> QED
    BY <1>1, <1>2, <1>3, BoundedInduction
<1> DEFINE kept == Recent(ms)
<1>5. KeptOf(ms, L, kept)
  BY <1>1, <1>4, RecentRecurs
<1>6. (L + 1) - L = 1
  BY <1>1
<1> HIDE DEF kept, S
<1>7. /\ kept \in Seq(Messages) /\ Whole(kept) /\ Tokens(kept) <= MaxRecent
      /\ \A i \in 1..Len(kept) : \E c \in 1..L : CallOf(ms, c, kept[i].turn)
      /\ \A c \in 1..L : \A t \in Nat : CallOf(ms, c, t) => KeptOrCut(ms, kept, t)
  BY <1>5, <1>6 DEF KeptOf
<1>8. \A i \in 1..Len(kept) : \E j \in 1..L : kept[i].turn = ms[j].turn
  BY <1>7 DEF CallOf
<1>9. ASSUME NEW j \in 1..L PROVE KeptOrCut(ms, kept, ms[j].turn)
  <2>1. PICK c \in 1..j : Follows(ms, j, c)
    BY EveryMessageHasACall
  <2>2. c \in 1..L /\ (c = j \/ j \in (c + 1)..j)
    BY <1>1
  <2>3. CallOf(ms, c, ms[j].turn) /\ ms[j].turn \in Nat
    BY <2>1, <2>2, TurnsOf DEF Follows, CallOf
  <2> QED
    BY <1>7, <2>2, <2>3
<1> QED
  BY <1>7, <1>8, <1>9 DEF kept

----------------------------------------------------------------------------
(* The form of the agent's conversation: the system message with its       *)
(* hints, the question, perhaps a summary, and the turns.                  *)

First(h) == Message("system", 0, 2 + h)

Summaries == {<<>>, <<Summary>>}

Conversation(h, s, ms) == <<First(h), Question>> \o (s \o ms)

LEMMA FixedMessages ==
    ASSUME NEW h \in Nat
    PROVE  /\ <<First(h), Question>> \in Seq(Messages)
           /\ First(h) \in Messages /\ Question \in Messages /\ Summary \in Messages
           /\ <<Summary>> \in Seq(Messages)
<1>1. First(h) \in Messages /\ Question \in Messages /\ Summary \in Messages
  BY DEF First, Question, Summary, Message, Messages, Roles
<1> QED
  BY <1>1

LEMMA SummariesType ==
    ASSUME NEW s \in Summaries
    PROVE  /\ s \in Seq(Messages) /\ Len(s) \in 0..1 /\ Tokens(s) \in 0..1
           /\ \A i \in 1..Len(s) : i = 1 /\ s[i] = Summary
<1>1. CASE s = <<>>
  BY <1>1, EmptySeq, TokensOfEmpty
<1>2. CASE s = <<Summary>>
  <2>1. s \in Seq(Messages) /\ Len(s) = 1 /\ s[1] = Summary
    BY <1>2, FixedMessages
  <2>2. Tokens(s) = Sum(s)[1] /\ Sum(s)[0] = 0 /\ Sum(s)[1] = Sum(s)[1 - 1] + s[1].size
    <3>1. 1 \in 1..1
      OBVIOUS
    <3> QED
      BY <2>1, <3>1, TokensRecur
  <2>3. s[1].size = 1
    BY <2>1 DEF Summary, Message
  <2>4. Tokens(s) = 1
    BY <2>2, <2>3
  <2> QED
    BY <2>1, <2>4
<1> QED
  BY <1>1, <1>2 DEF Summaries

\* The messages of the conversation, and that there are no others.
HasForm(cs, h, s, ms) ==
    /\ cs \in Seq(Messages)
    /\ Len(cs) = (2 + Len(s)) + Len(ms)
    /\ cs[1] = First(h) /\ cs[2] = Question
    /\ \A i \in 1..Len(s) : cs[2 + i] = Summary
    /\ \A i \in 1..Len(ms) : cs[(2 + Len(s)) + i] = ms[i]
    /\ \A k \in 1..Len(cs) : \/ k \in {1, 2}
                             \/ k = 3 /\ Len(s) = 1
                             \/ \E i \in 1..Len(ms) : k = (2 + Len(s)) + i

LEMMA ConversationType ==
    ASSUME NEW h \in Nat, NEW s \in Summaries, NEW ms \in Seq(Messages)
    PROVE  s \o ms \in Seq(Messages) /\ HasForm(Conversation(h, s, ms), h, s, ms)
<1> DEFINE cs == Conversation(h, s, ms)
           as == <<First(h), Question>>
           bs == s \o ms
<1>1. /\ as \in Seq(Messages) /\ s \in Seq(Messages)
      /\ Len(as) = 2 /\ as[1] = First(h) /\ as[2] = Question
      /\ \A i \in 1..Len(s) : s[i] = Summary
  BY FixedMessages, SummariesType
<1>2. Len(s) \in 0..1 /\ Len(ms) \in Nat
  BY SummariesType, LenProperties
<1>3. /\ bs \in Seq(Messages) /\ Len(bs) = Len(s) + Len(ms)
      /\ \A i \in 1..Len(s) : i \in 1..Len(bs) /\ bs[i] = s[i]
      /\ \A i \in 1..Len(ms) : Len(s) + i \in 1..Len(bs) /\ bs[Len(s) + i] = ms[i]
  BY <1>1, PartsOf
<1> HIDE DEF bs, as
<1>4. /\ cs \in Seq(Messages) /\ Len(cs) = Len(as) + Len(bs)
      /\ \A i \in 1..Len(as) : cs[i] = as[i]
      /\ \A i \in 1..Len(bs) : cs[Len(as) + i] = bs[i]
  BY <1>1, <1>3, PartsOf DEF Conversation, as, bs
<1> HIDE DEF cs
<1>5. Len(cs) = (2 + Len(s)) + Len(ms)
  BY <1>1, <1>2, <1>3, <1>4
<1>6. cs[1] = First(h) /\ cs[2] = Question
  <2>1. 1 \in 1..Len(as) /\ 2 \in 1..Len(as)
    BY <1>1
  <2> QED
    BY <1>1, <1>4, <2>1
<1>7. ASSUME NEW i \in 1..Len(s) PROVE cs[2 + i] = Summary
  <2>1. cs[2 + i] = bs[i]
    BY <1>1, <1>3, <1>4
  <2> QED
    BY <1>1, <1>3, <2>1
<1>8. ASSUME NEW i \in 1..Len(ms) PROVE cs[(2 + Len(s)) + i] = ms[i]
  <2>1. (2 + Len(s)) + i = 2 + (Len(s) + i)
    BY <1>2
  <2>2. cs[2 + (Len(s) + i)] = bs[Len(s) + i]
    BY <1>1, <1>3, <1>4
  <2> QED
    BY <1>3, <2>1, <2>2
<1>9. ASSUME NEW k \in 1..Len(cs)
      PROVE  k \in {1, 2} \/ (k = 3 /\ Len(s) = 1) \/ \E i \in 1..Len(ms) : k = (2 + Len(s)) + i
  <2>1. k \in {1, 2} \/ (k = 3 /\ Len(s) = 1) \/ k > 2 + Len(s)
    <3> DEFINE l == Len(s)
    <3>1. l \in 0..1
      BY <1>2
    <3> HIDE DEF l
    <3>2. k \in {1, 2} \/ (k = 3 /\ l = 1) \/ k > 2 + l
      <4>1. k \in Nat /\ k >= 1
        BY <1>2, <1>5
      <4>2. l = 0 \/ l = 1
        BY <3>1
      <4> QED
        BY <4>1, <4>2
    <3> QED
      BY <3>2 DEF l
  <2>2. ASSUME k > 2 + Len(s) PROVE \E i \in 1..Len(ms) : k = (2 + Len(s)) + i
    <3>1. k - (2 + Len(s)) \in 1..Len(ms) /\ k = (2 + Len(s)) + (k - (2 + Len(s)))
      BY <1>2, <1>5, <2>2
    <3> QED
      BY <3>1
  <2> QED
    BY <2>1, <2>2
<1> QED
  BY <1>3, <1>4, <1>5, <1>6, <1>7, <1>8, <1>9 DEF HasForm, cs, bs

LEMMA ConversationTokens ==
    ASSUME NEW h \in Nat, NEW s \in Summaries, NEW ms \in Seq(Messages)
    PROVE  Tokens(Conversation(h, s, ms)) = ((3 + h) + Tokens(s)) + Tokens(ms)
<1> DEFINE as == <<First(h), Question>>
<1>1. as \in Seq(Messages) /\ Len(as) = 2 /\ as[1].size = 2 + h /\ as[2].size = 1
  BY FixedMessages DEF First, Question, Message
<1> HIDE DEF as
<1>2. Tokens(as) = 3 + h
  <2>1. 1 \in 1..2 /\ 2 \in 1..2 /\ 1 - 1 = 0 /\ 2 - 1 = 1
    OBVIOUS
  <2>2. Tokens(as) = Sum(as)[2] /\ Sum(as)[0] = 0
    BY <1>1, TokensRecur
  <2>3. Sum(as)[1] = Sum(as)[0] + as[1].size /\ Sum(as)[2] = Sum(as)[1] + as[2].size
    BY <1>1, <2>1, TokensRecur
  <2>4. Sum(as)[1] = 2 + h /\ Sum(as)[2] = (2 + h) + 1
    BY <1>1, <2>2, <2>3
  <2> QED
    BY <2>2, <2>4
<1>3. s \in Seq(Messages) /\ s \o ms \in Seq(Messages)
  BY SummariesType, ConversationType
<1>4. Tokens(as \o (s \o ms)) = Tokens(as) + Tokens(s \o ms)
  BY <1>1, <1>3, TokensOfParts, Zenon
<1>5. Tokens(s \o ms) = Tokens(s) + Tokens(ms)
  BY <1>3, TokensOfParts, Zenon
<1>6. Tokens(s) \in Nat /\ Tokens(ms) \in Nat
  BY <1>3, TokensType
<1>7. Tokens(as \o (s \o ms)) = ((3 + h) + Tokens(s)) + Tokens(ms)
  BY <1>2, <1>4, <1>5, <1>6
<1> QED
  BY <1>7 DEF Conversation, as

\* The messages of a kind in the conversation.
LEMMA ConversationSelect ==
    ASSUME NEW h \in Nat, NEW s \in Summaries, NEW ms \in Seq(Messages), NEW M
    PROVE  Select(Conversation(h, s, ms), M) =
               Select(<<First(h), Question>>, M) \o (Select(s, M) \o Select(ms, M))
<1>1. s \in Seq(Messages) /\ s \o ms \in Seq(Messages) /\ <<First(h), Question>> \in Seq(Messages)
  BY SummariesType, ConversationType, FixedMessages
<1>2. Select(s \o ms, M) = Select(s, M) \o Select(ms, M)
  BY <1>1, SelectOfParts, Zenon
<1>3. Select(<<First(h), Question>> \o (s \o ms), M) =
          Select(<<First(h), Question>>, M) \o Select(s \o ms, M)
  BY <1>1, SelectOfParts, Zenon
<1> QED
  BY <1>2, <1>3, Zenon DEF Conversation

ToolMessages(ms) == \A i \in 1..Len(ms) : ms[i].role \in {"call", "result"}

LEMMA WholeHasToolMessages ==
    ASSUME NEW ms \in Seq(Messages), Whole(ms)
    PROVE  ToolMessages(ms)
BY DEF Whole, IsCall, IsAnswer, ToolMessages

LEMMA ConversationFixed ==
    ASSUME NEW h \in Nat, NEW s \in Summaries, NEW ms \in Seq(Messages), ToolMessages(ms)
    PROVE  Fixed(Conversation(h, s, ms)) = <<First(h), Question>>
<1> DEFINE M == OfRole({"system", "user"})
           as == <<First(h), Question>>
<1>1. as \in Seq(Messages) /\ s \in Seq(Messages)
  BY FixedMessages, SummariesType
<1>2. Select(as, M) = as
  <2>1. First(h) \in M /\ Question \in M
    BY FixedMessages DEF OfRole, First, Question, Message
  <2>2. \A i \in 1..Len(as) : as[i] \in M
    BY <2>1
  <2> HIDE DEF as, M
  <2> QED
    BY <1>1, <2>2, SelectAll
<1>3. Select(s, M) = <<>>
  <2>1. Summary \notin M
    BY DEF OfRole, Summary, Message
  <2>2. \A i \in 1..Len(s) : s[i] \notin M
    BY <2>1, SummariesType
  <2> QED
    BY <1>1, <2>2, SelectNone
<1>4. Select(ms, M) = <<>>
  <2>1. \A i \in 1..Len(ms) : ms[i] \notin M
    BY DEF ToolMessages, OfRole
  <2> QED
    BY <2>1, SelectNone
<1>5. as \o (<<>> \o <<>>) = as
  BY <1>1, ConcatEmptySeq
<1> QED
  BY <1>2, <1>3, <1>4, <1>5, ConversationSelect DEF Fixed

\* Where the fixed messages and the summary are not of the kind, the turns are
\* all there is.
LEMMA ConversationTurns ==
    ASSUME NEW h \in Nat, NEW s \in Summaries, NEW ms \in Seq(Messages), NEW M,
           First(h) \notin M, Question \notin M, Summary \notin M
    PROVE  Select(Conversation(h, s, ms), M) = Select(ms, M)
<1> DEFINE as == <<First(h), Question>>
<1>1. as \in Seq(Messages) /\ s \in Seq(Messages) /\ Select(ms, M) \in Seq(Messages)
  BY FixedMessages, SummariesType, SelectType
<1>2. Select(as, M) = <<>>
  <2>1. \A i \in 1..Len(as) : as[i] \notin M
    OBVIOUS
  <2> HIDE DEF as
  <2> QED
    BY <1>1, <2>1, SelectNone
<1>3. Select(s, M) = <<>>
  <2>1. \A i \in 1..Len(s) : s[i] \notin M
    BY SummariesType
  <2> QED
    BY <1>1, <2>1, SelectNone
<1>4. <<>> \o (<<>> \o Select(ms, M)) = Select(ms, M)
  BY <1>1, ConcatEmptySeq
<1>5. Select(Conversation(h, s, ms), M) = Select(as, M) \o (Select(s, M) \o Select(ms, M))
  BY ConversationSelect
<1> QED
  BY <1>2, <1>3, <1>4, <1>5

LEMMA ConversationRest ==
    ASSUME NEW h \in Nat, NEW s \in Summaries, NEW ms \in Seq(Messages), ToolMessages(ms)
    PROVE  Rest(Conversation(h, s, ms)) = ms
<1> DEFINE M == OfRole({"call", "result"})
<1>1. First(h) \notin M /\ Question \notin M /\ Summary \notin M
  BY DEF OfRole, First, Question, Summary, Message
<1>2. \A i \in 1..Len(ms) : ms[i] \in M
  BY MessagesOf DEF ToolMessages, OfRole
<1> HIDE DEF M
<1>3. Select(ms, M) = ms
  BY <1>2, SelectAll
<1> QED
  BY <1>1, <1>3, ConversationTurns DEF Rest, M

LEMMA ConversationOfTurn ==
    ASSUME NEW h \in Nat, NEW s \in Summaries, NEW ms \in Seq(Messages), NEW t \in Nat \ {0}
    PROVE  /\ OfTurn(Conversation(h, s, ms), t) = OfTurn(ms, t)
           /\ LaterThan(Conversation(h, s, ms), t) = LaterThan(ms, t)
<1> DEFINE M == {m \in Messages : m.turn = t}
           N == {m \in Messages : m.turn > t}
<1>1. First(h) \notin M /\ Question \notin M /\ Summary \notin M
  BY DEF First, Question, Summary, Message
<1>2. First(h) \notin N /\ Question \notin N /\ Summary \notin N
  BY DEF First, Question, Summary, Message
<1> HIDE DEF M, N
<1>3. Select(Conversation(h, s, ms), M) = Select(ms, M)
  BY <1>1, ConversationTurns
<1>4. Select(Conversation(h, s, ms), N) = Select(ms, N)
  BY <1>2, ConversationTurns
<1> QED
  BY <1>3, <1>4 DEF OfTurn, LaterThan, M, N

\* The hint is put into the first message.
LEMMA ConversationHinted ==
    ASSUME NEW h \in Nat, NEW s \in Summaries, NEW ms \in Seq(Messages), hint \in Nat
    PROVE  Hinted(Conversation(h, s, ms)) = Conversation(h + hint, s, ms)
<1> DEFINE cs == Conversation(h, s, ms)
           ds == Conversation(h + hint, s, ms)
<1>1. h + hint \in Nat
  OBVIOUS
<1>2. HasForm(cs, h, s, ms)
  BY ConversationType
<1>3. HasForm(ds, h + hint, s, ms)
  BY <1>1, ConversationType
<1>4. Len(s) \in 0..1 /\ Len(ms) \in Nat
  BY SummariesType, LenProperties
<1>5. [First(h) EXCEPT !.size = First(h).size + hint] = First(h + hint)
  <2>1. (2 + h) + hint = 2 + (h + hint)
    OBVIOUS
  <2> QED
    BY <2>1 DEF First, Message
<1> HIDE DEF cs, ds
<1>6. Hinted(cs) = [cs EXCEPT ![1] = First(h + hint)]
  BY <1>2, <1>5 DEF Hinted, HasForm
<1> DEFINE es == [cs EXCEPT ![1] = First(h + hint)]
<1>7. /\ es \in Seq(Messages) /\ Len(es) = Len(cs)
      /\ \A k \in 1..Len(cs) : es[k] = IF k = 1 THEN First(h + hint) ELSE cs[k]
  <2>1. 1 \in 1..Len(cs) /\ First(h + hint) \in Messages
    BY <1>1, <1>2, <1>4, FixedMessages DEF HasForm
  <2> QED
    BY <1>2, <2>1, ExceptSeq DEF HasForm
<1>8. ASSUME NEW k \in 1..Len(cs), k # 1 PROVE cs[k] = ds[k]
  <2>1. CASE k \in {1, 2}
    BY <1>2, <1>3, <1>8, <2>1 DEF HasForm
  <2>2. CASE k = 3 /\ Len(s) = 1
    <3>1. 1 \in 1..Len(s) /\ k = 2 + 1
      BY <2>2
    <3> QED
      BY <1>2, <1>3, <3>1 DEF HasForm
  <2>3. CASE \E i \in 1..Len(ms) : k = (2 + Len(s)) + i
    BY <1>2, <1>3, <2>3 DEF HasForm
  <2> QED
    BY <1>2, <2>1, <2>2, <2>3 DEF HasForm
<1> HIDE DEF es
<1>9. \A k \in 1..Len(es) : es[k] = ds[k]
  BY <1>2, <1>3, <1>7, <1>8 DEF HasForm
<1>10. es = ds
  <2>1. es \in Seq(Messages) /\ ds \in Seq(Messages) /\ Len(es) = Len(ds)
    BY <1>2, <1>3, <1>7 DEF HasForm
  <2> QED
    BY <1>9, <2>1, SeqEqual
<1> QED
  BY <1>6, <1>10 DEF cs, ds, es

----------------------------------------------------------------------------
(* The inductive invariant.                                                *)

StateInv ==
    /\ apc \in {"rewrite", "model", "tools"} \cup Ended
    /\ hint \in Hints
    /\ steps \in 0..MaxStep
    /\ turns \in 0..steps
    /\ counted \in BOOLEAN
    /\ cut \subseteq 1..turns
    /\ told \subseteq 1..turns

TurnsUpTo(ms, t) == \A i \in 1..Len(ms) : ms[i].turn \in 1..t

\* The turns are whole, but for the last one while its tools run.
TurnsInv(ms) ==
    /\ TurnsUpTo(ms, turns)
    /\ apc \in {"rewrite", "model"} => Whole(ms)
    /\ apc = "tools" => \E qs \in Seq(Messages) :
            /\ Whole(qs)
            /\ \A i \in 1..Len(qs) : qs[i].turn < turns
            /\ ms = Append(qs, Message("call", turns, 1))

\* The hint is there once for each call of the model, and what was counted and
\* is still too long has been cut.
SizeInv(h, ms) ==
    /\ apc \in {"rewrite", "tools"} => h = turns * hint
    /\ apc = "model" => /\ h = (turns + 1) * hint
                        /\ counted => ~OverLimit(conv) \/ Tokens(ms) <= MaxRecent

ConversationInv(h, s, ms) == conv = Conversation(h, s, ms) /\ TurnsInv(ms) /\ SizeInv(h, ms)

AgentInv ==
    /\ StateInv
    /\ \E h \in Nat, s \in Summaries, ms \in Seq(Messages) : ConversationInv(h, s, ms)

LEMMA AgentConstants ==
    ASSUME AgentAssumption
    PROVE  /\ MaxBefore \in Nat /\ MaxRecent \in Nat /\ MaxStep \in Nat /\ Hints \subseteq Nat
           /\ Outputs \subseteq Nat
BY DEF AgentAssumption, Outputs, Guarded

LEMMA ConversationExtended ==
    \A h \in Nat : \A s \in Summaries : \A ms, es \in Seq(Messages) :
        Conversation(h, s, ms) \o es = Conversation(h, s, ms \o es)
<1> SUFFICES ASSUME NEW h \in Nat, NEW s \in Summaries,
                    NEW ms \in Seq(Messages), NEW es \in Seq(Messages)
             PROVE  Conversation(h, s, ms) \o es = Conversation(h, s, ms \o es)
  OBVIOUS
<1> DEFINE as == <<First(h), Question>>
<1>1. as \in Seq(Messages) /\ s \in Seq(Messages) /\ s \o ms \in Seq(Messages)
  BY FixedMessages, SummariesType, ConversationType
<1> HIDE DEF as
<1>2. (as \o (s \o ms)) \o es = as \o ((s \o ms) \o es)
  BY <1>1, Associative, Zenon
<1>3. (s \o ms) \o es = s \o (ms \o es)
  BY <1>1, Associative, Zenon
<1> QED
  BY <1>2, <1>3, Zenon DEF Conversation, as

LEMMA ConversationTurnsIn ==
    ASSUME NEW h \in Nat, NEW s \in Summaries, NEW ms \in Seq(Messages)
    PROVE  TurnsIn(Conversation(h, s, ms)) = {ms[i].turn : i \in 1..Len(ms)} \ {0}
<1> DEFINE cs == Conversation(h, s, ms)
<1>1. HasForm(cs, h, s, ms)
  BY ConversationType
<1>2. Len(s) \in 0..1 /\ Len(ms) \in Nat /\ DOMAIN cs = 1..Len(cs)
  BY <1>1, SummariesType, LenProperties DEF HasForm
<1>3. First(h).turn = 0 /\ Question.turn = 0 /\ Summary.turn = 0
  BY DEF First, Question, Summary, Message
<1> HIDE DEF cs
<1>4. ASSUME NEW i \in 1..Len(ms) PROVE \E k \in 1..Len(cs) : cs[k].turn = ms[i].turn
  <2>1. (2 + Len(s)) + i \in 1..Len(cs)
    BY <1>1, <1>2 DEF HasForm
  <2> QED
    BY <1>1, <2>1 DEF HasForm
<1>5. ASSUME NEW k \in 1..Len(cs), cs[k].turn # 0
      PROVE  \E i \in 1..Len(ms) : cs[k].turn = ms[i].turn
  <2>1. CASE k \in {1, 2}
    BY <1>1, <1>3, <1>5, <2>1 DEF HasForm
  <2>2. CASE k = 3 /\ Len(s) = 1
    <3>1. 1 \in 1..Len(s) /\ k = 2 + 1
      BY <2>2
    <3> QED
      BY <1>1, <1>3, <1>5, <3>1 DEF HasForm
  <2>3. CASE \E i \in 1..Len(ms) : k = (2 + Len(s)) + i
    BY <1>1, <2>3 DEF HasForm
  <2> QED
    BY <1>1, <2>1, <2>2, <2>3 DEF HasForm
<1>6. {cs[k].turn : k \in 1..Len(cs)} \ {0} = {ms[i].turn : i \in 1..Len(ms)} \ {0}
  BY <1>4, <1>5
<1> QED
  BY <1>2, <1>6 DEF TurnsIn, cs

\* The template is given no key that it uses: the prompt tells of no turn.
LEMMA NothingRendered == \A ms : Rendered(Sections(ms)) = {}
<1> SUFFICES ASSUME NEW ms PROVE Rendered(Sections(ms)) = {}
  OBVIOUS
<1>1. DOMAIN Sections(ms) = {"system_prompt", "user_messages", "previous_summary",
                             "older_messages", "recent_messages"}
  BY DEF Sections
<1>2. TemplateKeys \cap DOMAIN Sections(ms) = {}
  BY <1>1 DEF TemplateKeys
<1> QED
  BY <1>2 DEF Rendered

LEMMA AgentInit ==
    ASSUME AgentAssumption, Init
    PROVE  AgentInv
<1>1. StateInv
  <2>1. MaxStep \in Nat
    BY AgentConstants
  <2>2. 0 \in 0..MaxStep /\ 0 \in 0..0
    BY <2>1
  <2> QED
    BY <2>2 DEF Init, StateInv
<1>2. 0 \in Nat /\ <<>> \in Summaries /\ <<>> \in Seq(Messages) /\ Len(<<>>) = 0
  BY EmptySeq DEF Summaries
<1>3. conv = Conversation(0, <<>>, <<>>)
  <2>1. System = First(0)
    BY DEF System, First, Message
  <2>2. <<First(0), Question>> \in Seq(Messages)
    BY FixedMessages
  <2> DEFINE as == <<First(0), Question>>
  <2>3. as \o (<<>> \o <<>>) = as
    BY <2>2, ConcatEmptySeq
  <2> QED
    BY <2>1, <2>3 DEF Init, Conversation
<1>4. TurnsInv(<<>>)
  BY <1>2 DEF TurnsInv, TurnsUpTo, Whole, Init
<1>5. SizeInv(0, <<>>)
  <2>1. hint \in Nat
    BY AgentConstants DEF Init
  <2> QED
    BY <2>1 DEF SizeInv, Init
<1>6. ConversationInv(0, <<>>, <<>>)
  BY <1>3, <1>4, <1>5 DEF ConversationInv
<1> QED
  BY <1>1, <1>2, <1>6 DEF AgentInv

\* Before a call of the model, the hint is added once more.
LEMMA OneMoreHint ==
    ASSUME NEW n \in Nat, NEW k \in Nat
    PROVE  n * k \in Nat /\ n * k + k = (n + 1) * k
OBVIOUS

\* The conversation is rewritten, and the turns are as they were.
LEMMA RewriteInv ==
    ASSUME AgentAssumption, AgentInv, Rewrite \/ CountFails
    PROVE  AgentInv'
<1>1. PICK h \in Nat, s \in Summaries, ms \in Seq(Messages) : ConversationInv(h, s, ms)
  BY DEF AgentInv
<1>2. hint \in Nat /\ turns \in Nat
  BY AgentConstants DEF AgentInv, StateInv
<1>3. StateInv'
  BY DEF AgentInv, StateInv, Rewrite, CountFails
<1>4. PICK k \in Nat : k = h + hint /\ k = (turns + 1) * hint
  <2>1. h = turns * hint
    BY <1>1 DEF ConversationInv, SizeInv, Rewrite, CountFails
  <2> QED
    BY <1>2, <2>1, OneMoreHint
<1>5. conv' = Conversation(k, s, ms)
  BY <1>1, <1>2, <1>4, ConversationHinted DEF ConversationInv, Rewrite, CountFails
<1>6. TurnsInv(ms)'
  BY <1>1 DEF ConversationInv, TurnsInv, TurnsUpTo, Rewrite, CountFails
<1>7. SizeInv(k, ms)'
  BY <1>4 DEF SizeInv, OverLimit, Rewrite, CountFails
<1>8. ConversationInv(k, s, ms)'
  BY <1>5, <1>6, <1>7 DEF ConversationInv
<1> QED
  BY <1>3, <1>4, <1>8 DEF AgentInv

\* The conversation is cut, and so are none of its turns in part.
LEMMA SummarizeInv ==
    ASSUME AgentAssumption, NEW h \in Nat, NEW s \in Summaries, NEW ms \in Seq(Messages),
           StateInv, ConversationInv(h, s, ms), Summarize
    PROVE  /\ conv' = Conversation(h + hint, <<Summary>>, Recent(ms))
           /\ Recent(ms) \in Seq(Messages) /\ Whole(Recent(ms))
           /\ Tokens(Recent(ms)) <= MaxRecent
           /\ TurnsUpTo(Recent(ms), turns)
           /\ \A i \in 1..Len(ms) : KeptOrCut(ms, Recent(ms), ms[i].turn)
<1>1. conv = Conversation(h, s, ms) /\ Whole(ms) /\ TurnsUpTo(ms, turns)
  BY DEF ConversationInv, TurnsInv, Summarize
<1>2. hint \in Nat /\ h + hint \in Nat
  BY AgentConstants DEF StateInv
<1>3. ToolMessages(ms)
  BY <1>1, WholeHasToolMessages
<1>4. /\ Recent(ms) \in Seq(Messages) /\ Whole(Recent(ms)) /\ Tokens(Recent(ms)) <= MaxRecent
      /\ \A i \in 1..Len(Recent(ms)) : \E j \in 1..Len(ms) : Recent(ms)[i].turn = ms[j].turn
      /\ \A i \in 1..Len(ms) : KeptOrCut(ms, Recent(ms), ms[i].turn)
  BY <1>1, RecentOf
<1>5. Rest(conv) = ms
  BY <1>1, <1>3, ConversationRest
<1>6. Fixed(Hinted(conv)) = <<First(h + hint), Question>>
  <2>1. Hinted(conv) = Conversation(h + hint, s, ms)
    BY <1>1, <1>2, ConversationHinted
  <2>2. Fixed(Conversation(h + hint, s, ms)) = <<First(h + hint), Question>>
    BY <1>2, <1>3, ConversationFixed
  <2> QED
    BY <2>1, <2>2
<1>7. conv' = Conversation(h + hint, <<Summary>>, Recent(ms))
  <2> DEFINE as == <<First(h + hint), Question>>
             bs == <<Summary>>
             rs == Recent(ms)
  <2>1. as \in Seq(Messages) /\ bs \in Seq(Messages) /\ rs \in Seq(Messages)
    BY <1>2, <1>4, FixedMessages
  <2>2. conv' = (as \o bs) \o rs
    BY <1>5, <1>6 DEF Summarize
  <2> HIDE DEF as, bs, rs
  <2>3. conv' = as \o (bs \o rs)
    BY <2>1, <2>2, Associative, Zenon
  <2> QED
    BY <2>3, Zenon DEF Conversation, as, bs, rs
<1>8. TurnsUpTo(Recent(ms), turns)
  BY <1>1, <1>4 DEF TurnsUpTo
<1> QED
  BY <1>4, <1>7, <1>8

LEMMA SummarizeKeepsInv ==
    ASSUME AgentAssumption, AgentInv, Summarize
    PROVE  AgentInv'
<1>1. PICK h \in Nat, s \in Summaries, ms \in Seq(Messages) : ConversationInv(h, s, ms)
  BY DEF AgentInv
<1>2. hint \in Nat /\ turns \in Nat /\ StateInv
  BY AgentConstants DEF AgentInv, StateInv
<1>3. PICK k \in Nat : k = h + hint /\ k = (turns + 1) * hint
  <2>1. h = turns * hint
    BY <1>1 DEF ConversationInv, SizeInv, Summarize
  <2> QED
    BY <1>2, <2>1, OneMoreHint
<1>4. PICK rs \in Seq(Messages) : /\ conv' = Conversation(k, <<Summary>>, rs) /\ Whole(rs)
                                  /\ Tokens(rs) <= MaxRecent /\ TurnsUpTo(rs, turns)
  <2>1. /\ conv' = Conversation(k, <<Summary>>, Recent(ms))
        /\ Recent(ms) \in Seq(Messages) /\ Whole(Recent(ms))
        /\ Tokens(Recent(ms)) <= MaxRecent /\ TurnsUpTo(Recent(ms), turns)
    BY <1>1, <1>2, <1>3, SummarizeInv
  <2> QED
    BY <2>1
<1>5. StateInv'
  <2>1. TurnsIn(conv) \subseteq 1..turns
    <3>1. TurnsIn(conv) = {ms[i].turn : i \in 1..Len(ms)} \ {0}
      BY <1>1, ConversationTurnsIn DEF ConversationInv
    <3> QED
      BY <1>1, <3>1 DEF ConversationInv, TurnsInv, TurnsUpTo
  <2>2. cut' \subseteq 1..turns
    BY <1>2, <2>1 DEF StateInv, Summarize
  <2>3. told' \subseteq 1..turns
    BY <1>2, NothingRendered DEF StateInv, Summarize
  <2> QED
    BY <1>2, <2>2, <2>3 DEF StateInv, Summarize
<1>6. TurnsInv(rs)'
  BY <1>4 DEF TurnsInv, TurnsUpTo, Summarize
<1>7. SizeInv(k, rs)'
  BY <1>3, <1>4 DEF SizeInv, Summarize
<1>8. ConversationInv(k, <<Summary>>, rs)'
  BY <1>4, <1>6, <1>7 DEF ConversationInv
<1> QED
  BY <1>5, <1>8 DEF AgentInv, Summaries

LEMMA ModelCallsInv ==
    ASSUME AgentAssumption, AgentInv, ModelCalls
    PROVE  AgentInv'
<1>1. PICK h \in Nat, s \in Summaries, ms \in Seq(Messages) : ConversationInv(h, s, ms)
  BY DEF AgentInv
<1>2. hint \in Nat /\ turns \in Nat /\ steps \in Nat /\ turns <= steps /\ MaxStep \in Nat
  BY AgentConstants DEF AgentInv, StateInv
<1>3. StateInv'
  <2>1. steps' \in 0..MaxStep /\ turns' \in 0..steps' /\ 1..turns \subseteq 1..turns'
    BY <1>2 DEF ModelCalls
  <2> QED
    BY <2>1 DEF AgentInv, StateInv, ModelCalls
<1>4. PICK call \in Messages : call = Message("call", turns + 1, 1)
  <2>1. turns + 1 \in Nat
    BY <1>2
  <2>2. Message("call", turns + 1, 1) \in Messages
    BY <2>1 DEF Message, Messages, Roles
  <2> QED
    BY <2>2
<1> DEFINE ns == Append(ms, call)
<1>5. ns \in Seq(Messages) /\ Len(ns) = Len(ms) + 1
      /\ (\A i \in 1..Len(ms) : ns[i] = ms[i]) /\ ns[Len(ms) + 1] = call
  BY AppendProperties
<1>6. conv' = Conversation(h, s, ns)
  <2>1. <<call>> \in Seq(Messages)
    OBVIOUS
  <2>2. Conversation(h, s, ms) \in Seq(Messages)
    BY ConversationType DEF HasForm
  <2>3. Append(Conversation(h, s, ms), call) = Conversation(h, s, ms) \o <<call>>
    <3> DEFINE cs == Conversation(h, s, ms)
    <3> HIDE DEF cs
    <3>1. cs \in Seq(Messages)
      BY <2>2 DEF cs
    <3>2. Append(cs, call) = cs \o <<call>>
      BY <3>1, AppendIsConcat
    <3> QED
      BY <3>2 DEF cs
  <2>4. ns = ms \o <<call>>
    BY AppendIsConcat
  <2>5. Conversation(h, s, ms) \o <<call>> = Conversation(h, s, ms \o <<call>>)
    BY <2>1, ConversationExtended, Zenon
  <2>6. conv' = Append(Conversation(h, s, ms), call)
    BY <1>1, <1>4 DEF ConversationInv, ModelCalls
  <2> HIDE DEF ns
  <2> QED
    BY <2>3, <2>4, <2>5, <2>6
<1>7. Whole(ms) /\ TurnsUpTo(ms, turns)
  BY <1>1 DEF ConversationInv, TurnsInv, ModelCalls
<1>8. TurnsInv(ns)'
  <2>1. turns + 1 \in 1..(turns + 1) /\ \A n \in 1..turns : n \in 1..(turns + 1)
    BY <1>2
  <2>2. ASSUME NEW i \in 1..Len(ns) PROVE ns[i].turn \in 1..(turns + 1)
    <3>1. i \in 1..Len(ms) \/ i = Len(ms) + 1
      BY <1>5, LenProperties
    <3>2. CASE i \in 1..Len(ms)
      <4>1. ns[i].turn \in 1..turns
        BY <1>5, <1>7, <3>2 DEF TurnsUpTo
      <4> QED
        BY <2>1, <4>1
    <3>3. CASE i = Len(ms) + 1
      <4>1. ns[i].turn = turns + 1
        BY <1>4, <1>5, <3>3 DEF Message
      <4> QED
        BY <2>1, <4>1
    <3> QED
      BY <3>1, <3>2, <3>3
  <2>3. \A i \in 1..Len(ms) : ms[i].turn < turns + 1
    BY <1>2, <1>7 DEF TurnsUpTo
  <2>4. turns' = turns + 1 /\ apc' = "tools"
    BY DEF ModelCalls
  <2>5. TurnsUpTo(ns, turns')
    BY <2>2, <2>4 DEF TurnsUpTo
  <2> HIDE DEF ns
  <2>6. \E qs \in Seq(Messages) : /\ Whole(qs) /\ \A i \in 1..Len(qs) : qs[i].turn < turns'
                                  /\ ns = Append(qs, Message("call", turns', 1))
    BY <1>4, <1>7, <2>3, <2>4 DEF ns
  <2> QED
    BY <2>4, <2>5, <2>6 DEF TurnsInv, TurnsUpTo
<1>9. SizeInv(h, ns)'
  BY <1>1 DEF ConversationInv, SizeInv, ModelCalls
<1> HIDE DEF ns
<1>10. PICK new : new = ns
  OBVIOUS
<1>11. ConversationInv(h, s, new)'
  BY <1>6, <1>8, <1>9, <1>10 DEF ConversationInv
<1> QED
  BY <1>3, <1>5, <1>10, <1>11 DEF AgentInv

\* A call and its answers.
LEMMA CallIsAnswered ==
    ASSUME NEW t \in Nat, NEW call \in Messages, call = Message("call", t, 1),
           NEW es \in Seq(Messages), NEW n \in Nat, Len(es) = n, n >= 1,
           \A i \in 1..n : es[i].role = "result" /\ es[i].turn = t
    PROVE  OneTurn(<<call>> \o es, t)
<1> DEFINE as == <<call>>
           bs == as \o es
<1>1. as \in Seq(Messages) /\ Len(as) = 1 /\ as[1] = call
  OBVIOUS
<1> HIDE DEF as
<1>2. /\ Len(bs) = Len(as) + Len(es)
      /\ \A k \in 1..Len(as) : bs[k] = as[k]
      /\ \A k \in 1..Len(es) : bs[Len(as) + k] = es[k]
  BY <1>1, PartsOf
<1> HIDE DEF bs
<1>3. 1 \in 1..Len(as)
  BY <1>1
<1>4. Len(bs) = 1 + n /\ bs[1] = call /\ \A i \in 1..n : bs[1 + i] = es[i]
  BY <1>1, <1>2, <1>3
<1>5. call.role = "call" /\ call.turn = t
  BY DEF Message
<1>6. ASSUME NEW i \in 2..Len(bs) PROVE bs[i].role = "result" /\ bs[i].turn = t
  <2>1. i - 1 \in 1..n /\ 1 + (i - 1) = i
    BY <1>4
  <2>2. bs[1 + (i - 1)] = es[i - 1]
    BY <1>4, <2>1
  <2> QED
    BY <2>1, <2>2
<1>7. Len(bs) > 1 /\ \A i \in 1..Len(bs) : i = 1 \/ i \in 2..Len(bs)
  BY <1>4
<1>8. OneTurn(bs, t)
  BY <1>4, <1>5, <1>6, <1>7 DEF OneTurn
<1> QED
  BY <1>8 DEF as, bs

LEMMA ToolsAnswerInv ==
    ASSUME AgentAssumption, AgentInv, ToolsAnswer
    PROVE  AgentInv'
<1>1. PICK h \in Nat, s \in Summaries, ms \in Seq(Messages) : ConversationInv(h, s, ms)
  BY DEF AgentInv
<1>2. \A fs \in Seq(Messages) : conv \o fs = Conversation(h, s, ms \o fs)
  <2>1. \A fs \in Seq(Messages) : Conversation(h, s, ms) \o fs = Conversation(h, s, ms \o fs)
    BY ConversationExtended, Zenon
  <2> QED
    BY <1>1, <2>1 DEF ConversationInv
<1>3. /\ turns \in Nat /\ steps \in Nat /\ turns <= steps /\ MaxStep \in Nat
      /\ MaxCalls \in Nat /\ Outputs \subseteq Nat
  <2>1. MaxCalls \in Nat
    BY DEF AgentAssumption
  <2>2. MaxStep \in Nat /\ Outputs \subseteq Nat
    BY AgentConstants
  <2>3. steps \in 0..MaxStep /\ turns \in 0..steps
    BY DEF AgentInv, StateInv
  <2> QED
    BY <2>1, <2>2, <2>3
<1>4. StateInv'
  <2>1. steps' \in 0..MaxStep /\ turns' = turns /\ turns \in 0..steps'
    BY <1>3 DEF ToolsAnswer
  <2> QED
    BY <2>1 DEF AgentInv, StateInv, ToolsAnswer
<1>5. PICK n \in 1..MaxCalls : \E size \in [1..n -> Outputs] :
            conv' = conv \o [i \in 1..n |-> Message("result", turns, size[i])]
  BY DEF ToolsAnswer
<1>6. PICK size \in [1..n -> Outputs] :
            conv' = conv \o [i \in 1..n |-> Message("result", turns, size[i])]
  BY <1>5
<1>7. n \in Nat /\ n >= 1
  BY <1>3
<1>8. PICK es : es = [i \in 1..n |-> Message("result", turns, size[i])]
  OBVIOUS
<1>9. es \in Seq(Messages) /\ Len(es) = n
  <2>1. \A i \in 1..n : Message("result", turns, size[i]) \in Messages
    BY <1>3 DEF Message, Messages, Roles
  <2> QED
    BY <1>7, <1>8, <2>1
<1>10. \A i \in 1..n : es[i].role = "result" /\ es[i].turn = turns
  BY <1>8 DEF Message
<1>11. PICK qs \in Seq(Messages) : /\ Whole(qs) /\ \A i \in 1..Len(qs) : qs[i].turn < turns
                                   /\ ms = Append(qs, Message("call", turns, 1))
  BY <1>1 DEF ConversationInv, TurnsInv, ToolsAnswer
<1>12. PICK call \in Messages : call = Message("call", turns, 1)
  <2>1. Message("call", turns, 1) \in Messages
    BY <1>3 DEF Message, Messages, Roles
  <2> QED
    BY <2>1
<1>13. <<call>> \in Seq(Messages) /\ ms = qs \o <<call>>
  BY <1>11, <1>12, AppendIsConcat
<1>14. PICK bs \in Seq(Messages) : bs = <<call>> \o es
  BY <1>9, <1>13, ConcatProperties
<1>15. PICK ns \in Seq(Messages) : ns = ms \o es
  BY <1>9, ConcatProperties
<1>16. ns = qs \o bs
  <2>1. (qs \o <<call>>) \o es = qs \o (<<call>> \o es)
    BY <1>9, <1>11, <1>13, Associative, Zenon
  <2> QED
    BY <1>13, <1>14, <1>15, <2>1, Zenon
<1>17. conv' = Conversation(h, s, ns)
  BY <1>2, <1>6, <1>8, <1>9, <1>15
<1>18. OneTurn(bs, turns)
  BY <1>3, <1>7, <1>9, <1>10, <1>12, <1>14, CallIsAnswered
<1>19. Whole(ns)
  <2>1. Whole(bs)
    BY <1>18, OneTurnIsWhole
  <2>2. \A i \in 1..Len(qs), j \in 1..Len(bs) : qs[i].turn < bs[j].turn
    BY <1>11, <1>18 DEF OneTurn
  <2> QED
    BY <1>11, <1>16, <2>1, <2>2, WholeParts
<1>20. TurnsUpTo(ns, turns)
  <2>1. TurnsUpTo(ms, turns)
    BY <1>1 DEF ConversationInv, TurnsInv
  <2>2. turns \in 1..turns
    <3>1. Len(ms) = Len(qs) + 1 /\ ms[Len(qs) + 1] = call /\ Len(qs) \in Nat
      BY <1>11, <1>12, AppendProperties, LenProperties
    <3>2. Len(qs) + 1 \in 1..Len(ms)
      BY <3>1
    <3>3. call.turn = turns
      BY <1>12 DEF Message
    <3> QED
      BY <2>1, <3>1, <3>2, <3>3 DEF TurnsUpTo
  <2>3. ASSUME NEW i \in 1..Len(ns) PROVE ns[i].turn \in 1..turns
    <3>1. Len(ms) \in Nat /\ Len(ns) = Len(ms) + n
          /\ ns[i] = IF i <= Len(ms) THEN ms[i] ELSE es[i - Len(ms)]
      BY <1>9, <1>15, ConcatProperties, LenProperties
    <3>2. CASE i <= Len(ms)
      <4>1. i \in 1..Len(ms)
        BY <3>1, <3>2
      <4> QED
        BY <2>1, <3>1, <3>2, <4>1 DEF TurnsUpTo
    <3>3. CASE ~(i <= Len(ms))
      <4>1. i - Len(ms) \in 1..n
        BY <1>7, <3>1, <3>3
      <4> QED
        BY <1>10, <2>2, <3>1, <3>3, <4>1
    <3> QED
      BY <3>2, <3>3
  <2> QED
    BY <2>3 DEF TurnsUpTo
<1>21. TurnsInv(ns)'
  BY <1>19, <1>20 DEF TurnsInv, TurnsUpTo, ToolsAnswer
<1>22. SizeInv(h, ns)'
  BY <1>1 DEF ConversationInv, SizeInv, ToolsAnswer
<1>23. ConversationInv(h, s, ns)'
  BY <1>17, <1>21, <1>22 DEF ConversationInv
<1> QED
  BY <1>4, <1>23 DEF AgentInv

\* The agent ends, and its conversation stays.
LEMMA EndsInv ==
    ASSUME AgentInv, ModelAnswers \/ AgentFails \/ SummarizeFails \/ UNCHANGED vars,
           AgentAssumption
    PROVE  AgentInv'
<1>1. PICK h \in Nat, s \in Summaries, ms \in Seq(Messages) : ConversationInv(h, s, ms)
  BY DEF AgentInv
<1>2. StateInv'
  <2>1. CASE ModelAnswers
    <3>1. steps \in Nat /\ MaxStep \in Nat /\ turns \in 0..steps
      BY AgentConstants DEF AgentInv, StateInv
    <3>2. steps' \in 0..MaxStep /\ turns' \in 0..steps'
      BY <2>1, <3>1 DEF ModelAnswers
    <3> QED
      BY <2>1, <3>2 DEF AgentInv, StateInv, ModelAnswers, Ended
  <2>2. CASE AgentFails \/ SummarizeFails
    BY <2>2 DEF AgentInv, StateInv, AgentFails, SummarizeFails, Ended
  <2>3. CASE UNCHANGED vars
    BY <2>3 DEF AgentInv, StateInv, vars
  <2> QED
    BY <2>1, <2>2, <2>3
<1>3. conv' = conv /\ turns' = turns
  BY DEF ModelAnswers, AgentFails, SummarizeFails, vars
<1>4. ConversationInv(h, s, ms)'
  <2>1. CASE apc' \in Ended
    <3>1. TurnsInv(ms)'
      BY <1>1, <1>3, <2>1 DEF ConversationInv, TurnsInv, TurnsUpTo, Ended
    <3>2. SizeInv(h, ms)'
      BY <2>1 DEF SizeInv, Ended
    <3> QED
      BY <1>1, <1>3, <3>1, <3>2 DEF ConversationInv
  <2>2. CASE UNCHANGED vars
    BY <1>1, <2>2 DEF ConversationInv, TurnsInv, TurnsUpTo, SizeInv, OverLimit, vars
  <2>3. apc' \in Ended \/ UNCHANGED vars
    BY DEF ModelAnswers, AgentFails, SummarizeFails, Ended
  <2> QED
    BY <2>1, <2>2, <2>3
<1> QED
  BY <1>2, <1>4 DEF AgentInv

LEMMA AgentNext ==
    ASSUME AgentAssumption, AgentInv, [Next]_vars
    PROVE  AgentInv'
<1>1. CASE Rewrite \/ CountFails
  BY <1>1, RewriteInv
<1>2. CASE Summarize
  BY <1>2, SummarizeKeepsInv
<1>3. CASE ModelCalls
  BY <1>3, ModelCallsInv
<1>4. CASE ToolsAnswer
  BY <1>4, ToolsAnswerInv
<1>5. CASE ModelAnswers \/ AgentFails \/ SummarizeFails \/ UNCHANGED vars
  BY <1>5, EndsInv
<1> QED
  BY <1>1, <1>2, <1>3, <1>4, <1>5 DEF Next

\* The conversation has its form in every state.
LEMMA AgentInvariant == Spec => []AgentInv
<1>1. Init => AgentInv
  BY AgentAssumption, AgentInit
<1>2. AgentInv /\ [Next]_vars => AgentInv'
  BY AgentAssumption, AgentNext
<1> QED
  BY <1>1, <1>2, PTL DEF Spec

----------------------------------------------------------------------------
(* The properties.                                                         *)

LEMMA TypeFromInv ==
    ASSUME AgentAssumption, AgentInv
    PROVE  TypeOK
<1>1. PICK h \in Nat, s \in Summaries, ms \in Seq(Messages) : ConversationInv(h, s, ms)
  BY DEF AgentInv
<1>2. turns \in Nat /\ turns \in 0..MaxStep
  <2>1. MaxStep \in Nat
    BY AgentConstants
  <2>2. steps \in 0..MaxStep /\ turns \in 0..steps
    BY DEF AgentInv, StateInv
  <2> QED
    BY <2>1, <2>2
<1>3. conv \in Seq(Messages) /\ DOMAIN conv = 1..Len(conv)
  <2>1. conv \in Seq(Messages)
    BY <1>1, ConversationType DEF ConversationInv, HasForm
  <2> QED
    BY <2>1, LenProperties
<1>4. TurnsIn(conv) \subseteq 1..turns
  <2>1. TurnsIn(conv) = {ms[i].turn : i \in 1..Len(ms)} \ {0}
    BY <1>1, ConversationTurnsIn DEF ConversationInv
  <2> QED
    BY <1>1, <2>1 DEF ConversationInv, TurnsInv, TurnsUpTo
<1>5. ASSUME NEW i \in DOMAIN conv
      PROVE  conv[i].role \in Roles /\ conv[i].turn \in 0..turns /\ conv[i].size \in Nat
  <2>1. conv[i] \in Messages
    BY <1>3, MessagesOf
  <2>2. conv[i].role \in Roles /\ conv[i].turn \in Nat /\ conv[i].size \in Nat
    BY <2>1 DEF Messages
  <2>3. conv[i].turn = 0 \/ conv[i].turn \in 1..turns
    BY <1>4 DEF TurnsIn
  <2>4. 0 \in 0..turns /\ 1..turns \subseteq 0..turns
    BY <1>2
  <2> QED
    BY <2>2, <2>3, <2>4
<1> QED
  BY <1>2, <1>5 DEF TypeOK, AgentInv, StateInv

\* The state of the agent keeps to its types: no message is of a turn that is
\* still to come, and the graph takes no step over its limit
\* (runtime.go: MaxStep).
THEOREM AgentTypeCorrect == Spec => []TypeOK
<1>1. AgentInv => TypeOK
  BY AgentAssumption, TypeFromInv
<1> QED
  BY <1>1, AgentInvariant, PTL

LEMMA WholeTurnsFromInv ==
    ASSUME AgentInv
    PROVE  TurnsAreWhole
<1> SUFFICES ASSUME apc = "model"
             PROVE  /\ Head(conv).role = "system" /\ conv[2].role = "user"
                    /\ \A i \in 3..Len(conv) :
                        CASE conv[i].role = "summary" -> i = 3
                          [] conv[i].role = "call" ->
                                /\ conv[i].turn > conv[i - 1].turn
                                /\ i < Len(conv) /\ conv[i + 1].role = "result"
                          [] conv[i].role = "result" -> conv[i].turn = conv[i - 1].turn
                          [] OTHER -> FALSE
  BY DEF TurnsAreWhole
<1>1. PICK h \in Nat, s \in Summaries, ms \in Seq(Messages) : ConversationInv(h, s, ms)
  BY DEF AgentInv
<1>2. Whole(ms) /\ TurnsUpTo(ms, turns)
  BY <1>1 DEF ConversationInv, TurnsInv
<1>3. HasForm(conv, h, s, ms)
  BY <1>1, ConversationType DEF ConversationInv
<1> DEFINE d == 2 + Len(s)
<1>4. Len(s) \in 0..1 /\ Len(ms) \in Nat /\ d \in {2, 3} /\ d \in Nat
  BY SummariesType, LenProperties
<1>5. /\ First(h).role = "system" /\ Question.role = "user" /\ Summary.role = "summary"
      /\ First(h).turn = 0 /\ Question.turn = 0 /\ Summary.turn = 0
  BY DEF First, Question, Summary, Message
<1>6. Head(conv) = conv[1]
  BY <1>3 DEF HasForm
<1>7. conv[d].turn = 0 /\ Len(conv) = d + Len(ms)
      /\ \A i \in 1..Len(ms) : conv[d + i] = ms[i]
  <2>1. CASE Len(s) = 0
    BY <1>3, <1>5, <2>1 DEF HasForm
  <2>2. CASE Len(s) = 1
    <3>1. 1 \in 1..Len(s) /\ 2 + 1 = 3
      BY <2>2
    <3>2. conv[3] = Summary
      BY <1>3, <3>1 DEF HasForm
    <3> QED
      BY <1>3, <1>5, <2>2, <3>2 DEF HasForm
  <2> QED
    BY <1>4, <2>1, <2>2
<1>8. \A i \in 3..Len(conv) : (i = 3 /\ conv[i] = Summary) \/ \E k \in 1..Len(ms) : i = d + k
  <2> SUFFICES ASSUME NEW i \in 3..Len(conv)
               PROVE  (i = 3 /\ conv[i] = Summary) \/ \E k \in 1..Len(ms) : i = d + k
    OBVIOUS
  <2>1. i \in 1..Len(conv) /\ i \notin {1, 2}
    BY <1>4, <1>7
  <2>2. CASE i = 3 /\ Len(s) = 1
    <3>1. 1 \in 1..Len(s) /\ 2 + 1 = 3
      BY <2>2
    <3> QED
      BY <1>3, <2>2, <3>1 DEF HasForm
  <2> QED
    BY <1>3, <2>1, <2>2 DEF HasForm
<1> HIDE DEF d
<1>9. ASSUME NEW k \in 1..Len(ms), IsCall(ms, k)
      PROVE  /\ conv[d + k].role = "call"
             /\ conv[d + k].turn > conv[(d + k) - 1].turn
             /\ d + k < Len(conv) /\ conv[(d + k) + 1].role = "result"
  <2>1. k < Len(ms) /\ ms[k].role = "call" /\ ms[k + 1].role = "result"
    BY <1>9 DEF IsCall
  <2>2. k + 1 \in 1..Len(ms) /\ d + k < Len(conv) /\ (d + k) + 1 = d + (k + 1)
    BY <1>4, <1>7, <2>1
  <2>3. ms[k].turn \in Nat /\ ms[k].turn > 0
    BY <1>2, TurnsOf DEF TurnsUpTo
  <2>4. conv[d + k].turn > conv[(d + k) - 1].turn
    <3>1. CASE k = 1
      <4>1. (d + k) - 1 = d
        BY <1>4, <3>1
      <4> QED
        BY <1>7, <2>3, <4>1
    <3>2. CASE k > 1
      <4>1. k - 1 \in 1..Len(ms) /\ (d + k) - 1 = d + (k - 1)
        BY <1>4, <3>2
      <4>2. ms[k - 1].turn < ms[k].turn
        BY <1>9, <3>2 DEF IsCall
      <4>3. ms[k - 1].turn \in Nat
        BY <4>1, TurnsOf
      <4> QED
        BY <1>7, <2>3, <4>1, <4>2, <4>3
    <3> QED
      BY <3>1, <3>2
  <2> QED
    BY <1>7, <2>1, <2>2, <2>4
<1>10. ASSUME NEW k \in 1..Len(ms), IsAnswer(ms, k)
       PROVE  conv[d + k].role = "result" /\ conv[d + k].turn = conv[(d + k) - 1].turn
  <2>1. k > 1 /\ ms[k].role = "result" /\ ms[k - 1].turn = ms[k].turn
    BY <1>10 DEF IsAnswer
  <2>2. k - 1 \in 1..Len(ms) /\ (d + k) - 1 = d + (k - 1)
    BY <1>4, <2>1
  <2> QED
    BY <1>7, <2>1, <2>2
<1>11. ASSUME NEW i \in 3..Len(conv)
       PROVE  \/ conv[i].role = "summary" /\ i = 3
              \/ /\ conv[i].role = "call" /\ conv[i].turn > conv[i - 1].turn
                 /\ i < Len(conv) /\ conv[i + 1].role = "result"
              \/ conv[i].role = "result" /\ conv[i].turn = conv[i - 1].turn
  <2>1. CASE i = 3 /\ conv[i] = Summary
    BY <1>5, <2>1
  <2>2. CASE \E k \in 1..Len(ms) : i = d + k
    <3>1. PICK k \in 1..Len(ms) : i = d + k
      BY <2>2
    <3>2. IsCall(ms, k) \/ IsAnswer(ms, k)
      BY <1>2 DEF Whole
    <3> QED
      BY <1>9, <1>10, <3>1, <3>2
  <2> QED
    BY <1>8, <2>1, <2>2
<1>12. Head(conv).role = "system" /\ conv[2].role = "user"
  BY <1>3, <1>5, <1>6 DEF HasForm
<1> QED
  BY <1>11, <1>12

\* However the conversation was cut, a call of the model is given each turn in
\* one piece, its answers after it, and the turns in their order
\* (summary.go: the grouping of messages into blocks).
THEOREM TurnsStayWhole == Spec => []TurnsAreWhole
<1>1. AgentInv => TurnsAreWhole
  BY WholeTurnsFromInv
<1> QED
  BY <1>1, AgentInvariant, PTL

LEMMA TokensOfFixed == Tokens(<<System, Question, Summary>>) = 4
<1> DEFINE as == <<System, Question, Summary>>
<1>1. /\ as \in Seq(Messages) /\ Len(as) = 3
      /\ as[1].size = 2 /\ as[2].size = 1 /\ as[3].size = 1
  <2>1. System \in Messages /\ Question \in Messages /\ Summary \in Messages
    BY DEF System, Question, Summary, Message, Messages, Roles
  <2>2. System.size = 2 /\ Question.size = 1 /\ Summary.size = 1
    BY DEF System, Question, Summary, Message
  <2> QED
    BY <2>1, <2>2
<1> HIDE DEF as
<1>2. Tokens(as) = Sum(as)[3] /\ Sum(as)[0] = 0
      /\ \A n \in 1..3 : Sum(as)[n] = Sum(as)[n - 1] + as[n].size
  BY <1>1, TokensRecur
<1>3. /\ Sum(as)[1] = Sum(as)[0] + as[1].size
      /\ Sum(as)[2] = Sum(as)[1] + as[2].size
      /\ Sum(as)[3] = Sum(as)[2] + as[3].size
  <2>1. 1 \in 1..3 /\ 2 \in 1..3 /\ 3 \in 1..3 /\ 1 - 1 = 0 /\ 2 - 1 = 1 /\ 3 - 1 = 2
    OBVIOUS
  <2> QED
    BY <1>2, <2>1
<1>4. Sum(as)[3] = 4
  BY <1>1, <1>2, <1>3
<1> QED
  BY <1>2, <1>4 DEF as

LEMMA CallFitsFromInv ==
    ASSUME AgentAssumption, AgentInv
    PROVE  CallFits
<1> SUFFICES ASSUME apc = "model", counted, OverLimit(conv)
             PROVE  Tokens(conv) <= Tokens(<<System, Question, Summary>>)
                                        + (turns + 1) * hint + MaxRecent
  BY DEF CallFits
<1>1. PICK h \in Nat, s \in Summaries, ms \in Seq(Messages) : ConversationInv(h, s, ms)
  BY DEF AgentInv
<1>2. h = (turns + 1) * hint /\ Tokens(ms) <= MaxRecent
  BY <1>1 DEF ConversationInv, SizeInv
<1>3. Tokens(conv) = ((3 + h) + Tokens(s)) + Tokens(ms)
  BY <1>1, ConversationTokens DEF ConversationInv
<1>4. Tokens(s) \in 0..1 /\ Tokens(ms) \in Nat /\ MaxRecent \in Nat
  BY SummariesType, TokensType, AgentConstants
<1>5. Tokens(conv) <= 4 + h + MaxRecent
  <2> DEFINE x == Tokens(s)
             y == Tokens(ms)
  <2>1. x \in Nat /\ x <= 1 /\ y \in Nat /\ y <= MaxRecent
    BY <1>2, <1>4
  <2> HIDE DEF x, y
  <2>2. ((3 + h) + x) + y <= 4 + h + MaxRecent
    BY <1>4, <2>1
  <2> QED
    BY <1>3, <2>2 DEF x, y
<1> QED
  BY <1>2, <1>5, TokensOfFixed

\* A call of the model is within the limit, or over it by no more than what is
\* never cut: the first messages, the summary and the hint, once for each call
\* so far (lang.go), beside the recent messages (summary.go).
THEOREM CallsFit == Spec => []CallFits
<1>1. AgentInv => CallFits
  BY AgentAssumption, CallFitsFromInv
<1> QED
  BY <1>1, AgentInvariant, PTL

CutsOrKeeps(cs, ds) ==
    \A t \in TurnsIn(cs) :
        \/ OfTurn(ds, t) = OfTurn(cs, t)
        \/ /\ OfTurn(ds, t) = <<>>
           /\ Tokens(LaterThan(ds, t) \o OfTurn(cs, t)) > MaxRecent

LEMMA RewritingCutsOrKeeps ==
    ASSUME AgentAssumption, AgentInv, [Next]_vars, apc = "rewrite"
    PROVE  CutsOrKeeps(conv, conv')
<1>1. PICK h \in Nat, s \in Summaries, ms \in Seq(Messages) : ConversationInv(h, s, ms)
  BY DEF AgentInv
<1>2. conv = Conversation(h, s, ms) /\ TurnsUpTo(ms, turns)
  BY <1>1 DEF ConversationInv, TurnsInv
<1>3. hint \in Nat /\ h + hint \in Nat /\ turns \in Nat /\ StateInv
  <2>1. hint \in Nat /\ StateInv
    BY AgentConstants DEF AgentInv, StateInv
  <2>2. MaxStep \in Nat
    BY AgentConstants
  <2>3. steps \in 0..MaxStep /\ turns \in 0..steps
    BY <2>1 DEF StateInv
  <2> QED
    BY <2>1, <2>2, <2>3
<1>4. \A t \in TurnsIn(conv) : t \in Nat \ {0} /\ \E i \in 1..Len(ms) : t = ms[i].turn
  <2>1. TurnsIn(conv) = {ms[i].turn : i \in 1..Len(ms)} \ {0}
    BY <1>2, ConversationTurnsIn
  <2> QED
    BY <2>1, TurnsOf
<1>5. CASE Rewrite \/ CountFails
  <2>1. conv' = Conversation(h + hint, s, ms)
    BY <1>2, <1>3, <1>5, ConversationHinted DEF Rewrite, CountFails
  <2>2. \A t \in Nat \ {0} : OfTurn(conv', t) = OfTurn(conv, t)
    BY <1>2, <1>3, <2>1, ConversationOfTurn
  <2> QED
    BY <1>4, <2>2 DEF CutsOrKeeps
<1>6. CASE Summarize
  <2>1. /\ conv' = Conversation(h + hint, <<Summary>>, Recent(ms))
        /\ Recent(ms) \in Seq(Messages)
        /\ \A i \in 1..Len(ms) : KeptOrCut(ms, Recent(ms), ms[i].turn)
    BY <1>1, <1>3, <1>6, SummarizeInv
  <2>2. ASSUME NEW t \in Nat \ {0}
        PROVE  /\ OfTurn(conv', t) = OfTurn(Recent(ms), t)
               /\ LaterThan(conv', t) = LaterThan(Recent(ms), t)
               /\ OfTurn(conv, t) = OfTurn(ms, t)
    <3>1. <<Summary>> \in Summaries
      BY DEF Summaries
    <3>2. OfTurn(conv, t) = OfTurn(ms, t)
      BY <1>2, ConversationOfTurn
    <3> DEFINE rs == Recent(ms)
               b == <<Summary>>
               k == h + hint
    <3>3. k \in Nat /\ b \in Summaries /\ rs \in Seq(Messages)
      BY <1>3, <2>1, <3>1
    <3> HIDE DEF rs, b, k
    <3>4. OfTurn(Conversation(k, b, rs), t) = OfTurn(rs, t)
          /\ LaterThan(Conversation(k, b, rs), t) = LaterThan(rs, t)
      BY <3>3, ConversationOfTurn
    <3> QED
      BY <2>1, <3>2, <3>4, Zenon DEF rs, b, k
  <2>3. ASSUME NEW t \in TurnsIn(conv)
        PROVE  \/ OfTurn(conv', t) = OfTurn(conv, t)
               \/ /\ OfTurn(conv', t) = <<>>
                  /\ Tokens(LaterThan(conv', t) \o OfTurn(conv, t)) > MaxRecent
    <3>1. t \in Nat \ {0} /\ KeptOrCut(ms, Recent(ms), t)
      BY <1>4, <2>1
    <3> QED
      BY <2>2, <3>1 DEF KeptOrCut
  <2> QED
    BY <2>3 DEF CutsOrKeeps
<1>7. CASE SummarizeFails \/ UNCHANGED vars
  BY <1>7 DEF CutsOrKeeps, SummarizeFails, vars
<1>8. ~ModelAnswers /\ ~ModelCalls /\ ~ToolsAnswer /\ ~AgentFails
  BY DEF ModelAnswers, ModelCalls, ToolsAnswer, AgentFails
<1> QED
  BY <1>5, <1>6, <1>7, <1>8 DEF Next

\* A rewriting of the conversation changes nothing of a turn, or cuts the whole
\* of it, and that only for want of room beside the later turns that it keeps
\* (summary.go: the blocks are taken from the newest to the oldest).
THEOREM CutsAreWholeTurns == Spec => CutsWholeTurns
<1>1. AgentInv /\ [Next]_vars
        => [apc = "rewrite" =>
             \A t \in TurnsIn(conv) :
                \/ OfTurn(conv', t) = OfTurn(conv, t)
                \/ /\ OfTurn(conv', t) = <<>>
                   /\ Tokens(LaterThan(conv', t) \o OfTurn(conv, t)) > MaxRecent]_vars
  BY AgentAssumption, RewritingCutsOrKeeps DEF CutsOrKeeps
<1> QED
  BY <1>1, AgentInvariant, PTL DEF Spec, CutsWholeTurns
=============================================================================
