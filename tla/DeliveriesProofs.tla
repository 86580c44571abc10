-------------------------- MODULE DeliveriesProofs --------------------------
(***************************************************************************)
(* What the proxies and their subscriptions are told, for any finite set   *)
(* of proxies, any number of listeners and any number of changes: nothing  *)
(* on its way from vsomeip through the dispatcher, the queue and the main  *)
(* loop is lost or told twice.                                             *)
(***************************************************************************)
EXTENDS SubscriptionsProofs, FunctionTheorems, SequenceTheorems

-----------------------------------------------------------------------------
(* How often an element is in a sequence.                                  *)

Times(s, e) == Cardinality({i \in DOMAIN s : s[i] = e})

LEMMA TimesType ==
  ASSUME NEW S, NEW s \in Seq(S), NEW e
  PROVE  /\ Times(s, e) \in Nat /\ IsFiniteSet({i \in DOMAIN s : s[i] = e})
         /\ Times(s, e) > 0 <=> \E i \in DOMAIN s : s[i] = e
<1> DEFINE P == {i \in DOMAIN s : s[i] = e}
<1>1. IsFiniteSet(P)
  <2>1. DOMAIN s = 1 .. Len(s) /\ Len(s) \in Nat
    BY LenProperties
  <2>2. IsFiniteSet(1 .. Len(s)) /\ P \in SUBSET (1 .. Len(s))
    BY <2>1, FS_Interval
  <2> QED  BY <2>2, FS_Subset
<1>2. Cardinality(P) \in Nat /\ (Cardinality(P) = 0 <=> P = {})
  BY <1>1, FS_CardinalityType, FS_EmptySet
<1> QED  BY <1>1, <1>2 DEF Times

LEMMA TimesEmpty ==
  ASSUME NEW e
  PROVE  Times(<<>>, e) = 0
<1>1. {i \in DOMAIN <<>> : <<>>[i] = e} = {}
  OBVIOUS
<1> QED  BY <1>1, FS_EmptySet DEF Times

LEMMA TimesSingle ==
  ASSUME NEW x, NEW e
  PROVE  Times(<<x>>, e) = IF x = e THEN 1 ELSE 0
<1>1. {i \in DOMAIN <<x>> : <<x>>[i] = e} = IF x = e THEN {1} ELSE {}
  OBVIOUS
<1> QED  BY <1>1, FS_EmptySet, FS_Singleton DEF Times

LEMMA DisjointUnion ==
  ASSUME NEW A, NEW B, IsFiniteSet(A), IsFiniteSet(B), A \cap B = {}
  PROVE  Cardinality(A \cup B) = Cardinality(A) + Cardinality(B)
<1>1. Cardinality(A) \in Nat /\ Cardinality(B) \in Nat /\ Cardinality({}) = 0
  BY FS_CardinalityType, FS_EmptySet
<1>2. Cardinality(A \cup B) = Cardinality(A) + Cardinality(B) - Cardinality(A \cap B)
  BY FS_Union
<1>3. Cardinality(A \cap B) = 0
  BY <1>1
<1> QED  BY <1>1, <1>2, <1>3

LEMMA TimesConcat ==
  ASSUME NEW S, NEW s \in Seq(S), NEW t \in Seq(S), NEW e
  PROVE  Times(s \o t, e) = Times(s, e) + Times(t, e)
<1> DEFINE A == {i \in DOMAIN s : s[i] = e}
           B == {i \in DOMAIN t : t[i] = e}
           C == {Len(s) + i : i \in B}
           f == [i \in B |-> Len(s) + i]
<1>1. /\ Len(s) \in Nat /\ Len(t) \in Nat /\ Len(s \o t) = Len(s) + Len(t)
      /\ DOMAIN s = 1 .. Len(s) /\ DOMAIN t = 1 .. Len(t) /\ DOMAIN (s \o t) = 1 .. Len(s) + Len(t)
  BY ConcatProperties, LenProperties
<1>2. \A i \in 1 .. Len(s) + Len(t) : (s \o t)[i] = IF i <= Len(s) THEN s[i] ELSE t[i - Len(s)]
  BY ConcatProperties
<1>3. IsFiniteSet(A) /\ IsFiniteSet(B)
  BY TimesType
<1>4. f \in Bijection(B, C)
  <2>1. f \in [B -> C] /\ \A i, j \in B : f[i] = f[j] => i = j
    BY <1>1
  <2>2. \A c \in C : \E i \in B : f[i] = c
    OBVIOUS
  <2> QED  BY <2>1, <2>2, Fun_IsBij
<1>5. IsFiniteSet(C) /\ Cardinality(C) = Cardinality(B)
  BY <1>3, <1>4, FS_Bijection DEF ExistsBijection
<1>6. {i \in DOMAIN (s \o t) : (s \o t)[i] = e} = A \cup C
  <2>1. ASSUME NEW i \in 1 .. Len(s) + Len(t), (s \o t)[i] = e PROVE i \in A \cup C
    <3>1. CASE i <= Len(s)
      BY <1>1, <1>2, <2>1, <3>1
    <3>2. CASE ~(i <= Len(s))
      <4>1. i - Len(s) \in B /\ i = Len(s) + (i - Len(s))
        BY <1>1, <1>2, <2>1, <3>2
      <4> QED  BY <4>1
    <3> QED  BY <3>1, <3>2
  <2>2. ASSUME NEW i \in A PROVE i \in 1 .. Len(s) + Len(t) /\ (s \o t)[i] = e
    BY <1>1, <1>2
  <2>3. ASSUME NEW i \in B PROVE Len(s) + i \in 1 .. Len(s) + Len(t) /\ (s \o t)[Len(s) + i] = e
    BY <1>1, <1>2
  <2> QED  BY <1>1, <2>1, <2>2, <2>3
<1>7. A \cap C = {}
  BY <1>1
<1>8. Cardinality(A \cup C) = Cardinality(A) + Cardinality(C)
  BY <1>3, <1>5, <1>7, DisjointUnion
<1> QED  BY <1>5, <1>6, <1>8 DEF Times

LEMMA TimesAppend ==
  ASSUME NEW S, NEW s \in Seq(S), NEW x \in S, NEW e
  PROVE  Times(Append(s, x), e) = Times(s, e) + IF x = e THEN 1 ELSE 0
<1>1. Append(s, x) = s \o <<x>> /\ <<x>> \in Seq(S)
  BY AppendIsConcat
<1>2. Times(s \o <<x>>, e) = Times(s, e) + Times(<<x>>, e)
  BY <1>1, TimesConcat
<1> QED  BY <1>1, <1>2, TimesSingle

LEMMA TimesTail ==
  ASSUME NEW S, NEW s \in Seq(S), s # <<>>, NEW e
  PROVE  Times(s, e) = Times(Tail(s), e) + IF Head(s) = e THEN 1 ELSE 0
<1>1. Head(s) \in S /\ Tail(s) \in Seq(S) /\ <<Head(s)>> \in Seq(S)
  BY HeadTailProperties
<1>2. s = <<Head(s)>> \o Tail(s)
  <2>1. <<Head(s)>> \o Tail(s) \in Seq(S) /\ Len(<<Head(s)>> \o Tail(s)) = Len(s)
    BY <1>1, ConcatProperties, HeadTailProperties, LenProperties
  <2>2. ASSUME NEW i \in 1 .. Len(s) PROVE s[i] = (<<Head(s)>> \o Tail(s))[i]
    BY <1>1, ConcatProperties, HeadTailProperties, LenProperties
  <2> QED  BY <2>1, <2>2, SeqEqual
<1>3. Times(s, e) = Times(<<Head(s)>>, e) + Times(Tail(s), e)
  <2>1. Times(<<Head(s)>> \o Tail(s), e) = Times(<<Head(s)>>, e) + Times(Tail(s), e)
    BY <1>1, TimesConcat
  <2> QED  BY <1>2, <2>1
<1>4. Times(Tail(s), e) \in Nat
  BY <1>1, TimesType
<1> QED  BY <1>3, <1>4, TimesSingle

LEMMA TimesSetToSeq ==
  ASSUME NEW S, IsFiniteSet(S), NEW e
  PROVE  SetToSeq(S) \in Seq(S) /\ Times(SetToSeq(S), e) = IF e \in S THEN 1 ELSE 0
<1> DEFINE n == Cardinality(S)
           f == SetToSeq(S)
<1>1. n \in Nat /\ \E g \in [1 .. n -> S] : IsInjective(g)
  <2>1. n \in Nat /\ Bijection(1 .. n, S) # {}
    BY FS_CardinalityType DEF ExistsBijection
  <2>2. PICK g : g \in Bijection(1 .. n, S)
    BY <2>1
  <2> QED  BY <2>1, <2>2 DEF Bijection, Injection
<1>2. f \in [1 .. n -> S] /\ IsInjective(f)
  BY <1>1 DEF SetToSeq
<1>3. f \in Surjection(1 .. n, S)
  <2>1. f \in Injection(1 .. n, S)
    BY <1>2 DEF Injection
  <2>2. Cardinality(1 .. n) = n
    BY <1>1, FS_Interval
  <2> QED  BY <2>1, <2>2, FS_Injection
<1>4. f \in Seq(S) /\ DOMAIN f = 1 .. n
  BY <1>1, <1>2, SeqDef
<1> HIDE DEF f
<1>5. CASE e \in S
  <2>1. PICK i \in 1 .. n : f[i] = e
    BY <1>3, <1>5 DEF Surjection
  <2>2. {j \in DOMAIN f : f[j] = e} = {i}
    BY <1>2, <1>4, <2>1 DEF IsInjective
  <2> QED  BY <1>4, <1>5, <2>2, FS_Singleton DEF Times, f
<1>6. CASE e \notin S
  <2>1. {j \in DOMAIN f : f[j] = e} = {}
    BY <1>2, <1>4, <1>6
  <2> QED  BY <1>4, <1>6, <2>1, FS_EmptySet DEF Times, f
<1> QED  BY <1>5, <1>6

-----------------------------------------------------------------------------
(* Calls and queue entries of some kinds, and their order.                 *)

Reports == {"up", "down"}

Has(s, K) == \E i \in DOMAIN s : s[i].kind \in K

\* The last report of s, if there is one, says b.
LastReports(s, b) ==
  \A i \in DOMAIN s :
    s[i].kind \in Reports /\ (\A j \in DOMAIN s : j > i => s[j].kind \notin Reports) => (s[i].kind = "up" <=> b)

\* A status comes after every loss.
Followed(s) == \A i \in DOMAIN s : s[i].kind = "down" => \E j \in DOMAIN s : j > i /\ s[j].kind = "status"

LEMMA AfterAppend ==
  ASSUME NEW S, NEW s \in Seq(S), NEW x \in S, NEW K, NEW b
  PROVE  /\ Has(Append(s, x), K) <=> Has(s, K) \/ x.kind \in K
         /\ x.kind \notin Reports /\ LastReports(s, b) => LastReports(Append(s, x), b)
         /\ x.kind \in Reports /\ (x.kind = "up" <=> b) => LastReports(Append(s, x), b)
         /\ x.kind # "down" /\ Followed(s) => Followed(Append(s, x))
<1> DEFINE t == Append(s, x)
<1>1. /\ Len(s) \in Nat /\ DOMAIN s = 1 .. Len(s) /\ DOMAIN t = 1 .. Len(s) + 1
      /\ \A i \in 1 .. Len(s) : t[i] = s[i]
      /\ t[Len(s) + 1] = x
  BY AppendProperties, LenProperties
<1> HIDE DEF t
<1>2. Has(t, K) <=> Has(s, K) \/ x.kind \in K
  BY <1>1 DEF Has
<1>3. x.kind \notin Reports /\ LastReports(s, b) => LastReports(t, b)
  BY <1>1 DEF LastReports
<1>4. x.kind \in Reports /\ (x.kind = "up" <=> b) => LastReports(t, b)
  BY <1>1 DEF LastReports
<1>5. x.kind # "down" /\ Followed(s) => Followed(t)
  BY <1>1 DEF Followed
<1> QED  BY <1>2, <1>3, <1>4, <1>5 DEF t

LEMMA AfterTail ==
  ASSUME NEW S, NEW s \in Seq(S), s # <<>>, NEW K, NEW b
  PROVE  /\ Tail(s) \in Seq(S) /\ Head(s) \in S
         /\ Has(s, K) <=> Has(Tail(s), K) \/ Head(s).kind \in K
         /\ LastReports(s, b) => LastReports(Tail(s), b)
         /\ LastReports(s, b) /\ Head(s).kind \in Reports /\ ~Has(Tail(s), Reports) => (Head(s).kind = "up" <=> b)
         /\ Followed(s) => Followed(Tail(s))
         /\ Followed(s) /\ Head(s).kind = "down" => Has(Tail(s), {"status"})
<1> DEFINE t == Tail(s)
<1>1. t \in Seq(S) /\ Head(s) \in S /\ Head(s) = s[1]
  BY HeadTailProperties
<1>2. /\ Len(s) \in Nat /\ Len(s) >= 1 /\ DOMAIN s = 1 .. Len(s) /\ DOMAIN t = 1 .. Len(s) - 1
      /\ \A i \in 1 .. Len(s) - 1 : t[i] = s[i + 1]
  BY HeadTailProperties, LenProperties, EmptySeq
<1> HIDE DEF t
<1>3. \A i \in DOMAIN t : i + 1 \in DOMAIN s /\ t[i] = s[i + 1]
  BY <1>2
<1>4. \A i \in DOMAIN s : i # 1 => i - 1 \in DOMAIN t /\ s[i] = t[i - 1]
  <2>1. ASSUME NEW i \in DOMAIN s, i # 1 PROVE i - 1 \in DOMAIN t /\ s[i] = t[i - 1]
    <3>1. i - 1 \in 1 .. Len(s) - 1 /\ (i - 1) + 1 = i
      BY <1>2, <2>1
    <3> QED  BY <1>2, <3>1
  <2> QED  BY <2>1
<1>5. Has(s, K) <=> Has(t, K) \/ Head(s).kind \in K
  <2>1. 1 \in DOMAIN s
    BY <1>2
  <2>2. Has(t, K) \/ Head(s).kind \in K => Has(s, K)
    BY <1>1, <1>3, <2>1 DEF Has
  <2>3. Has(s, K) => Has(t, K) \/ Head(s).kind \in K
    BY <1>1, <1>4 DEF Has
  <2> QED  BY <2>2, <2>3
<1>6. LastReports(s, b) => LastReports(t, b)
  <2>1. SUFFICES ASSUME LastReports(s, b), NEW i \in DOMAIN t, t[i].kind \in Reports,
                        \A j \in DOMAIN t : j > i => t[j].kind \notin Reports
                 PROVE  t[i].kind = "up" <=> b
    BY DEF LastReports
  <2>2. i + 1 \in DOMAIN s /\ s[i + 1] = t[i]
    BY <1>3
  <2>3. ASSUME NEW j \in DOMAIN s, j > i + 1 PROVE s[j].kind \notin Reports
    <3>1. j - 1 \in DOMAIN t /\ s[j] = t[j - 1] /\ j - 1 > i
      BY <1>2, <1>4, <2>3
    <3> QED  BY <2>1, <3>1
  <2> QED  BY <2>1, <2>2, <2>3 DEF LastReports
<1>7. LastReports(s, b) /\ Head(s).kind \in Reports /\ ~Has(t, Reports) => (Head(s).kind = "up" <=> b)
  <2>1. SUFFICES ASSUME LastReports(s, b), Head(s).kind \in Reports, ~Has(t, Reports)
                 PROVE  Head(s).kind = "up" <=> b
    OBVIOUS
  <2>2. ASSUME NEW j \in DOMAIN s, j > 1 PROVE s[j].kind \notin Reports
    BY <1>2, <1>4, <2>1, <2>2 DEF Has
  <2>3. 1 \in DOMAIN s
    BY <1>2
  <2> QED  BY <1>1, <2>1, <2>2, <2>3 DEF LastReports
<1>8. ASSUME Followed(s), NEW i \in DOMAIN s, s[i].kind = "down"
      PROVE  \E j \in DOMAIN t : j + 1 > i /\ t[j].kind = "status"
  <2>1. PICK j \in DOMAIN s : j > i /\ s[j].kind = "status"
    BY <1>8 DEF Followed
  <2>2. j - 1 \in DOMAIN t /\ s[j] = t[j - 1] /\ (j - 1) + 1 > i
    BY <1>2, <1>4, <2>1
  <2> QED  BY <2>1, <2>2
<1>9. Followed(s) => Followed(t)
  <2>1. SUFFICES ASSUME Followed(s), NEW i \in DOMAIN t, t[i].kind = "down"
                 PROVE  \E j \in DOMAIN t : j > i /\ t[j].kind = "status"
    BY DEF Followed
  <2>2. i + 1 \in DOMAIN s /\ s[i + 1].kind = "down"
    BY <1>3, <2>1
  <2>3. PICK j \in DOMAIN t : j + 1 > i + 1 /\ t[j].kind = "status"
    BY <1>8, <2>1, <2>2
  <2>4. j > i
    BY <1>2, <2>3
  <2> QED  BY <2>3, <2>4
<1>10. Followed(s) /\ Head(s).kind = "down" => Has(t, {"status"})
  BY <1>1, <1>2, <1>8 DEF Has
<1> QED  BY <1>1, <1>5, <1>6, <1>7, <1>9, <1>10 DEF t

LEMMA AfterConcat ==
  ASSUME NEW S, NEW s \in Seq(S), NEW t \in Seq(S), NEW K, NEW b
  PROVE  /\ Has(s \o t, K) <=> Has(s, K) \/ Has(t, K)
         /\ LastReports(s, b) /\ ~Has(t, Reports) => LastReports(s \o t, b)
         /\ ~Has(t, {"down"}) /\ (Followed(s) \/ Has(t, {"status"})) => Followed(s \o t)
<1> DEFINE u == s \o t
<1>1. /\ Len(s) \in Nat /\ Len(t) \in Nat
      /\ DOMAIN s = 1 .. Len(s) /\ DOMAIN t = 1 .. Len(t) /\ DOMAIN u = 1 .. Len(s) + Len(t)
      /\ \A i \in 1 .. Len(s) + Len(t) : u[i] = IF i <= Len(s) THEN s[i] ELSE t[i - Len(s)]
  BY ConcatProperties, LenProperties
<1> HIDE DEF u
<1>2. \A i \in DOMAIN s : i \in DOMAIN u /\ u[i] = s[i]
  BY <1>1
<1>3. \A i \in DOMAIN t : Len(s) + i \in DOMAIN u /\ u[Len(s) + i] = t[i]
  <2>1. ASSUME NEW i \in DOMAIN t PROVE Len(s) + i \in DOMAIN u /\ u[Len(s) + i] = t[i]
    <3>1. Len(s) + i \in 1 .. Len(s) + Len(t) /\ ~(Len(s) + i <= Len(s)) /\ (Len(s) + i) - Len(s) = i
      BY <1>1
    <3> QED  BY <1>1, <3>1
  <2> QED  BY <2>1
<1>4. \A i \in DOMAIN u : i \in DOMAIN s \/ (i - Len(s) \in DOMAIN t /\ u[i] = t[i - Len(s)])
  BY <1>1
<1>5. Has(u, K) <=> Has(s, K) \/ Has(t, K)
  BY <1>2, <1>3, <1>4 DEF Has
<1>6. LastReports(s, b) /\ ~Has(t, Reports) => LastReports(u, b)
  <2>1. SUFFICES ASSUME LastReports(s, b), ~Has(t, Reports), NEW i \in DOMAIN u, u[i].kind \in Reports,
                        \A j \in DOMAIN u : j > i => u[j].kind \notin Reports
                 PROVE  u[i].kind = "up" <=> b
    BY DEF LastReports
  <2>2. i \in DOMAIN s /\ u[i] = s[i]
    BY <1>2, <1>4, <2>1 DEF Has
  <2>3. \A j \in DOMAIN s : j > i => s[j].kind \notin Reports
    BY <1>2, <2>1
  <2> QED  BY <2>1, <2>2, <2>3 DEF LastReports
<1>7. ASSUME ~Has(t, {"down"}), Followed(s) \/ Has(t, {"status"}), NEW i \in DOMAIN u, u[i].kind = "down"
      PROVE  \E j \in DOMAIN u : j > i /\ u[j].kind = "status"
  <2>1. i \in DOMAIN s /\ s[i].kind = "down"
    BY <1>2, <1>4, <1>7 DEF Has
  <2>2. CASE Followed(s)
    BY <1>2, <2>1, <2>2 DEF Followed
  <2>3. CASE Has(t, {"status"})
    <3>1. PICK j \in DOMAIN t : t[j].kind = "status"
      BY <2>3 DEF Has
    <3>2. Len(s) + j > i
      BY <1>1, <2>1
    <3> QED  BY <1>3, <3>1, <3>2
  <2> QED  BY <1>7, <2>2, <2>3
<1>8. ~Has(t, {"down"}) /\ (Followed(s) \/ Has(t, {"status"})) => Followed(u)
  BY <1>7 DEF Followed
<1> QED  BY <1>5, <1>6, <1>8 DEF u

-----------------------------------------------------------------------------
(* Types.                                                                  *)

\* The dispatcher holds the mutex for a report, and has a batch to push.
DispatcherInv ==
  /\ dispatcher = "pushing" <=> batch # <<>>
  /\ dispatcher = "locked" => calls # <<>> /\ Head(calls).kind \in Reports

LEMMA HeadOfConcat ==
  ASSUME NEW S, NEW s \in Seq(S), s # <<>>, NEW t \in Seq(S)
  PROVE  s \o t \in Seq(S) /\ s \o t # <<>> /\ Head(s \o t) = Head(s)
<1>1. Len(s) \in Nat \ {0} /\ Len(t) \in Nat
  BY EmptySeq, LenProperties
<1>2. s \o t \in Seq(S) /\ Len(s \o t) = Len(s) + Len(t) /\ (s \o t)[1] = s[1]
  BY <1>1, ConcatProperties
<1>3. s \o t # <<>>
  BY <1>1, <1>2, EmptySeq
<1> QED  BY <1>2, <1>3

LEMMA EntryType ==
  ASSUME NEW kind \in Reports \cup {"status"} \cup Kinds, NEW who \in Subscribers \cup {<<>>}
  PROVE  Entry(kind, who) \in Calls /\ Entry(kind, who).kind = kind
BY DEF Entry, Calls, Reports, Kinds

LEMMA StatusEntry ==
  ASSUME NEW e \in Calls, e.kind = "status", NEW h
  PROVE  e = Entry("status", h) <=> e.who = h
<1>1. e = [kind |-> e.kind, who |-> e.who]
  BY DEF Calls
<1> QED  BY <1>1 DEF Entry

LEMMA ReportType ==
  ASSUME NEW b \in BOOLEAN
  PROVE  /\ Report(b) \in Calls /\ Report(b).kind \in Reports
         /\ Report(b).kind = "up" <=> b
BY DEF Report, Entry, Calls, Reports, Kinds

\* vsomeip's answers to a subscription.
LEMMA AnswersKinds ==
  /\ Answers \in Seq(Calls)
  /\ Has(Answers, {"status"}) /\ ~Has(Answers, Reports) /\ ~Has(Answers, {"down"})
  /\ Passes => Has(Answers, Kinds)
<1> DEFINE s == <<Entry("status", <<>>)>>
           t == IF Passes THEN <<Entry("initial", <<>>)>> ELSE <<>>
<1>1. /\ Entry("status", <<>>) \in Calls /\ Entry("status", <<>>).kind = "status"
      /\ Entry("initial", <<>>) \in Calls /\ Entry("initial", <<>>).kind = "initial"
  BY EntryType DEF Kinds
<1>2. s \in Seq(Calls) /\ t \in Seq(Calls)
  BY <1>1
<1>3. \A K : Has(s, K) <=> "status" \in K
  BY <1>1 DEF Has
<1>4. \A K : Has(t, K) <=> Passes /\ "initial" \in K
  BY <1>1 DEF Has
<1> HIDE DEF s, t
<1>5. Answers = s \o t
  BY DEF Answers, s, t
<1>6. s \o t \in Seq(Calls) /\ \A K : Has(s \o t, K) <=> Has(s, K) \/ Has(t, K)
  BY <1>2, ConcatProperties, AfterConcat
<1> QED  BY <1>3, <1>4, <1>5, <1>6 DEF Reports, Kinds

\* Whoever may add a listener has a number left for it.
LEMMA ListenersBound ==
  ASSUME NEW p \in Proxies, made[p] \in 0 .. MaxListeners,
         Cardinality({h \in Subscribers : h[2] <= made[h[1]]}) < MaxListeners
  PROVE  made[p] + 1 \in Tags
<1> DEFINE D == {h \in Subscribers : h[2] <= made[h[1]]}
           R == {p} \X Tags
<1> USE ListenersAssumption
<1>1. IsFiniteSet(Tags) /\ Cardinality(Tags) = MaxListeners
  BY FS_Interval DEF Tags
<1>2. IsFiniteSet(D)
  <2>1. IsFiniteSet(Subscribers)
    BY <1>1, ProxiesAssumption, FS_Product DEF Subscribers
  <2> QED  BY <2>1, FS_Subset
<1>3. Cardinality(R) = MaxListeners
  <2>1. IsFiniteSet({p}) /\ Cardinality({p}) = 1
    BY FS_Singleton
  <2>2. Cardinality(R) = 1 * MaxListeners
    BY <1>1, <2>1, FS_Product
  <2> QED  BY <2>2
<1>4. ASSUME made[p] = MaxListeners PROVE FALSE
  <2>1. R \in SUBSET D
    BY <1>4 DEF Subscribers, Tags
  <2>2. Cardinality(R) <= Cardinality(D) /\ Cardinality(D) \in Nat
    BY <1>2, <2>1, FS_Subset, FS_CardinalityType
  <2> QED  BY <1>3, <2>2
<1> QED  BY <1>4 DEF Tags

(* TypeOK in the groups of variables that the actions change or leave alone; *)
(* the places, handlers and counts have theirs from the other invariants.    *)

RegistrationTypes ==
  /\ handlerAt \in BOOLEAN /\ serviceAt \in BOOLEAN /\ receiverAt \in BOOLEAN /\ eventAt \in BOOLEAN /\ crossed \in BOOLEAN

ReportTypes ==
  /\ called \in BOOLEAN /\ up \in BOOLEAN /\ known \in [Proxies -> BOOLEAN]
  /\ calls \in Seq(Calls) /\ queue \in Seq(Calls)
  /\ dispatcher \in {"idle", "locked", "pushing"} /\ changes \in 0 .. MaxChanges

EventTypes ==
  /\ made \in [Proxies -> 0 .. MaxListeners]
  /\ active \in [Proxies -> SUBSET Tags] /\ fresh \in [Proxies -> SUBSET Tags]

HandlerTypes ==
  /\ eventHandlers \subseteq Proxies /\ allHandlers \subseteq Subscribers
  /\ grouped \in BOOLEAN /\ wrapped \in BOOLEAN /\ statusHandlerAt \in BOOLEAN /\ subscribedAt \in BOOLEAN
  /\ pendingHandlers \in Seq(Subscribers)

LoopTypes ==
  /\ batch \in Seq(Subscribers) /\ loop \in {"idle", "calling"} \cup Kinds
  /\ left \subseteq Proxies /\ current \subseteq Proxies /\ subscribers \subseteq Tags

ToldTypes ==
  /\ statuses \in [Proxies -> [Tags -> Nat]] /\ losses \in [Proxies -> [Tags -> Nat]]
  /\ initials \in [Proxies -> [Tags -> Nat]] /\ heard \in [Proxies -> SUBSET Tags]

TypeInv ==
  /\ RegistrationTypes /\ ReportTypes /\ EventTypes /\ HandlerTypes /\ LoopTypes /\ ToldTypes
  /\ DispatcherInv

LEMMA TypeInvInit == Init => TypeInv
<1> SUFFICES ASSUME Init PROVE TypeInv
  OBVIOUS
<1> USE DEF Init, RegistrationsInit
<1>1. /\ MaxChanges \in Nat /\ MaxListeners \in Nat
      /\ <<>> \in Seq(Calls) /\ <<>> \in Seq(Subscribers)
  BY ChangesAssumption, ListenersAssumption, EmptySeq
<1>2. RegistrationTypes
  BY DEF RegistrationTypes
<1>3. ReportTypes
  <2>1. calls \in Seq(Calls) /\ queue \in Seq(Calls)
    BY <1>1
  <2>2. known \in [Proxies -> BOOLEAN] /\ called \in BOOLEAN /\ up \in BOOLEAN
    OBVIOUS
  <2>3. changes \in 0 .. MaxChanges /\ dispatcher = "idle"
    BY <1>1
  <2> QED  BY <2>1, <2>2, <2>3 DEF ReportTypes
<1>4. EventTypes
  BY <1>1 DEF EventTypes
<1>5. HandlerTypes
  BY <1>1 DEF HandlerTypes
<1>6. LoopTypes
  BY <1>1 DEF LoopTypes
<1>7. ToldTypes
  BY DEF ToldTypes
<1>8. DispatcherInv
  BY DEF DispatcherInv
<1> QED  BY <1>2, <1>3, <1>4, <1>5, <1>6, <1>7, <1>8 DEF TypeInv

\* What is left alone keeps its type.
LEMMA TypesKept ==
  /\ RegistrationTypes /\ UNCHANGED proxyVars => RegistrationTypes'
  /\ ReportTypes /\ UNCHANGED reportVars => ReportTypes'
  /\ EventTypes /\ UNCHANGED eventVars => EventTypes'
  /\ HandlerTypes /\ UNCHANGED subscriptionVars => HandlerTypes'
  /\ LoopTypes /\ UNCHANGED loopVars => LoopTypes'
  /\ ToldTypes /\ UNCHANGED toldVars => ToldTypes'
BY DEF RegistrationTypes, ReportTypes, EventTypes, HandlerTypes, LoopTypes, ToldTypes,
   proxyVars, registrationVars, reportVars, eventVars, subscriptionVars, loopVars, toldVars

\* Calls are only added behind those that wait.
LEMMA DispatcherKept ==
  ASSUME TypeInv, NEW t \in Seq(Calls), calls' = calls \o t \/ calls' = calls, UNCHANGED <<dispatcher, batch>>
  PROVE  DispatcherInv' /\ calls' \in Seq(Calls)
<1>1. calls \in Seq(Calls)
  BY DEF TypeInv, ReportTypes
<1>2. calls' \in Seq(Calls)
  BY <1>1, ConcatProperties
<1>3. calls # <<>> => calls' # <<>> /\ Head(calls') = Head(calls)
  BY <1>1, HeadOfConcat
<1> QED  BY <1>2, <1>3 DEF TypeInv, DispatcherInv

LEMMA TypeInvCreate ==
  ASSUME TypeInv, NEW p \in Proxies, Create(p) \/ Destroy(p)
  PROVE  TypeInv'
<1>1. UNCHANGED <<eventVars, subscriptionVars, toldVars, loopVars>>
  BY DEF Create, Destroy
<1>2. EventTypes' /\ HandlerTypes' /\ LoopTypes' /\ ToldTypes'
  BY <1>1, TypesKept DEF TypeInv
<1>3. RegistrationTypes'
  <2> USE DEF TypeInv, RegistrationTypes, registrationVars
  <2>1. CASE CountEvent(p) \/ RequestEvent(p) \/ AddHandler(p) \/ RegisterHandler(p)
    BY <2>1 DEF CountEvent, RequestEvent, AddHandler, RegisterHandler
  <2>2. CASE CountService(p) \/ RequestService(p) \/ Query(p) \/ Assign(p)
    BY <2>2 DEF CountService, RequestService, Query, Assign
  <2>3. CASE Destroy(p)
    BY <2>3 DEF Destroy, UncountEvent, ReleaseEvent, ReleaseService, RemoveHandler, UnregisterHandler
  <2> QED  BY <2>1, <2>2, <2>3 DEF Create
<1>4. /\ UNCHANGED <<called, up, dispatcher, queue, changes>>
      /\ calls' = Append(calls, Report(up)) \/ calls' = calls
      /\ known' = [known EXCEPT ![p] = TRUE] \/ known' = known
  <2>1. CASE Create(p)
    BY <2>1 DEF Create, CountEvent, RequestEvent, AddHandler, RegisterHandler, CountService, RequestService,
       Query, Assign, reportVars
  <2>2. CASE Destroy(p)
    BY <2>2 DEF Destroy, UncountEvent, ReleaseEvent, ReleaseService, RemoveHandler, UnregisterHandler, reportVars
  <2> QED  BY <2>1, <2>2
<1>5. DispatcherInv' /\ calls' \in Seq(Calls)
  <2>1. Report(up) \in Calls /\ calls \in Seq(Calls)
    BY ReportType DEF TypeInv, ReportTypes
  <2>2. <<Report(up)>> \in Seq(Calls) /\ Append(calls, Report(up)) = calls \o <<Report(up)>>
    BY <2>1, AppendIsConcat
  <2>3. UNCHANGED <<dispatcher, batch>>
    BY <1>1, <1>4 DEF loopVars
  <2> QED  BY <1>4, <2>2, <2>3, DispatcherKept
<1>6. ReportTypes'
  BY <1>4, <1>5 DEF TypeInv, ReportTypes
<1> QED  BY <1>2, <1>3, <1>5, <1>6 DEF TypeInv

\* The application adds and removes listeners.
LEMMA TypeInvListeners ==
  ASSUME TypeInv, NEW p \in Proxies, AddListener(p) \/ Close(p) \/ \E n \in Tags : RemoveListener(p, n)
  PROVE  TypeInv'
<1>1. UNCHANGED <<registrationVars, reportVars, subscriptionVars, loopVars>>
  BY DEF AddListener, Close, RemoveListener
<1>2. ReportTypes' /\ HandlerTypes' /\ LoopTypes'
  BY <1>1, TypesKept DEF TypeInv
<1>3. RegistrationTypes' /\ DispatcherInv'
  BY <1>1 DEF TypeInv, RegistrationTypes, DispatcherInv, registrationVars, reportVars, loopVars
<1>4. CASE AddListener(p)
  <2>1. UNCHANGED <<fresh, toldVars>> /\ ToldTypes'
    BY <1>4, TypesKept DEF AddListener, TypeInv
  <2>2. /\ made[p] \in 0 .. MaxListeners
        /\ Cardinality({h \in Subscribers : h[2] <= made[h[1]]}) < MaxListeners
    BY <1>4 DEF AddListener, TypeInv, EventTypes
  <2>3. made[p] + 1 \in Tags
    BY <2>2, ListenersBound
  <2>4. made' \in [Proxies -> 0 .. MaxListeners]
    <3>1. made[p] + 1 \in 0 .. MaxListeners
      BY <2>3, ListenersAssumption DEF Tags
    <3> QED  BY <1>4, <3>1 DEF AddListener, TypeInv, EventTypes
  <2>5. active' \in [Proxies -> SUBSET Tags]
    BY <1>4, <2>3 DEF AddListener, TypeInv, EventTypes
  <2>6. EventTypes'
    BY <2>1, <2>4, <2>5 DEF TypeInv, EventTypes
  <2> QED  BY <1>2, <1>3, <2>1, <2>6 DEF TypeInv
<1>5. CASE Close(p) \/ \E n \in Tags : RemoveListener(p, n)
  <2>1. UNCHANGED <<made, fresh>> /\ \E tags \in SUBSET Tags : active' = [active EXCEPT ![p] = @ \ tags] /\ Forgets(p, tags)
    <3>1. CASE Close(p)
      <4>1. active' = [active EXCEPT ![p] = @ \ Tags]
        BY <1>1, <3>1 DEF Close, TypeInv, EventTypes
      <4> QED  BY <3>1, <4>1 DEF Close
    <3>2. CASE \E n \in Tags : RemoveListener(p, n)
      <4>1. PICK n \in Tags : RemoveListener(p, n)
        BY <3>2
      <4>2. {n} \in SUBSET Tags
        BY <4>1
      <4> QED  BY <4>1, <4>2 DEF RemoveListener
    <3> QED  BY <1>5, <3>1, <3>2
  <2>2. PICK tags \in SUBSET Tags : active' = [active EXCEPT ![p] = @ \ tags] /\ Forgets(p, tags)
    BY <2>1
  <2>3. EventTypes'
    BY <2>1, <2>2 DEF TypeInv, EventTypes
  <2>4. \A f \in [Proxies -> [Tags -> Nat]] : Without(f, p, tags) \in [Proxies -> [Tags -> Nat]]
    BY DEF Without
  <2>5. ToldTypes'
    BY <2>2, <2>4 DEF TypeInv, ToldTypes, Forgets
  <2> QED  BY <1>2, <1>3, <2>3, <2>5 DEF TypeInv
<1> QED  BY <1>4, <1>5

\* Subscribing and unsubscribing at the connection.
LEMMA TypeInvSubscribing ==
  ASSUME TypeInv, SubscriptionInv, NEW p \in Proxies, Subscribing(p) \/ RemoveEventHandler(p)
  PROVE  TypeInv'
<1>1. /\ UNCHANGED <<made, active, toldVars, loopVars, called, known, up, dispatcher, queue, changes, handlerAt, serviceAt, receiverAt, eventAt>>
      /\ calls' = calls \o Answers \/ calls' = calls
  BY DEF Subscribing, AddEventHandler, Listen, InsertHandler, Subscribe, RemoveEventHandler,
     registrationVars, reportVars, eventVars
<1>2. LoopTypes' /\ ToldTypes'
  BY <1>1, TypesKept DEF TypeInv
<1>3. DispatcherInv' /\ calls' \in Seq(Calls)
  BY <1>1, AnswersKinds, DispatcherKept DEF loopVars
<1>4. ReportTypes'
  BY <1>1, <1>3 DEF TypeInv, ReportTypes
<1>5. RegistrationTypes'
  BY <1>1 DEF TypeInv, RegistrationTypes, Subscribing, AddEventHandler, Listen, InsertHandler, Subscribe,
     RemoveEventHandler, registrationVars
<1>6. pc[p] \in {"listen", "insert"} => made[p] \in Tags
  BY DEF SubscriptionInv, HandlerWhileListening, TypeInv, EventTypes
<1>7. EventTypes'
  <2>1. fresh' = fresh \/ (pc[p] = "listen" /\ fresh' = [fresh EXCEPT ![p] = @ \cup {made[p]}])
    BY DEF Subscribing, AddEventHandler, Listen, InsertHandler, Subscribe, RemoveEventHandler, Step, eventVars
  <2> QED  BY <1>1, <1>6, <2>1 DEF TypeInv, EventTypes
<1>8. HandlerTypes'
  <2> USE DEF TypeInv, HandlerTypes
  <2>1. CASE AddEventHandler(p) \/ Listen(p) \/ Subscribe(p)
    BY <2>1 DEF AddEventHandler, Listen, Subscribe, subscriptionVars
  <2>2. CASE InsertHandler(p)
    <3>1. <<p, made[p]>> \in Subscribers
      BY <1>6, <2>2 DEF InsertHandler, Step, Subscribers
    <3>2. Append(pendingHandlers, <<p, made[p]>>) \in Seq(Subscribers)
      BY <3>1, AppendProperties
    <3> QED  BY <2>2, <3>1, <3>2 DEF InsertHandler, Pending
  <2>3. CASE RemoveEventHandler(p)
    <3>1. <<>> \in Seq(Subscribers)
      BY EmptySeq
    <3> QED  BY <2>3, <3>1 DEF RemoveEventHandler, LastSubscriber, OneSubscriberLess, Handlers
  <2> QED  BY <2>1, <2>2, <2>3 DEF Subscribing
<1> QED  BY <1>2, <1>3, <1>4, <1>5, <1>7, <1>8 DEF TypeInv

\* The service comes and goes, and sends values.
LEMMA TypeInvService ==
  ASSUME TypeInv, ChangeService \/ Update \/ UNCHANGED vars
  PROVE  TypeInv'
<1>1. UNCHANGED <<eventVars, subscriptionVars, toldVars, loopVars, handlerAt, serviceAt, receiverAt, eventAt, called, known, dispatcher, queue>>
      /\ crossed' \in BOOLEAN
  <2>1. CASE ChangeService
    BY <2>1 DEF ChangeService, ServiceChange, TypeInv, RegistrationTypes, HandlerTypes
  <2>2. CASE Update \/ UNCHANGED vars
    BY <2>2 DEF Update, vars, proxyVars, registrationVars, reportVars, TypeInv, RegistrationTypes
  <2> QED  BY <2>1, <2>2
<1>2. EventTypes' /\ HandlerTypes' /\ LoopTypes' /\ ToldTypes'
  BY <1>1, TypesKept DEF TypeInv
<1>3. RegistrationTypes'
  BY <1>1 DEF TypeInv, RegistrationTypes
<1>4. changes' \in 0 .. MaxChanges /\ up' \in BOOLEAN
  <2>1. CASE ChangeService \/ Update
    <3>1. changes < MaxChanges /\ changes' = changes + 1 /\ (up' = ~up \/ up' = up)
      BY <2>1 DEF ChangeService, ServiceChange, Update
    <3>2. changes' \in 0 .. MaxChanges
      BY <3>1, ChangesAssumption DEF TypeInv, ReportTypes
    <3> QED  BY <3>1, <3>2 DEF TypeInv, ReportTypes
  <2>2. CASE UNCHANGED vars
    BY <2>2 DEF vars, reportVars, TypeInv, ReportTypes
  <2> QED  BY <2>1, <2>2
<1>5. DispatcherInv' /\ calls' \in Seq(Calls)
  <2>1. calls \in Seq(Calls) /\ UNCHANGED <<dispatcher, batch>>
    BY <1>1 DEF TypeInv, ReportTypes, loopVars
  <2>2. CASE ChangeService
    <3> DEFINE more == IF ~up /\ subscribedAt THEN Answers ELSE <<>>
    <3>1. <<>> \in Seq(Calls) /\ Report(~up) \in Calls
      BY EmptySeq, ReportType DEF TypeInv, ReportTypes
    <3>2. more \in Seq(Calls)
      BY <3>1, AnswersKinds
    <3>3. <<Report(~up)>> \in Seq(Calls) /\ Append(calls, Report(~up)) = calls \o <<Report(~up)>>
      BY <2>1, <3>1, AppendIsConcat
    <3>4. PICK s : /\ s = (IF handlerAt THEN Append(calls, Report(~up)) ELSE calls)
                   /\ s \in Seq(Calls) /\ (calls # <<>> => s # <<>> /\ Head(s) = Head(calls))
      BY <2>1, <3>1, <3>3, HeadOfConcat, AppendProperties
    <3>5. calls' = s \o more
      BY <2>2, <3>4 DEF ChangeService, ServiceChange
    <3> HIDE DEF more
    <3>6. calls' \in Seq(Calls) /\ (calls # <<>> => calls' # <<>> /\ Head(calls') = Head(calls))
      BY <3>2, <3>4, <3>5, HeadOfConcat, ConcatProperties
    <3> QED  BY <2>1, <3>6 DEF TypeInv, DispatcherInv
  <2>3. CASE Update
    <3>1. Entry("update", <<>>) \in Calls
      BY EntryType DEF Kinds
    <3>2. <<Entry("update", <<>>)>> \in Seq(Calls) /\ calls' = calls \o <<Entry("update", <<>>)>>
      BY <2>1, <2>3, <3>1, AppendIsConcat DEF Update
    <3> QED  BY <2>1, <3>2, DispatcherKept
  <2>4. CASE UNCHANGED vars
    BY <2>1, <2>4 DEF vars, reportVars, TypeInv, DispatcherInv
  <2> QED  BY <2>2, <2>3, <2>4
<1>6. ReportTypes'
  BY <1>1, <1>4, <1>5 DEF TypeInv, ReportTypes
<1> QED  BY <1>2, <1>3, <1>5, <1>6 DEF TypeInv

LEMMA SubscribersFinite ==
  ASSUME HandlerTypes
  PROVE  IsFiniteSet(allHandlers)
<1>1. IsFiniteSet(Tags)
  BY FS_Interval, ListenersAssumption DEF Tags
<1>2. IsFiniteSet(Subscribers)
  BY <1>1, ProxiesAssumption, FS_Product DEF Subscribers
<1> QED  BY <1>2, FS_Subset DEF HandlerTypes

\* The dispatcher of vsomeip takes the first of its calls, or pushes a status.
LEMMA TypeInvDispatch ==
  ASSUME TypeInv, Dispatch
  PROVE  TypeInv'
<1>1. UNCHANGED <<proxyVars, eventVars, called, known, up, changes, loop, left, current, subscribers,
                  eventHandlers, allHandlers, grouped, wrapped, statusHandlerAt, subscribedAt, statuses, initials, heard>>
  BY DEF Dispatch, Forgotten, Forget, Reported, BeginReport, QueueReport, EndReport, StatusHandler, PushStatus,
     PushValue, subscriptionVars, toldVars, loopVars
<1>2. RegistrationTypes' /\ EventTypes'
  BY <1>1, TypesKept DEF TypeInv
<1>3. /\ calls \in Seq(Calls) /\ queue \in Seq(Calls) /\ batch \in Seq(Subscribers)
      /\ pendingHandlers \in Seq(Subscribers) /\ <<>> \in Seq(Subscribers)
  BY EmptySeq DEF TypeInv, ReportTypes, LoopTypes, HandlerTypes
<1>4. calls # <<>> => Head(calls) \in Calls /\ Tail(calls) \in Seq(Calls) /\ Append(queue, Head(calls)) \in Seq(Calls)
  BY <1>3, HeadTailProperties, AppendProperties
<1>5. batch # <<>> => Head(batch) \in Subscribers /\ Tail(batch) \in Seq(Subscribers)
  BY <1>3, HeadTailProperties
<1>6. SUFFICES /\ calls' \in Seq(Calls) /\ queue' \in Seq(Calls) /\ batch' \in Seq(Subscribers)
               /\ pendingHandlers' \in Seq(Subscribers) /\ dispatcher' \in {"idle", "locked", "pushing"}
               /\ losses' \in [Proxies -> [Tags -> Nat]] /\ DispatcherInv'
  <2>1. ASSUME calls' \in Seq(Calls), queue' \in Seq(Calls), dispatcher' \in {"idle", "locked", "pushing"}
        PROVE  ReportTypes'
    BY <1>1, <2>1 DEF TypeInv, ReportTypes
  <2>2. ASSUME pendingHandlers' \in Seq(Subscribers) PROVE HandlerTypes'
    BY <1>1, <2>2 DEF TypeInv, HandlerTypes
  <2>3. ASSUME batch' \in Seq(Subscribers) PROVE LoopTypes'
    BY <1>1, <2>3 DEF TypeInv, LoopTypes
  <2>4. ASSUME losses' \in [Proxies -> [Tags -> Nat]] PROVE ToldTypes'
    BY <1>1, <2>4 DEF TypeInv, ToldTypes
  <2> QED  BY <1>2, <2>1, <2>2, <2>3, <2>4 DEF TypeInv
<1>7. losses \in [Proxies -> [Tags -> Nat]]
  BY DEF TypeInv, ToldTypes
<1>8. CASE Forgotten \/ Reported
  <2>1. UNCHANGED <<queue, batch, pendingHandlers, losses>>
    BY <1>8 DEF Forgotten, Forget, Reported, BeginReport, subscriptionVars, toldVars, loopVars
  <2>2. CASE Forgotten
    BY <1>3, <1>4, <1>7, <2>1, <2>2 DEF Forgotten, Forget, TypeInv, DispatcherInv
  <2>3. CASE Reported
    BY <1>3, <1>7, <2>1, <2>3 DEF Reported, BeginReport, TypeInv, DispatcherInv, Reports
  <2> QED  BY <1>8, <2>2, <2>3
<1>9. CASE QueueReport
  <2>1. /\ dispatcher = "locked" /\ dispatcher' = "idle" /\ calls' = Tail(calls) /\ queue' = Append(queue, Head(calls))
        /\ UNCHANGED batch
    BY <1>9 DEF QueueReport, EndReport, loopVars
  <2>2. batch = <<>> /\ calls # <<>>
    BY <2>1 DEF TypeInv, DispatcherInv
  <2>3. pendingHandlers' \in Seq(Subscribers)
    <3>1. SetToSeq(allHandlers) \in Seq(allHandlers) /\ allHandlers \subseteq Subscribers
      BY SubscribersFinite, TimesSetToSeq DEF TypeInv, HandlerTypes
    <3>2. SetToSeq(allHandlers) \in Seq(Subscribers)
      BY <3>1
    <3>3. pendingHandlers \o SetToSeq(allHandlers) \in Seq(Subscribers)
      BY <1>3, <3>2, ConcatProperties
    <3> QED  BY <1>3, <1>9, <3>3 DEF QueueReport, Requeued
  <2>4. losses' \in [Proxies -> [Tags -> Nat]]
    <3>1. \E b \in BOOLEAN : losses' = [p \in Proxies |-> [n \in Tags |->
                      losses[p][n] + IF b /\ n \in active[p] /\ <<p, n>> \in allHandlers THEN 1 ELSE 0]]
      BY <1>9 DEF QueueReport
    <3> QED  BY <1>7, <3>1
  <2> QED  BY <1>3, <1>4, <2>1, <2>2, <2>3, <2>4 DEF DispatcherInv
<1>10. CASE StatusHandler
  <2>1. /\ dispatcher = "idle" /\ calls # <<>> /\ calls' = Tail(calls) /\ UNCHANGED <<queue, losses>>
        /\ \/ pendingHandlers # <<>> /\ batch' = pendingHandlers /\ pendingHandlers' = <<>> /\ dispatcher' = "pushing"
           \/ UNCHANGED <<batch, pendingHandlers, dispatcher>>
    BY <1>10 DEF StatusHandler, PopPending, toldVars
  <2> QED  BY <1>3, <1>4, <1>7, <2>1 DEF TypeInv, DispatcherInv
<1>11. CASE PushStatus
  <2>1. /\ dispatcher = "pushing" /\ queue' = Append(queue, Entry("status", Head(batch))) /\ batch' = Tail(batch)
        /\ dispatcher' = (IF batch' = <<>> THEN "idle" ELSE "pushing") /\ UNCHANGED <<calls, pendingHandlers, losses>>
    BY <1>11 DEF PushStatus, subscriptionVars, toldVars
  <2>2. Entry("status", Head(batch)) \in Calls
    BY <1>5, <2>1, EntryType DEF TypeInv, DispatcherInv
  <2>3. queue' \in Seq(Calls) /\ batch' \in Seq(Subscribers)
    BY <1>3, <1>5, <2>1, <2>2, AppendProperties DEF TypeInv, DispatcherInv
  <2> QED  BY <1>3, <1>7, <2>1, <2>3 DEF DispatcherInv
<1>12. CASE PushValue
  <2>1. /\ dispatcher = "idle" /\ calls # <<>> /\ calls' = Tail(calls) /\ queue' = Append(queue, Head(calls))
        /\ UNCHANGED <<dispatcher, batch, pendingHandlers, losses>>
    BY <1>12 DEF PushValue, subscriptionVars, toldVars, loopVars
  <2> QED  BY <1>3, <1>4, <1>7, <2>1 DEF TypeInv, DispatcherInv
<1> QED  BY <1>8, <1>9, <1>10, <1>11, <1>12 DEF Dispatch

\* The main loop takes the first entry of its queue, and tells a value.
LEMMA TypeInvMainLoop ==
  ASSUME TypeInv, MainLoop
  PROVE  TypeInv'
<1>1. UNCHANGED <<proxyVars, subscriptionVars, made, active, losses, up, calls, dispatcher, changes, batch>>
  BY DEF MainLoop, InformProxies, HandleReport, CallErrorListener, EndErrorListener, HandleValue, TakeValue,
     EndValue, TakeSubscribers, Notify, reportVars, eventVars, toldVars, loopVars
<1>2. RegistrationTypes' /\ HandlerTypes' /\ DispatcherInv'
  BY <1>1, TypesKept DEF TypeInv, DispatcherInv
<1>3. queue' \in Seq(Calls)
  <2>1. UNCHANGED queue \/ (queue # <<>> /\ queue' = Tail(queue))
    BY DEF MainLoop, InformProxies, HandleReport, CallErrorListener, EndErrorListener, HandleValue, TakeValue,
       EndValue, TakeSubscribers, Notify, reportVars
  <2> QED  BY <2>1, HeadTailProperties DEF TypeInv, ReportTypes
<1>4. ReportTypes'
  <2>1. \/ UNCHANGED <<called, known>>
        \/ called' = TRUE /\ \E b \in BOOLEAN : known' = KnownAfter(b)
    BY DEF MainLoop, InformProxies, HandleReport, CallErrorListener, EndErrorListener, HandleValue, TakeValue,
       EndValue, TakeSubscribers, Notify, reportVars
  <2>2. called' \in BOOLEAN /\ known' \in [Proxies -> BOOLEAN]
    BY <2>1 DEF KnownAfter, TypeInv, ReportTypes
  <2> QED  BY <1>1, <1>3, <2>2 DEF TypeInv, ReportTypes
<1>5. SUFFICES EventTypes' /\ LoopTypes' /\ ToldTypes'
  BY <1>2, <1>4 DEF TypeInv
<1>6. CASE InformProxies
  BY <1>6, TypesKept DEF InformProxies, TypeInv
<1>7. CASE CallErrorListener
  <2>1. UNCHANGED <<eventVars, initials, heard, losses, batch, left, current, subscribers>> /\ loop' \in {loop, "calling"}
    BY <1>7 DEF CallErrorListener
  <2>2. EventTypes' /\ LoopTypes'
    BY <2>1, TypesKept DEF TypeInv, LoopTypes
  <2>3. PICK h \in Subscribers \cup {<<>>} :
          statuses' = IF h \in allHandlers /\ h[2] \in active[h[1]]
                        THEN [statuses EXCEPT ![h[1]][h[2]] = @ + 1] ELSE statuses
    <3>1. Head(queue) \in Calls
      BY <1>7, HeadTailProperties DEF CallErrorListener, TypeInv, ReportTypes
    <3> QED  BY <1>7, <3>1 DEF CallErrorListener, Calls
  <2>4. h \in allHandlers => h[1] \in Proxies /\ h[2] \in Tags
    BY DEF TypeInv, HandlerTypes, Subscribers
  <2>5. statuses' \in [Proxies -> [Tags -> Nat]]
    BY <2>3, <2>4 DEF TypeInv, ToldTypes
  <2> QED  BY <2>1, <2>2, <2>5 DEF TypeInv, ToldTypes
<1>8. CASE EndErrorListener \/ TakeValue \/ EndValue
  <2>1. UNCHANGED <<eventVars, toldVars, batch, current, subscribers>>
    BY <1>8 DEF EndErrorListener, TakeValue, EndValue
  <2>2. loop' \in {"idle"} \cup Kinds /\ left' \in {left, eventHandlers}
    BY <1>8 DEF EndErrorListener, TakeValue, EndValue
  <2> QED  BY <2>1, <2>2, TypesKept DEF TypeInv, LoopTypes, HandlerTypes
<1>9. ASSUME NEW p \in Proxies, TakeSubscribers(p) PROVE EventTypes' /\ LoopTypes' /\ ToldTypes'
  BY <1>9, TypesKept DEF TakeSubscribers, NoLongerFresh, TypeInv, EventTypes, LoopTypes, toldVars
<1>10. ASSUME NEW p \in Proxies, Notify(p) PROVE EventTypes' /\ LoopTypes' /\ ToldTypes'
  <2>1. EventTypes' /\ LoopTypes'
    BY <1>10, TypesKept DEF Notify, TypeInv, LoopTypes
  <2>2. Receivers(p) \subseteq Tags
    BY DEF Receivers, TypeInv, EventTypes
  <2>3. ToldTypes'
    BY <1>10, <2>2 DEF Notify, TypeInv, ToldTypes
  <2> QED  BY <2>1, <2>3
<1> QED  BY <1>6, <1>7, <1>8, <1>9, <1>10 DEF MainLoop, HandleValue

LEMMA TypeInvStep ==
  ASSUME TypeInv, SubscriptionInv, [Next]_vars
  PROVE  TypeInv'
<1>1. \/ \E p \in Proxies : Create(p) \/ Destroy(p) \/ Subscribing(p) \/ RemoveEventHandler(p) \/ AddListener(p)
                            \/ Close(p) \/ \E n \in Tags : RemoveListener(p, n)
      \/ ChangeService \/ Update \/ UNCHANGED vars \/ Dispatch \/ MainLoop
  BY DEF Next, Operate
<1> QED  BY <1>1, TypeInvCreate, TypeInvListeners, TypeInvSubscribing, TypeInvService, TypeInvDispatch, TypeInvMainLoop

\* What the connection and vsomeip know of the proxies, from the other module,
\* and the types.
BaseInv == ServiceInv /\ HandlerInv /\ EventInv /\ SubscriptionInv /\ TypeInv

LEMMA BaseInvInit == Init => BaseInv
BY CountsInit, ServiceInvInit, SubscriptionInvInit, TypeInvInit DEF BaseInv

LEMMA BaseInvStep ==
  ASSUME BaseInv, [Next]_vars
  PROVE  BaseInv'
BY ServiceInvStep, HandlerInvStep, EventInvStep, SubscriptionInvStep, TypeInvStep DEF BaseInv

\* Every variable has its type in every reachable state.
THEOREM TypesHold == Spec => []TypeOK
<1>1. BaseInv => TypeOK
  <2> SUFFICES ASSUME ServiceInv, HandlerInv, EventInv, SubscriptionInv, TypeInv PROVE TypeOK
    BY DEF BaseInv
  <2>1. pc \in [Proxies -> Steps] /\ handlers \subseteq Proxies
    BY DEF ServiceInv, PcType, HandlerInv, InHandlers
  <2>2. services \in Nat
    <3>1. InService \in SUBSET Proxies
      BY DEF InService
    <3>2. Cardinality(InService) \in Nat
      BY <3>1, ProxiesAssumption, FS_Subset, FS_CardinalityType
    <3> QED  BY <3>2 DEF ServiceInv
  <2>3. events \in Nat
    <3>1. InEvent \in SUBSET Proxies /\ eventHandlers \in SUBSET Proxies
      BY DEF InEvent, TypeInv, HandlerTypes
    <3>2. Cardinality(InEvent) \in Nat /\ Cardinality(eventHandlers) \in Nat
      BY <3>1, ProxiesAssumption, FS_Subset, FS_CardinalityType
    <3> QED  BY <3>2 DEF EventInv
  <2> QED
    BY <2>1, <2>2, <2>3 DEF TypeOK, TypeInv, RegistrationTypes, ReportTypes, EventTypes, HandlerTypes, LoopTypes, ToldTypes
<1> QED  BY <1>1, BaseInvInit, BaseInvStep, PTL DEF Spec

-----------------------------------------------------------------------------
(* The stages of a subscription: made, in listeners_, among the handlers    *)
(* of the wrapper (Inserted), requested at vsomeip (Requested).             *)

\* Not in listeners_ yet, or not even made.
NotHeld(p, n) == n > made[p] \/ (n = made[p] /\ pc[p] \in {"add", "listen"})

Held(p, n) == n \in active[p] /\ ~(n = made[p] /\ pc[p] \in {"add", "listen"})

\* The step leaves the subscription at its stage.
Same(p, n) ==
  /\ NotHeld(p, n)' <=> NotHeld(p, n)
  /\ Held(p, n)' <=> Held(p, n)
  /\ Inserted(p, n)' <=> Inserted(p, n)
  /\ Requested(p, n)' <=> Requested(p, n)
  /\ n \in active'[p] <=> n \in active[p]

\* Of the other proxies.
LEMMA SameElsewhere ==
  ASSUME NEW p \in Proxies, NEW q \in Proxies \ {p}, NEW n \in Tags, NEW from, NEW to, Moves(p, from, to),
         made'[q] = made[q], active'[q] = active[q]
  PROVE  Same(q, n)
BY DEF Moves, Same, NotHeld, Held, Inserted, Requested

\* Creation and destruction, vsomeip, the dispatcher and the main loop.
LEMMA SameStages ==
  ASSUME BaseInv, \/ Others
                  \/ \E p \in Proxies : Create(p) \/ Destroy(p) \/ AddEventHandler(p) \/ RemoveEventHandler(p)
  PROVE  UNCHANGED <<made, active>> /\ \A q \in Proxies : \A n \in Tags : Same(q, n)
<1>1. CASE Others
  <2>1. UNCHANGED pc
    BY <1>1, OthersKeep
  <2>2. UNCHANGED <<made, active>>
    BY <1>1 DEF Others, ChangeService, Update, Dispatch, MainLoop, Forgotten, Reported, QueueReport,
       StatusHandler, PushStatus, PushValue, InformProxies, CallErrorListener, EndErrorListener, HandleValue,
       TakeValue, EndValue, TakeSubscribers, Notify, vars, eventVars
  <2> QED  BY <2>1, <2>2 DEF Same, NotHeld, Held, Inserted, Requested
<1>2. ASSUME NEW p \in Proxies, Create(p) \/ Destroy(p) \/ AddEventHandler(p) \/ RemoveEventHandler(p)
      PROVE  UNCHANGED <<made, active>> /\ \A q \in Proxies : \A n \in Tags : Same(q, n)
  <2>1. UNCHANGED <<made, active>>
    BY <1>2 DEF Create, Destroy, AddEventHandler, RemoveEventHandler, eventVars
  <2>2. \E from \in Steps, to \in Steps : Moves(p, from, to) /\ \A n \in Tags : Same(p, n)
    <3>1. CASE Create(p) \/ Destroy(p)
      <4>1. PICK from \in Steps \ (ListenPlaces \cup {"idle", "add"}), to \in Steps \ (ListenPlaces \cup {"add"}) :
              Moves(p, from, to) /\ active[p] = {}
        BY <3>1, CreationMoves DEF BaseInv
      <4> QED  BY <2>1, <4>1 DEF Moves, Same, NotHeld, Held, Inserted, Requested, ListenPlaces
    <3>2. CASE AddEventHandler(p)
      <4>1. Moves(p, "add", "listen") /\ "add" \in Steps /\ "listen" \in Steps
        BY <3>2, StepMoves DEF AddEventHandler, BaseInv, ServiceInv, Steps
      <4>2. active[p] \subseteq {made[p]}
        BY <4>1 DEF Moves, BaseInv, SubscriptionInv, HandlerWhileListening
      <4> QED  BY <2>1, <4>1, <4>2 DEF Moves, Same, NotHeld, Held, Inserted, Requested
    <3>3. CASE RemoveEventHandler(p)
      <4>1. PICK from \in {"remove", "close"}, to \in {"idle", "uncount"} : Moves(p, from, to) /\ from \in Steps /\ to \in Steps
        BY <3>3, StepMoves DEF RemoveEventHandler, BaseInv, ServiceInv, Steps
      <4>2. active[p] = {}
        BY <4>1 DEF Moves, BaseInv, SubscriptionInv, HandlerWhileListening
      <4> QED  BY <2>1, <4>1, <4>2 DEF Moves, Same, NotHeld, Held, Inserted, Requested
    <3> QED  BY <1>2, <3>1, <3>2, <3>3
  <2> QED  BY <2>1, <2>2, SameElsewhere
<1> QED  BY <1>1, <1>2

\* Listen, InsertHandler and Subscribe take the newest listener one stage on.
LEMMA NextStage ==
  ASSUME BaseInv, NEW p \in Proxies, Listen(p) \/ InsertHandler(p) \/ Subscribe(p)
  PROVE  /\ UNCHANGED <<made, active>>
         /\ \A q \in Proxies : \A n \in Tags : q # p \/ n # made[p] => Same(q, n)
         /\ Listen(p) => /\ NotHeld(p, made[p]) /\ ~NotHeld(p, made[p])'
                         /\ ~Inserted(p, made[p]) /\ ~Inserted(p, made[p])' /\ ~Requested(p, made[p])'
         /\ ~Listen(p) => /\ NotHeld(p, made[p])' <=> NotHeld(p, made[p])
                          /\ Held(p, made[p])' <=> Held(p, made[p])
         /\ InsertHandler(p) => ~Inserted(p, made[p]) /\ Inserted(p, made[p])' /\ ~Requested(p, made[p])'
         /\ Subscribe(p) => Inserted(p, made[p]) /\ Inserted(p, made[p])'
<1>1. UNCHANGED <<made, active>>
  BY DEF Listen, InsertHandler, Subscribe, eventVars
<1>2. PICK from \in {"listen", "insert", "subscribe"}, to \in {"insert", "subscribe", "idle"} :
        /\ Moves(p, from, to)
        /\ Listen(p) => from = "listen" /\ to = "insert"
        /\ ~Listen(p) => from # "listen"
        /\ InsertHandler(p) => from = "insert" /\ to = "subscribe"
        /\ Subscribe(p) => from = "subscribe" /\ to = "idle"
        /\ from = "listen" => to = "insert"
        /\ from = "insert" => to = "subscribe"
        /\ from = "subscribe" => to = "idle"
  <2>1. PcType
    BY DEF BaseInv, ServiceInv
  <2>2. CASE Listen(p)
    <3>1. Moves(p, "listen", "insert")
      BY <2>1, <2>2, StepMoves DEF Listen, Steps
    <3> QED  BY <2>2, <3>1 DEF InsertHandler, Subscribe, Moves, Step
  <2>3. CASE InsertHandler(p)
    <3>1. Moves(p, "insert", "subscribe")
      BY <2>1, <2>3, StepMoves DEF InsertHandler, Steps
    <3> QED  BY <2>3, <3>1 DEF Listen, Subscribe, Moves, Step
  <2>4. CASE Subscribe(p)
    <3>1. Moves(p, "subscribe", "idle")
      BY <2>1, <2>4, StepMoves DEF Subscribe, Steps
    <3> QED  BY <2>4, <3>1 DEF Listen, InsertHandler, Moves, Step
  <2> QED  BY <2>2, <2>3, <2>4
<1>3. made[p] \in active[p] /\ made[p] \in Nat
  BY <1>2 DEF Moves, BaseInv, SubscriptionInv, SubscriptionTypes, HandlerWhileListening
<1>4. ASSUME NEW n \in Tags, n # made[p] PROVE Same(p, n)
  BY <1>1, <1>2, <1>4 DEF Moves, Same, NotHeld, Held, Inserted, Requested
<1>5. \A q \in Proxies : \A n \in Tags : q # p \/ n # made[p] => Same(q, n)
  BY <1>1, <1>2, <1>4, SameElsewhere
<1>6. Listen(p) => /\ NotHeld(p, made[p]) /\ ~NotHeld(p, made[p])'
                   /\ ~Inserted(p, made[p]) /\ ~Inserted(p, made[p])' /\ ~Requested(p, made[p])'
  BY <1>1, <1>2, <1>3 DEF Moves, NotHeld, Inserted, Requested
<1>7. ~Listen(p) => /\ NotHeld(p, made[p])' <=> NotHeld(p, made[p])
                    /\ Held(p, made[p])' <=> Held(p, made[p])
  BY <1>1, <1>2, <1>3 DEF Moves, NotHeld, Held
<1>8. InsertHandler(p) => ~Inserted(p, made[p]) /\ Inserted(p, made[p])' /\ ~Requested(p, made[p])'
  BY <1>1, <1>2, <1>3 DEF Moves, Inserted, Requested
<1>9. Subscribe(p) => Inserted(p, made[p]) /\ Inserted(p, made[p])'
  BY <1>1, <1>2, <1>3 DEF Moves, Inserted
<1> QED  BY <1>1, <1>5, <1>6, <1>7, <1>8, <1>9

LEMMA NewStage ==
  ASSUME BaseInv, NEW p \in Proxies, AddListener(p)
  PROVE  /\ made'[p] = made[p] + 1 /\ made[p] + 1 \in Tags /\ made[p] \in Nat
         /\ \A q \in Proxies \ {p} : made'[q] = made[q]
         /\ \A q \in Proxies : \A n \in Tags :
              /\ NotHeld(q, n)' <=> NotHeld(q, n)
              /\ q # p \/ n # made[p] + 1 => Same(q, n)
         /\ \A n \in Tags : n = made[p] + 1 => ~Held(p, n)' /\ ~Inserted(p, n)' /\ ~Requested(p, n)'
<1>1. /\ made' = [made EXCEPT ![p] = @ + 1] /\ active' = [active EXCEPT ![p] = @ \cup {made[p] + 1}]
      /\ Cardinality({h \in Subscribers : h[2] <= made[h[1]]}) < MaxListeners
  BY DEF AddListener
<1>2. /\ made \in [Proxies -> 0 .. MaxListeners] /\ active \in [Proxies -> SUBSET Tags] /\ PcType
  BY DEF BaseInv, TypeInv, EventTypes, ServiceInv
<1>3. /\ made'[p] = made[p] + 1 /\ active'[p] = active[p] \cup {made[p] + 1} /\ made[p] \in Nat
      /\ \A q \in Proxies \ {p} : made'[q] = made[q] /\ active'[q] = active[q]
  BY <1>1, <1>2
<1>4. made[p] + 1 \in Tags
  BY <1>1, <1>2, ListenersBound
<1>5. PICK to \in {"add", "listen"} : Moves(p, "idle", to) /\ (to = "add" => active[p] = {})
  <2>1. CASE active[p] = {}
    <3>1. Step(p, "idle", "add")
      BY <2>1 DEF AddListener
    <3> QED  BY <1>2, <2>1, <3>1, StepMoves DEF Steps
  <2>2. CASE active[p] # {}
    <3>1. Step(p, "idle", "listen")
      BY <2>2 DEF AddListener
    <3> QED  BY <1>2, <3>1, StepMoves DEF Steps
  <2> QED  BY <2>1, <2>2
<1>6. ASSUME NEW n \in Tags PROVE NotHeld(p, n)' <=> NotHeld(p, n)
  BY <1>3, <1>5 DEF Moves, NotHeld, Tags
<1>7. ASSUME NEW n \in Tags, n # made[p] + 1 PROVE Same(p, n)
  BY <1>3, <1>5, <1>6, <1>7 DEF Moves, Same, Held, Inserted, Requested
<1>8. ASSUME NEW q \in Proxies \ {p}, NEW n \in Tags PROVE Same(q, n)
  BY <1>3, <1>5, <1>8, SameElsewhere
<1>9. ASSUME NEW n \in Tags, n = made[p] + 1 PROVE ~Held(p, n)' /\ ~Inserted(p, n)' /\ ~Requested(p, n)'
  BY <1>3, <1>5, <1>9 DEF Moves, Held, Inserted, Requested
<1> QED  BY <1>3, <1>4, <1>6, <1>7, <1>8, <1>9 DEF Same

\* A listener goes, or all of them: what they were told goes with them.
LEMMA LastStage ==
  ASSUME BaseInv, NEW p \in Proxies, Close(p) \/ \E n \in Tags : RemoveListener(p, n)
  PROVE  /\ UNCHANGED made
         /\ \A q \in Proxies : \A n \in Tags : NotHeld(q, n)' <=> NotHeld(q, n)
         /\ \E tags \in SUBSET Tags :
              /\ Forgets(p, tags)
              /\ \A q \in Proxies : \A n \in Tags : q # p \/ n \notin tags => Same(q, n)
              /\ \A n \in tags : ~Held(p, n)' /\ ~Inserted(p, n)' /\ ~Requested(p, n)' /\ n \notin active'[p]
<1>1. UNCHANGED made
  BY DEF Close, RemoveListener
<1>2. /\ made \in [Proxies -> 0 .. MaxListeners] /\ active \in [Proxies -> SUBSET Tags] /\ PcType
  BY DEF BaseInv, TypeInv, EventTypes, ServiceInv
<1>3. PICK tags \in SUBSET Tags, to \in {"idle", "remove", "close", "uncount"} :
        /\ active' = [active EXCEPT ![p] = @ \ tags] /\ Forgets(p, tags) /\ Moves(p, "idle", to)
        /\ to # "idle" => active[p] \subseteq tags
  <2>1. CASE Close(p)
    <3>1. active' = [active EXCEPT ![p] = @ \ Tags] /\ active[p] \subseteq Tags
      BY <1>2, <2>1 DEF Close
    <3>2. PICK to \in {"close", "uncount"} : Step(p, "idle", to)
      BY <2>1 DEF Close
    <3>3. Moves(p, "idle", to)
      BY <1>2, <3>2, StepMoves DEF Steps
    <3> QED  BY <2>1, <3>1, <3>3 DEF Close
  <2>2. ASSUME NEW n \in Tags, RemoveListener(p, n)
        PROVE  \E to \in {"idle", "remove"} : Moves(p, "idle", to) /\ (to # "idle" => active[p] \subseteq {n})
    <3>1. CASE active[p] = {n}
      <4>1. Step(p, "idle", "remove")
        BY <2>2, <3>1 DEF RemoveListener
      <4> QED  BY <1>2, <3>1, <4>1, StepMoves DEF Steps
    <3>2. CASE active[p] # {n}
      <4>1. Step(p, "idle", "idle")
        BY <2>2, <3>2 DEF RemoveListener
      <4> QED  BY <1>2, <4>1, StepMoves DEF Steps
    <3> QED  BY <3>1, <3>2
  <2>3. CASE \E n \in Tags : RemoveListener(p, n)
    <3>1. PICK n \in Tags : RemoveListener(p, n)
      BY <2>3
    <3>2. PICK to \in {"idle", "remove"} : Moves(p, "idle", to) /\ (to # "idle" => active[p] \subseteq {n})
      BY <2>2, <3>1
    <3>3. {n} \in SUBSET Tags
      BY <3>1
    <3> QED  BY <3>1, <3>2, <3>3 DEF RemoveListener
  <2> QED  BY <2>1, <2>3
<1>4. /\ active'[p] = active[p] \ tags
      /\ \A q \in Proxies \ {p} : active'[q] = active[q]
  BY <1>2, <1>3
<1>5. ASSUME NEW n \in Tags PROVE NotHeld(p, n)' <=> NotHeld(p, n)
  BY <1>1, <1>3 DEF Moves, NotHeld
<1>6. ASSUME NEW n \in Tags \ tags PROVE Same(p, n)
  BY <1>1, <1>3, <1>4, <1>5, <1>6 DEF Moves, Same, Held, Inserted, Requested
<1>7. ASSUME NEW n \in tags PROVE ~Held(p, n)' /\ ~Inserted(p, n)' /\ ~Requested(p, n)' /\ n \notin active'[p]
  BY <1>4, <1>7 DEF Held, Inserted, Requested
<1>8. ASSUME NEW q \in Proxies \ {p}, NEW n \in Tags PROVE Same(q, n)
  BY <1>1, <1>3, <1>4, <1>8, SameElsewhere
<1> QED  BY <1>1, <1>3, <1>5, <1>6, <1>7, <1>8 DEF Same

-----------------------------------------------------------------------------
(* Initial values.                                                         *)

\* handleEventMessage is about to tell it an initial value.
Taken(p, n) == current = {p} /\ n \in subscribers

\* A subscription waits in listeners_, or is about to be told its initial
\* value, only as long as it was not told one.
InitialInv ==
  \A p \in Proxies : \A n \in Tags :
    /\ NotHeld(p, n) => initials[p][n] = 0 /\ n \notin fresh[p] /\ ~Taken(p, n)
    /\ n \in fresh[p] => initials[p][n] = 0 /\ ~Taken(p, n)
    /\ Taken(p, n) => initials[p][n] = 0
    /\ initials[p][n] <= 1

LEMMA InitialInvKept ==
  ASSUME InitialInv, UNCHANGED <<fresh, initials, current, subscribers>>,
         \A p \in Proxies : \A n \in Tags : NotHeld(p, n)' => NotHeld(p, n)
  PROVE  InitialInv'
BY DEF InitialInv, Taken

LEMMA InitialInvStep ==
  ASSUME BaseInv, InitialInv, [Next]_vars
  PROVE  InitialInv'
<1>1. /\ fresh \in [Proxies -> SUBSET Tags] /\ initials \in [Proxies -> [Tags -> Nat]]
      /\ made \in [Proxies -> 0 .. MaxListeners]
  BY DEF BaseInv, TypeInv, EventTypes, ToldTypes
<1>2. CASE \/ ChangeService \/ Update \/ Dispatch \/ UNCHANGED vars
           \/ InformProxies \/ CallErrorListener \/ EndErrorListener \/ TakeValue \/ EndValue
  <2>1. UNCHANGED <<fresh, initials, current, subscribers>>
    BY <1>2 DEF ChangeService, Update, Dispatch, Forgotten, Reported, QueueReport, StatusHandler, PushStatus,
       PushValue, InformProxies, CallErrorListener, EndErrorListener, TakeValue, EndValue, vars, eventVars,
       toldVars, loopVars
  <2>2. Others
    BY <1>2 DEF Others, MainLoop, HandleValue
  <2> QED  BY <2>1, <2>2, SameStages, InitialInvKept DEF Same
<1>3. ASSUME NEW p \in Proxies, Create(p) \/ Destroy(p) \/ AddEventHandler(p) \/ RemoveEventHandler(p)
      PROVE  InitialInv'
  <2>1. UNCHANGED <<fresh, initials, current, subscribers>>
    BY <1>3 DEF Create, Destroy, AddEventHandler, RemoveEventHandler, eventVars, toldVars, loopVars
  <2> QED  BY <1>3, <2>1, SameStages, InitialInvKept DEF Same
<1>4. ASSUME NEW p \in Proxies, InsertHandler(p) \/ Subscribe(p)
      PROVE  InitialInv'
  <2>1. UNCHANGED <<fresh, initials, current, subscribers>> /\ ~Listen(p)
    BY <1>4 DEF InsertHandler, Subscribe, Listen, Step, eventVars, toldVars, loopVars
  <2> QED  BY <1>4, <2>1, NextStage, InitialInvKept DEF Same
<1>5. ASSUME NEW p \in Proxies, Listen(p)
      PROVE  InitialInv'
  <2>1. /\ fresh'[p] = fresh[p] \cup {made[p]} /\ UNCHANGED <<initials, current, subscribers>>
        /\ \A q \in Proxies \ {p} : fresh'[q] = fresh[q]
    BY <1>1, <1>5 DEF Listen, toldVars, loopVars
  <2>2. UNCHANGED <<made>> /\ NotHeld(p, made[p]) /\ ~NotHeld(p, made[p])'
    BY <1>5, NextStage
  <2>3. \A q \in Proxies : \A n \in Tags : q # p \/ n # made[p] => (NotHeld(q, n)' <=> NotHeld(q, n))
    BY <1>5, NextStage DEF Same
  <2> QED  BY <2>1, <2>2, <2>3 DEF InitialInv, Taken
<1>6. ASSUME NEW p \in Proxies, AddListener(p)
      PROVE  InitialInv'
  <2>1. UNCHANGED <<fresh, initials, current, subscribers>>
    BY <1>6 DEF AddListener, toldVars, loopVars
  <2> QED  BY <1>6, <2>1, NewStage, InitialInvKept
<1>7. ASSUME NEW p \in Proxies, Close(p) \/ \E n \in Tags : RemoveListener(p, n)
      PROVE  InitialInv'
  <2>1. UNCHANGED <<fresh, current, subscribers>>
    BY <1>7 DEF Close, RemoveListener, loopVars
  <2>2. \A q \in Proxies : \A n \in Tags : NotHeld(q, n)' <=> NotHeld(q, n)
    BY <1>7, LastStage
  <2>3. \A q \in Proxies : \A n \in Tags : initials'[q][n] = initials[q][n] \/ initials'[q][n] = 0
    <3>1. PICK tags \in SUBSET Tags : initials' = Without(initials, p, tags)
      BY <1>7, LastStage DEF Forgets
    <3> QED  BY <1>1, <3>1 DEF Without
  <2> QED  BY <2>1, <2>2, <2>3 DEF InitialInv, Taken
<1>8. ASSUME NEW p \in Proxies, TakeSubscribers(p)
      PROVE  InitialInv'
  <2>1. /\ fresh'[p] = {} /\ UNCHANGED initials /\ current = {} /\ current' = {p}
        /\ subscribers' \subseteq fresh[p]
        /\ \A q \in Proxies \ {p} : fresh'[q] = fresh[q]
    BY <1>1, <1>8 DEF TakeSubscribers, NoLongerFresh, toldVars
  <2>2. Others
    BY <1>8 DEF Others, MainLoop, HandleValue
  <2>3. \A q \in Proxies : \A n \in Tags : NotHeld(q, n)' <=> NotHeld(q, n)
    BY <2>2, SameStages DEF Same
  <2> QED  BY <2>1, <2>3 DEF InitialInv, Taken
<1>9. ASSUME NEW p \in Proxies, Notify(p)
      PROVE  InitialInv'
  <2>1. UNCHANGED fresh /\ current = {p} /\ current' = {}
    BY <1>9 DEF Notify, eventVars
  <2>2. Others
    BY <1>9 DEF Others, MainLoop, HandleValue
  <2>3. \A q \in Proxies : \A n \in Tags : NotHeld(q, n)' <=> NotHeld(q, n)
    BY <2>2, SameStages DEF Same
  <2>4. \A q \in Proxies : \A n \in Tags :
          initials'[q][n] = initials[q][n] \/ (q = p /\ n \in subscribers /\ initials'[q][n] = initials[q][n] + 1)
    BY <1>1, <1>9 DEF Notify, Receivers
  <2>5. ASSUME NEW q \in Proxies, NEW n \in Tags, initials'[q][n] # initials[q][n]
        PROVE  /\ initials'[q][n] = 1 /\ ~NotHeld(q, n) /\ n \notin fresh[q]
    BY <2>1, <2>4, <2>5 DEF InitialInv, Taken
  <2> QED  BY <2>1, <2>3, <2>5 DEF InitialInv, Taken
<1>10. \/ \E p \in Proxies : Create(p) \/ Destroy(p) \/ Subscribing(p) \/ RemoveEventHandler(p) \/ AddListener(p)
                             \/ Close(p) \/ \E n \in Tags : RemoveListener(p, n)
       \/ ChangeService \/ Update \/ UNCHANGED vars \/ Dispatch \/ MainLoop
  BY DEF Next, Operate
<1> QED
  BY <1>2, <1>3, <1>4, <1>5, <1>6, <1>7, <1>8, <1>9, <1>10 DEF Subscribing, MainLoop, HandleValue

\* Whoever subscribes and unsubscribes while values are told, no listener is
\* told an initial value twice.
THEOREM InitialValueOnce == Spec => []InitialOnce
<1>1. Init => InitialInv
  BY DEF Init, InitialInv, Taken
<1>2. InitialInv => InitialOnce
  BY DEF InitialInv, InitialOnce
<1> QED  BY <1>1, <1>2, BaseInvInit, BaseInvStep, InitialInvStep, PTL DEF Spec

-----------------------------------------------------------------------------
(* Statuses.  How often a subscription was told its status, and will be:    *)
(* it is pending, in the batch of the status handler, in the queue of the   *)
(* main loop, or told.                                                      *)

Due(p, n) ==
  Times(pendingHandlers, <<p, n>>) + Times(batch, <<p, n>>) + Times(queue, Entry("status", <<p, n>>)) + statuses[p][n]

StatusInv ==
  \A p \in Proxies : \A n \in Tags :
    /\ Inserted(p, n) => Due(p, n) >= 1 /\ Due(p, n) <= losses[p][n] + 1
    /\ n \in active[p] /\ ~Inserted(p, n) => Due(p, n) <= losses[p][n]
    /\ n \notin active[p] => statuses[p][n] = 0
    /\ n > made[p] => Due(p, n) = 0
    /\ <<p, n>> \in allHandlers => n <= made[p]

LEMMA DueTypes ==
  ASSUME BaseInv, NEW p \in Proxies, NEW n \in Tags
  PROVE  /\ Times(pendingHandlers, <<p, n>>) \in Nat /\ Times(batch, <<p, n>>) \in Nat
         /\ Times(queue, Entry("status", <<p, n>>)) \in Nat /\ statuses[p][n] \in Nat /\ losses[p][n] \in Nat
         /\ Due(p, n) \in Nat /\ made[p] \in Nat
<1>1. /\ pendingHandlers \in Seq(Subscribers) /\ batch \in Seq(Subscribers) /\ queue \in Seq(Calls)
      /\ statuses[p][n] \in Nat /\ losses[p][n] \in Nat /\ made[p] \in Nat
  BY DEF BaseInv, TypeInv, HandlerTypes, LoopTypes, ReportTypes, ToldTypes, EventTypes
<1>2. /\ Times(pendingHandlers, <<p, n>>) \in Nat /\ Times(batch, <<p, n>>) \in Nat
      /\ Times(queue, Entry("status", <<p, n>>)) \in Nat
  BY <1>1, TimesType
<1> QED  BY <1>1, <1>2 DEF Due

\* Nothing that is due moves but from one place to the next.
LEMMA StatusInvKept ==
  ASSUME StatusInv, UNCHANGED <<made, allHandlers, losses>>,
         \A p \in Proxies : \A n \in Tags :
           /\ Inserted(p, n)' <=> Inserted(p, n)
           /\ n \in active'[p] <=> n \in active[p]
           /\ Due(p, n)' = Due(p, n)
           /\ n \notin active[p] => statuses'[p][n] = statuses[p][n]
  PROVE  StatusInv'
<1>1. ASSUME NEW p \in Proxies, NEW n \in Tags
      PROVE  /\ Inserted(p, n)' => Due(p, n)' >= 1 /\ Due(p, n)' <= losses'[p][n] + 1
             /\ n \in active'[p] /\ ~Inserted(p, n)' => Due(p, n)' <= losses'[p][n]
             /\ n \notin active'[p] => statuses'[p][n] = 0
             /\ n > made'[p] => Due(p, n)' = 0
             /\ <<p, n>> \in allHandlers' => n <= made'[p]
  BY DEF StatusInv
<1> QED  BY <1>1 DEF StatusInv

\* The queue takes, and gives, entries of other kinds.
LEMMA OtherEntries ==
  ASSUME BaseInv, queue' = queue \/ \/ /\ calls # <<>> /\ Head(calls).kind # "status"
                                       /\ queue' = Append(queue, Head(calls))
                                    \/ /\ queue # <<>> /\ Head(queue).kind # "status"
                                       /\ queue' = Tail(queue)
  PROVE  \A p \in Proxies : \A n \in Tags :
           Times(queue', Entry("status", <<p, n>>)) = Times(queue, Entry("status", <<p, n>>))
<1> SUFFICES ASSUME NEW p \in Proxies, NEW n \in Tags
             PROVE  Times(queue', Entry("status", <<p, n>>)) = Times(queue, Entry("status", <<p, n>>))
  OBVIOUS
<1> DEFINE e == Entry("status", <<p, n>>)
<1>1. e.kind = "status"
  BY DEF Entry
<1>2. queue \in Seq(Calls) /\ calls \in Seq(Calls)
  BY DEF BaseInv, TypeInv, ReportTypes
<1> HIDE DEF e
<1>3. Times(queue, e) \in Nat
  BY <1>2, TimesType
<1>4. CASE calls # <<>> /\ Head(calls).kind # "status" /\ queue' = Append(queue, Head(calls))
  <2>1. Head(calls) \in Calls /\ Head(calls) # e
    BY <1>1, <1>2, <1>4, HeadTailProperties
  <2>2. Times(Append(queue, Head(calls)), e) = Times(queue, e) + IF Head(calls) = e THEN 1 ELSE 0
    BY <1>2, <2>1, TimesAppend
  <2> QED  BY <1>3, <1>4, <2>1, <2>2 DEF e
<1>5. CASE queue # <<>> /\ Head(queue).kind # "status" /\ queue' = Tail(queue)
  <2>1. Tail(queue) \in Seq(Calls) /\ Head(queue) # e
    BY <1>1, <1>2, <1>5, HeadTailProperties
  <2>2. Times(queue, e) = Times(Tail(queue), e) + IF Head(queue) = e THEN 1 ELSE 0
    BY <1>2, <1>5, TimesTail
  <2>3. Times(Tail(queue), e) \in Nat
    BY <2>1, TimesType
  <2> QED  BY <1>5, <2>1, <2>2, <2>3 DEF e
<1> QED  BY <1>4, <1>5

\* Creation and destruction, subscribing, the service, and the main loop but
\* for the error listener.
LEMMA StatusInvElsewhere ==
  ASSUME BaseInv, StatusInv,
         \/ ChangeService \/ Update \/ UNCHANGED vars \/ Forgotten \/ Reported \/ PushValue
         \/ InformProxies \/ EndErrorListener \/ HandleValue
         \/ \E p \in Proxies : Create(p) \/ Destroy(p) \/ AddEventHandler(p) \/ Listen(p) \/ Subscribe(p)
  PROVE  StatusInv'
<1>1. UNCHANGED <<allHandlers, losses, pendingHandlers, batch, statuses>>
  BY DEF ChangeService, Update, Forgotten, Reported, PushValue, InformProxies, EndErrorListener, HandleValue,
     TakeValue, EndValue, TakeSubscribers, Notify, Create, Destroy, AddEventHandler, Listen, Subscribe, vars,
     subscriptionVars, toldVars, loopVars
<1>2. queue' = queue \/ \/ /\ calls # <<>> /\ Head(calls).kind # "status"
                           /\ queue' = Append(queue, Head(calls))
                        \/ /\ queue # <<>> /\ Head(queue).kind # "status"
                           /\ queue' = Tail(queue)
  <2>1. CASE ChangeService \/ Update \/ UNCHANGED vars \/ Forgotten \/ Reported \/ EndErrorListener \/ EndValue
    BY <2>1 DEF ChangeService, ServiceChange, Update, Forgotten, Forget, Reported, BeginReport, EndErrorListener,
       EndValue, vars, reportVars
  <2>2. CASE PushValue \/ InformProxies \/ TakeValue
    BY <2>2 DEF PushValue, InformProxies, HandleReport, TakeValue, Kinds
  <2>3. CASE \E p \in Proxies : TakeSubscribers(p) \/ Notify(p) \/ AddEventHandler(p) \/ Listen(p) \/ Subscribe(p)
    BY <2>3 DEF TakeSubscribers, Notify, AddEventHandler, Listen, Subscribe, reportVars
  <2>4. ASSUME NEW p \in Proxies, Create(p) PROVE queue' = queue
    BY <2>4 DEF Create, CountEvent, RequestEvent, AddHandler, RegisterHandler, CountService, RequestService, Query,
       Assign, reportVars
  <2>5. ASSUME NEW p \in Proxies, Destroy(p) PROVE queue' = queue
    BY <2>5 DEF Destroy, UncountEvent, ReleaseEvent, ReleaseService, RemoveHandler, UnregisterHandler, reportVars
  <2> QED  BY <2>1, <2>2, <2>3, <2>4, <2>5 DEF HandleValue
<1>3. \A p \in Proxies : \A n \in Tags : Due(p, n)' = Due(p, n)
  BY <1>1, <1>2, OtherEntries DEF Due
<1>4. CASE ChangeService \/ Update \/ UNCHANGED vars \/ Forgotten \/ Reported \/ PushValue
           \/ InformProxies \/ EndErrorListener \/ HandleValue
  <2>1. Others
    BY <1>4 DEF Others, Dispatch, MainLoop
  <2> QED  BY <1>1, <1>3, <2>1, SameStages, StatusInvKept DEF Same
<1>5. ASSUME NEW p \in Proxies, Create(p) \/ Destroy(p) \/ AddEventHandler(p)
      PROVE  StatusInv'
  BY <1>1, <1>3, <1>5, SameStages, StatusInvKept DEF Same
<1>6. ASSUME NEW p \in Proxies, Listen(p) \/ Subscribe(p)
      PROVE  StatusInv'
  <2>1. UNCHANGED <<made, active>>
    BY <1>6, NextStage
  <2>2. \A q \in Proxies : \A n \in Tags : Inserted(q, n)' <=> Inserted(q, n)
    BY <1>6, NextStage DEF Same
  <2> QED  BY <1>1, <1>3, <2>1, <2>2, StatusInvKept
<1> QED  BY <1>4, <1>5, <1>6

\* onAvailabilityChange: after a loss every handler of the wrapper is due once more.
LEMMA StatusInvReport ==
  ASSUME BaseInv, StatusInv, QueueReport
  PROVE  StatusInv'
<1>1. PICK loss \in BOOLEAN :
        /\ pendingHandlers' = Requeued(loss)
        /\ losses' = [p \in Proxies |-> [n \in Tags |->
                       losses[p][n] + IF loss /\ n \in active[p] /\ <<p, n>> \in allHandlers THEN 1 ELSE 0]]
  BY DEF QueueReport
<1>2. /\ UNCHANGED <<batch, statuses, allHandlers>> /\ calls # <<>> /\ Head(calls).kind # "status"
      /\ queue' = Append(queue, Head(calls))
  BY DEF QueueReport, EndReport, loopVars, BaseInv, TypeInv, DispatcherInv, Reports
<1>3. Others
  BY DEF Others, Dispatch
<1>4. UNCHANGED <<made, active>> /\ \A p \in Proxies : \A n \in Tags : Same(p, n)
  BY <1>3, SameStages
<1>5. ASSUME NEW p \in Proxies, NEW n \in Tags
      PROVE  Times(pendingHandlers', <<p, n>>)
               = Times(pendingHandlers, <<p, n>>) + IF loss /\ <<p, n>> \in allHandlers THEN 1 ELSE 0
  <2>1. pendingHandlers \in Seq(Subscribers) /\ allHandlers \subseteq Subscribers /\ IsFiniteSet(allHandlers)
    BY SubscribersFinite DEF BaseInv, TypeInv, HandlerTypes
  <2>2. Times(pendingHandlers, <<p, n>>) \in Nat
    BY <2>1, TimesType
  <2>3. CASE loss /\ grouped
    <3>1. /\ SetToSeq(allHandlers) \in Seq(allHandlers)
          /\ Times(SetToSeq(allHandlers), <<p, n>>) = IF <<p, n>> \in allHandlers THEN 1 ELSE 0
      BY <2>1, TimesSetToSeq
    <3>2. SetToSeq(allHandlers) \in Seq(Subscribers)
      BY <2>1, <3>1
    <3>3. Times(pendingHandlers \o SetToSeq(allHandlers), <<p, n>>)
            = Times(pendingHandlers, <<p, n>>) + Times(SetToSeq(allHandlers), <<p, n>>)
      BY <2>1, <3>2, TimesConcat
    <3> QED  BY <1>1, <2>3, <3>1, <3>3 DEF Requeued
  <2>4. CASE ~(loss /\ grouped)
    <3>1. pendingHandlers' = pendingHandlers
      BY <1>1, <2>4 DEF Requeued
    <3>2. ~(loss /\ <<p, n>> \in allHandlers)
      BY <2>4 DEF BaseInv, SubscriptionInv, GroupWhileHandlers
    <3> QED  BY <2>2, <3>1, <3>2
  <2> QED  BY <2>3, <2>4
<1>6. ASSUME NEW p \in Proxies, NEW n \in Tags
      PROVE  /\ Due(p, n)' = Due(p, n) + IF loss /\ <<p, n>> \in allHandlers THEN 1 ELSE 0
             /\ losses'[p][n] = losses[p][n] + IF loss /\ n \in active[p] /\ <<p, n>> \in allHandlers THEN 1 ELSE 0
  <2>1. Times(queue', Entry("status", <<p, n>>)) = Times(queue, Entry("status", <<p, n>>))
    BY <1>2, OtherEntries
  <2>2. /\ Times(pendingHandlers, <<p, n>>) \in Nat /\ Times(batch, <<p, n>>) \in Nat
        /\ Times(queue, Entry("status", <<p, n>>)) \in Nat /\ statuses[p][n] \in Nat
    BY DueTypes
  <2>3. Due(p, n)' = Due(p, n) + IF loss /\ <<p, n>> \in allHandlers THEN 1 ELSE 0
    <3>1. CASE loss /\ <<p, n>> \in allHandlers
      <4>1. Times(pendingHandlers', <<p, n>>) = Times(pendingHandlers, <<p, n>>) + 1
        BY <1>5, <3>1
      <4> QED  BY <1>2, <2>1, <2>2, <3>1, <4>1 DEF Due
    <3>2. CASE ~(loss /\ <<p, n>> \in allHandlers)
      <4>1. Times(pendingHandlers', <<p, n>>) = Times(pendingHandlers, <<p, n>>)
        BY <1>5, <2>2, <3>2
      <4> QED  BY <1>2, <2>1, <2>2, <3>2, <4>1 DEF Due
    <3> QED  BY <3>1, <3>2
  <2> QED  BY <1>1, <2>3
<1>7. ASSUME NEW p \in Proxies, NEW n \in Tags
      PROVE  /\ Inserted(p, n)' => Due(p, n)' >= 1 /\ Due(p, n)' <= losses'[p][n] + 1
             /\ n \in active'[p] /\ ~Inserted(p, n)' => Due(p, n)' <= losses'[p][n]
             /\ n \notin active'[p] => statuses'[p][n] = 0
             /\ n > made'[p] => Due(p, n)' = 0
             /\ <<p, n>> \in allHandlers' => n <= made'[p]
  <2>1. Due(p, n) \in Nat /\ losses[p][n] \in Nat /\ made[p] \in Nat
    BY DueTypes
  <2>2. /\ Inserted(p, n)' <=> Inserted(p, n)
        /\ Inserted(p, n) => n \in active[p]
        /\ made'[p] = made[p] /\ active'[p] = active[p]
    BY <1>4 DEF Same, Inserted
  <2>3. CASE loss /\ <<p, n>> \in allHandlers
    <3>1. Due(p, n)' = Due(p, n) + 1 /\ (n \in active[p] => losses'[p][n] = losses[p][n] + 1)
      BY <1>6, <2>3
    <3>2. n <= made[p] /\ ~(n > made[p])
      BY <2>1, <2>3 DEF StatusInv, Tags
    <3>3. n \notin active[p] => statuses'[p][n] = 0
      BY <1>2 DEF StatusInv
    <3>4. Inserted(p, n) => Due(p, n) >= 1 /\ Due(p, n) <= losses[p][n] + 1
      BY DEF StatusInv
    <3>5. n \in active[p] /\ ~Inserted(p, n) => Due(p, n) <= losses[p][n]
      BY DEF StatusInv
    <3>6. Inserted(p, n)' => Due(p, n)' >= 1 /\ Due(p, n)' <= losses'[p][n] + 1
      BY <2>1, <2>2, <3>1, <3>4
    <3>7. n \in active'[p] /\ ~Inserted(p, n)' => Due(p, n)' <= losses'[p][n]
      BY <2>1, <2>2, <3>1, <3>5
    <3> QED  BY <2>2, <3>2, <3>3, <3>6, <3>7
  <2>4. CASE ~(loss /\ <<p, n>> \in allHandlers)
    <3>1. Due(p, n)' = Due(p, n) /\ losses'[p][n] = losses[p][n]
      BY <1>6, <2>1, <2>4
    <3> QED  BY <1>2, <2>2, <3>1 DEF StatusInv
  <2> QED  BY <2>3, <2>4
<1> QED  BY <1>7 DEF StatusInv

\* The status handler takes all that is pending, and pushes it.
LEMMA StatusInvHandler ==
  ASSUME BaseInv, StatusInv, StatusHandler \/ PushStatus
  PROVE  StatusInv'
<1>1. UNCHANGED <<allHandlers, losses, statuses>>
  BY DEF StatusHandler, PushStatus, subscriptionVars, toldVars
<1>2. Others
  BY DEF Others, Dispatch
<1>3. UNCHANGED <<made, active>> /\ \A p \in Proxies : \A n \in Tags : Same(p, n)
  BY <1>2, SameStages
<1>4. ASSUME NEW p \in Proxies, NEW n \in Tags
      PROVE  Due(p, n)' = Due(p, n)
  <2> DEFINE h == <<p, n>>
  <2>1. /\ Times(pendingHandlers, h) \in Nat /\ Times(batch, h) \in Nat
        /\ Times(queue, Entry("status", h)) \in Nat /\ statuses[p][n] \in Nat
    BY DueTypes
  <2>2. CASE StatusHandler
    <3>1. UNCHANGED queue
      BY <2>2 DEF StatusHandler
    <3>2. CASE UNCHANGED <<batch, pendingHandlers>>
      BY <1>1, <3>1, <3>2 DEF Due
    <3>3. CASE batch' = pendingHandlers /\ pendingHandlers' = <<>>
      <4>1. batch = <<>>
        BY <2>2 DEF StatusHandler, BaseInv, TypeInv, DispatcherInv
      <4>2. Times(batch, h) = 0 /\ Times(pendingHandlers', h) = 0
        BY <3>3, <4>1, TimesEmpty
      <4> QED  BY <1>1, <2>1, <3>1, <3>3, <4>2 DEF Due
    <3> QED  BY <2>2, <3>2, <3>3 DEF StatusHandler, PopPending
  <2>3. CASE PushStatus
    <3>1. /\ batch # <<>> /\ batch \in Seq(Subscribers) /\ queue \in Seq(Calls)
          /\ queue' = Append(queue, Entry("status", Head(batch))) /\ batch' = Tail(batch) /\ UNCHANGED pendingHandlers
      BY <2>3 DEF PushStatus, subscriptionVars, BaseInv, TypeInv, DispatcherInv, LoopTypes, ReportTypes
    <3>2. Head(batch) \in Subscribers /\ Tail(batch) \in Seq(Subscribers)
      BY <3>1, HeadTailProperties
    <3>3. Entry("status", Head(batch)) \in Calls /\ (Entry("status", Head(batch)) = Entry("status", h) <=> Head(batch) = h)
      BY <3>2, EntryType DEF Entry
    <3>4. Times(queue', Entry("status", h)) = Times(queue, Entry("status", h)) + IF Head(batch) = h THEN 1 ELSE 0
      BY <3>1, <3>3, TimesAppend
    <3>5. Times(batch, h) = Times(batch', h) + IF Head(batch) = h THEN 1 ELSE 0
      BY <3>1, TimesTail
    <3>6. Times(batch', h) \in Nat
      BY <3>1, <3>2, TimesType
    <3>7. CASE Head(batch) = h
      BY <1>1, <2>1, <3>1, <3>4, <3>5, <3>6, <3>7 DEF Due
    <3>8. CASE Head(batch) # h
      BY <1>1, <2>1, <3>1, <3>4, <3>5, <3>6, <3>8 DEF Due
    <3> QED  BY <3>7, <3>8
  <2> QED  BY <2>2, <2>3
<1> QED  BY <1>1, <1>3, <1>4, StatusInvKept DEF Same

\* The error listener is told the status, if its subscription is still known.
LEMMA StatusInvTold ==
  ASSUME BaseInv, StatusInv, CallErrorListener
  PROVE  StatusInv'
<1>1. UNCHANGED <<allHandlers, losses, pendingHandlers, batch>> /\ queue' = Tail(queue)
  BY DEF CallErrorListener, subscriptionVars
<1>2. Others
  BY DEF Others, MainLoop
<1>3. UNCHANGED <<made, active>> /\ \A p \in Proxies : \A n \in Tags : Same(p, n)
  BY <1>2, SameStages
<1>4. /\ queue \in Seq(Calls) /\ queue # <<>> /\ Head(queue) \in Calls /\ Tail(queue) \in Seq(Calls)
      /\ Head(queue).kind = "status" /\ statuses \in [Proxies -> [Tags -> Nat]]
      /\ allHandlers \subseteq Subscribers
  BY HeadTailProperties DEF CallErrorListener, BaseInv, TypeInv, ReportTypes, ToldTypes, HandlerTypes
<1>5. ASSUME NEW p \in Proxies, NEW n \in Tags
      PROVE  /\ Due(p, n)' <= Due(p, n) /\ Due(p, n)' \in Nat
             /\ <<p, n>> \in allHandlers /\ n \in active[p] => Due(p, n)' = Due(p, n)
             /\ n \notin active[p] => statuses'[p][n] = statuses[p][n]
  <2> DEFINE h == <<p, n>>
             heads == Head(queue).who
  <2>1. /\ Times(pendingHandlers, h) \in Nat /\ Times(batch, h) \in Nat /\ statuses[p][n] \in Nat
    BY DueTypes
  <2>2. Head(queue) = Entry("status", h) <=> heads = h
    BY <1>4, StatusEntry
  <2>3. Times(queue, Entry("status", h)) = Times(queue', Entry("status", h)) + IF heads = h THEN 1 ELSE 0
    BY <1>1, <1>4, <2>2, TimesTail
  <2>4. Times(queue', Entry("status", h)) \in Nat
    BY <1>1, <1>4, TimesType
  <2>5. \/ /\ heads \in allHandlers /\ heads[2] \in active[heads[1]]
           /\ statuses' = [statuses EXCEPT ![heads[1]][heads[2]] = @ + 1]
        \/ ~(heads \in allHandlers /\ heads[2] \in active[heads[1]]) /\ statuses' = statuses
    BY DEF CallErrorListener
  <2>6. statuses'[p][n] = statuses[p][n] + IF heads = h /\ h \in allHandlers /\ n \in active[p] THEN 1 ELSE 0
    <3>1. CASE ~(heads \in allHandlers /\ heads[2] \in active[heads[1]]) /\ statuses' = statuses
      BY <2>1, <3>1
    <3>2. CASE /\ heads \in allHandlers /\ heads[2] \in active[heads[1]]
               /\ statuses' = [statuses EXCEPT ![heads[1]][heads[2]] = @ + 1]
      <4>1. PICK q \in Proxies, m \in Tags : heads = <<q, m>>
        BY <1>4, <3>2 DEF Subscribers
      <4> HIDE DEF heads
      <4> heads[1] = q /\ heads[2] = m
        BY <4>1
      <4>2. m \in active[q] /\ statuses' = [statuses EXCEPT ![q][m] = @ + 1]
        BY <3>2
      <4>3. CASE q = p /\ m = n
        BY <1>4, <2>1, <3>2, <4>1, <4>2, <4>3
      <4>4. CASE ~(q = p /\ m = n)
        <5>1. heads # h /\ statuses'[p][n] = statuses[p][n]
          BY <1>4, <4>1, <4>2, <4>4
        <5> QED  BY <2>1, <5>1
      <4> QED  BY <4>3, <4>4
    <3> QED  BY <2>5, <3>1, <3>2
  <2> HIDE DEF heads
  <2>7. CASE heads = h
    <3>1. Times(queue, Entry("status", h)) = Times(queue', Entry("status", h)) + 1
      BY <2>3, <2>7
    <3>2. CASE h \in allHandlers /\ n \in active[p]
      <4>1. statuses'[p][n] = statuses[p][n] + 1
        BY <2>6, <2>7, <3>2
      <4>2. Due(p, n)' = Due(p, n)
        BY <1>1, <2>1, <2>4, <3>1, <4>1 DEF Due
      <4>3. Due(p, n) \in Nat
        BY DueTypes
      <4> QED  BY <3>2, <4>2, <4>3
    <3>3. CASE ~(h \in allHandlers /\ n \in active[p])
      BY <1>1, <2>1, <2>4, <2>6, <2>7, <3>1, <3>3 DEF Due
    <3> QED  BY <3>2, <3>3
  <2>8. CASE heads # h
    BY <1>1, <2>1, <2>3, <2>4, <2>6, <2>8 DEF Due
  <2> QED  BY <2>7, <2>8
<1>6. ASSUME NEW p \in Proxies, NEW n \in Tags
      PROVE  /\ Inserted(p, n)' => Due(p, n)' >= 1 /\ Due(p, n)' <= losses'[p][n] + 1
             /\ n \in active'[p] /\ ~Inserted(p, n)' => Due(p, n)' <= losses'[p][n]
             /\ n \notin active'[p] => statuses'[p][n] = 0
             /\ n > made'[p] => Due(p, n)' = 0
             /\ <<p, n>> \in allHandlers' => n <= made'[p]
  <2>1. Due(p, n) \in Nat /\ Due(p, n)' \in Nat /\ losses[p][n] \in Nat /\ Due(p, n)' <= Due(p, n)
    BY <1>5, DueTypes
  <2>2. /\ Inserted(p, n)' <=> Inserted(p, n)
        /\ made'[p] = made[p] /\ active'[p] = active[p] /\ losses'[p][n] = losses[p][n]
    BY <1>1, <1>3 DEF Same
  <2>3. Inserted(p, n) => Due(p, n)' = Due(p, n)
    <3>1. Inserted(p, n) => <<p, n>> \in allHandlers
      BY DEF BaseInv, SubscriptionInv, ListenersKnown, Tags
    <3>2. Inserted(p, n) => n \in active[p]
      BY DEF Inserted
    <3> QED  BY <1>5, <3>1, <3>2
  <2> QED  BY <1>1, <1>5, <2>1, <2>2, <2>3 DEF StatusInv
<1> QED  BY <1>6 DEF StatusInv

\* addHandler: the new subscription is due for its status, and only once.
LEMMA StatusInvInsert ==
  ASSUME BaseInv, StatusInv, NEW p \in Proxies, InsertHandler(p)
  PROVE  StatusInv'
<1>1. /\ UNCHANGED <<batch, queue, statuses, losses>>
      /\ allHandlers' = allHandlers \cup {<<p, made[p]>>} /\ pendingHandlers' = Append(pendingHandlers, <<p, made[p]>>)
  BY DEF InsertHandler, Pending, reportVars, toldVars, loopVars
<1>2. UNCHANGED <<made, active>> /\ ~Inserted(p, made[p])
      /\ \A q \in Proxies : \A n \in Tags : q # p \/ n # made[p] => Same(q, n)
  BY NextStage
<1>3. made[p] \in active[p] /\ made[p] \in Tags /\ <<p, made[p]>> \in Subscribers
  <2>1. made[p] \in active[p]
    BY DEF InsertHandler, Step, BaseInv, SubscriptionInv, HandlerWhileListening
  <2>2. made[p] \in Tags
    BY <2>1 DEF BaseInv, TypeInv, EventTypes
  <2> QED  BY <2>1, <2>2 DEF Subscribers
<1>4. ASSUME NEW q \in Proxies, NEW n \in Tags
      PROVE  Due(q, n)' = Due(q, n) + IF q = p /\ n = made[p] THEN 1 ELSE 0
  <2>1. pendingHandlers \in Seq(Subscribers)
    BY DEF BaseInv, TypeInv, HandlerTypes
  <2>2. Times(pendingHandlers', <<q, n>>) = Times(pendingHandlers, <<q, n>>) + IF <<p, made[p]>> = <<q, n>> THEN 1 ELSE 0
    BY <1>1, <1>3, <2>1, TimesAppend
  <2>3. /\ Times(pendingHandlers, <<q, n>>) \in Nat /\ Times(batch, <<q, n>>) \in Nat
        /\ Times(queue, Entry("status", <<q, n>>)) \in Nat /\ statuses[q][n] \in Nat
    BY DueTypes
  <2>4. CASE q = p /\ n = made[p]
    BY <1>1, <2>2, <2>3, <2>4 DEF Due
  <2>5. CASE ~(q = p /\ n = made[p])
    <3>1. <<p, made[p]>> # <<q, n>>
      BY <2>5
    <3> QED  BY <1>1, <2>2, <2>3, <2>5, <3>1 DEF Due
  <2> QED  BY <2>4, <2>5
<1>5. ASSUME NEW q \in Proxies, NEW n \in Tags
      PROVE  /\ Inserted(q, n)' => Due(q, n)' >= 1 /\ Due(q, n)' <= losses'[q][n] + 1
             /\ n \in active'[q] /\ ~Inserted(q, n)' => Due(q, n)' <= losses'[q][n]
             /\ n \notin active'[q] => statuses'[q][n] = 0
             /\ n > made'[q] => Due(q, n)' = 0
             /\ <<q, n>> \in allHandlers' => n <= made'[q]
  <2>1. Due(q, n) \in Nat /\ losses[q][n] \in Nat /\ made[q] \in Nat
    BY DueTypes
  <2>2. CASE q = p /\ n = made[p]
    <3>1. Due(q, n)' = Due(q, n) + 1 /\ Inserted(q, n)'
      BY <1>2, <1>4, <2>2, NextStage
    <3>2. Due(q, n) <= losses[q][n]
      BY <1>2, <1>3, <2>2 DEF StatusInv
    <3> QED  BY <1>1, <1>2, <1>3, <2>1, <2>2, <3>1, <3>2
  <2>3. CASE ~(q = p /\ n = made[p])
    <3>1. Due(q, n)' = Due(q, n) /\ Same(q, n)
      BY <1>2, <1>4, <2>1, <2>3
    <3>2. <<q, n>> \in allHandlers' => <<q, n>> \in allHandlers
      BY <1>1, <2>3
    <3> QED  BY <1>1, <1>2, <3>1, <3>2 DEF StatusInv, Same
  <2> QED  BY <2>2, <2>3
<1> QED  BY <1>5 DEF StatusInv

\* A new listener was never due for anything.
LEMMA StatusInvNew ==
  ASSUME BaseInv, StatusInv, NEW p \in Proxies, AddListener(p)
  PROVE  StatusInv'
<1>1. UNCHANGED <<allHandlers, losses, pendingHandlers, batch, queue, statuses>>
  BY DEF AddListener, subscriptionVars, toldVars, reportVars, loopVars
<1>2. /\ made'[p] = made[p] + 1 /\ made[p] + 1 \in Tags /\ made[p] \in Nat
      /\ \A q \in Proxies \ {p} : made'[q] = made[q]
      /\ \A q \in Proxies : \A n \in Tags : q # p \/ n # made[p] + 1 => Same(q, n)
      /\ \A n \in Tags : n = made[p] + 1 => ~Inserted(p, n)'
  BY NewStage
<1>3. \A q \in Proxies : \A n \in Tags : Due(q, n)' = Due(q, n)
  BY <1>1 DEF Due
<1>4. ASSUME NEW q \in Proxies, NEW n \in Tags
      PROVE  /\ Inserted(q, n)' => Due(q, n)' >= 1 /\ Due(q, n)' <= losses'[q][n] + 1
             /\ n \in active'[q] /\ ~Inserted(q, n)' => Due(q, n)' <= losses'[q][n]
             /\ n \notin active'[q] => statuses'[q][n] = 0
             /\ n > made'[q] => Due(q, n)' = 0
             /\ <<q, n>> \in allHandlers' => n <= made'[q]
  <2>1. Due(q, n) \in Nat /\ losses[q][n] \in Nat /\ made[q] \in Nat /\ n \in Int
    <3>1. n \in Int
      BY DEF Tags
    <3> QED  BY <3>1, DueTypes
  <2>2. made'[q] >= made[q] /\ made'[q] \in Nat
    BY <1>2, <2>1
  <2>3. /\ n > made'[q] => n > made[q]
        /\ n <= made[q] => n <= made'[q]
    BY <2>1, <2>2
  <2>4. CASE q = p /\ n = made[p] + 1
    <3>1. n > made[p]
      BY <1>2, <2>4
    <3>2. Due(q, n) = 0
      BY <2>4, <3>1 DEF StatusInv
    <3>3. n \in active'[q]
      BY <2>4 DEF AddListener, BaseInv, TypeInv, EventTypes
    <3>4. Due(q, n)' = 0 /\ losses'[q][n] >= 0
      BY <1>1, <1>3, <2>1, <3>2
    <3> QED  BY <1>1, <1>2, <2>1, <2>3, <2>4, <3>3, <3>4 DEF StatusInv
  <2>5. CASE ~(q = p /\ n = made[p] + 1)
    <3>1. Same(q, n)
      BY <1>2, <2>5
    <3> QED  BY <1>1, <1>3, <2>3, <3>1 DEF StatusInv, Same
  <2> QED  BY <2>4, <2>5
<1> QED  BY <1>4 DEF StatusInv

\* What a listener that goes was told goes with it.
LEMMA StatusInvForget ==
  ASSUME BaseInv, StatusInv, NEW p \in Proxies, Close(p) \/ \E n \in Tags : RemoveListener(p, n)
  PROVE  StatusInv'
<1>1. UNCHANGED <<made, allHandlers, pendingHandlers, batch, queue>>
  BY DEF Close, RemoveListener, subscriptionVars, reportVars, loopVars
<1>2. PICK tags \in SUBSET Tags :
              /\ Forgets(p, tags)
              /\ \A q \in Proxies : \A n \in Tags : q # p \/ n \notin tags => Same(q, n)
              /\ \A n \in tags : ~Inserted(p, n)' /\ n \notin active'[p]
  BY LastStage
<1>3. ASSUME NEW q \in Proxies, NEW n \in Tags
      PROVE  /\ statuses'[q][n] = (IF q = p /\ n \in tags THEN 0 ELSE statuses[q][n])
             /\ losses'[q][n] = (IF q = p /\ n \in tags THEN 0 ELSE losses[q][n])
  BY <1>2 DEF Forgets, Without, BaseInv, TypeInv, ToldTypes
<1>4. ASSUME NEW q \in Proxies, NEW n \in Tags
      PROVE  /\ Inserted(q, n)' => Due(q, n)' >= 1 /\ Due(q, n)' <= losses'[q][n] + 1
             /\ n \in active'[q] /\ ~Inserted(q, n)' => Due(q, n)' <= losses'[q][n]
             /\ n \notin active'[q] => statuses'[q][n] = 0
             /\ n > made'[q] => Due(q, n)' = 0
             /\ <<q, n>> \in allHandlers' => n <= made'[q]
  <2>1. CASE q = p /\ n \in tags
    <3>1. ~Inserted(q, n)' /\ n \notin active'[q] /\ statuses'[q][n] = 0
      BY <1>2, <1>3, <2>1
    <3>2. n > made'[q] => Due(q, n)' = 0
      <4>1. SUFFICES ASSUME n > made[q] PROVE Due(q, n)' = 0
        BY <1>1
      <4>2. Due(q, n) = 0
        BY <4>1 DEF StatusInv
      <4> QED  BY <1>1, <3>1, <4>2, DueTypes DEF Due
    <3> QED  BY <1>1, <3>1, <3>2 DEF StatusInv
  <2>2. CASE ~(q = p /\ n \in tags)
    <3>1. Same(q, n) /\ statuses'[q][n] = statuses[q][n] /\ losses'[q][n] = losses[q][n]
      BY <1>2, <1>3, <2>2
    <3>2. Due(q, n)' = Due(q, n)
      BY <1>1, <3>1 DEF Due
    <3> QED  BY <1>1, <3>1, <3>2 DEF StatusInv, Same
  <2> QED  BY <2>1, <2>2
<1> QED  BY <1>4 DEF StatusInv

\* removeEventHandler empties the queue of pending handlers when nobody is
\* subscribed any more.
LEMMA StatusInvRemove ==
  ASSUME BaseInv, BaseInv', StatusInv, NEW p \in Proxies, RemoveEventHandler(p)
  PROVE  StatusInv'
<1>1. /\ UNCHANGED <<batch, queue, statuses, losses>> /\ allHandlers' \subseteq allHandlers
      /\ pendingHandlers' = pendingHandlers \/ (pendingHandlers' = <<>> /\ ~wrapped')
  BY DEF RemoveEventHandler, LastSubscriber, OneSubscriberLess, reportVars, toldVars, loopVars
<1>2. UNCHANGED <<made, active>> /\ \A q \in Proxies : \A n \in Tags : Same(q, n)
  BY SameStages
<1>3. ASSUME NEW q \in Proxies, NEW n \in Tags
      PROVE  /\ Due(q, n)' <= Due(q, n) /\ Due(q, n)' \in Nat
             /\ Inserted(q, n) => Due(q, n)' = Due(q, n)
  <2>1. /\ Times(pendingHandlers, <<q, n>>) \in Nat /\ Times(batch, <<q, n>>) \in Nat
        /\ Times(queue, Entry("status", <<q, n>>)) \in Nat /\ statuses[q][n] \in Nat
    BY DueTypes
  <2>2. CASE pendingHandlers' = pendingHandlers
    <3>1. Due(q, n)' = Due(q, n) /\ Due(q, n) \in Nat
      BY <1>1, <2>2, DueTypes DEF Due
    <3> QED  BY <3>1
  <2>3. CASE pendingHandlers' = <<>> /\ ~wrapped'
    <3>1. Times(pendingHandlers', <<q, n>>) = 0
      BY <2>3, TimesEmpty
    <3>2. Due(q, n)' <= Due(q, n) /\ Due(q, n)' \in Nat
      BY <1>1, <2>1, <3>1 DEF Due
    <3>3. ~Inserted(q, n)'
      <4>1. ListenersKnown' /\ n \in Nat
        BY DEF BaseInv, SubscriptionInv, Tags
      <4> QED  BY <2>3, <4>1 DEF ListenersKnown
    <3> QED  BY <1>2, <3>2, <3>3 DEF Same
  <2> QED  BY <1>1, <2>2, <2>3
<1>4. ASSUME NEW q \in Proxies, NEW n \in Tags
      PROVE  /\ Inserted(q, n)' => Due(q, n)' >= 1 /\ Due(q, n)' <= losses'[q][n] + 1
             /\ n \in active'[q] /\ ~Inserted(q, n)' => Due(q, n)' <= losses'[q][n]
             /\ n \notin active'[q] => statuses'[q][n] = 0
             /\ n > made'[q] => Due(q, n)' = 0
             /\ <<q, n>> \in allHandlers' => n <= made'[q]
  <2>1. Due(q, n) \in Nat /\ Due(q, n)' \in Nat /\ losses[q][n] \in Nat /\ Due(q, n)' <= Due(q, n)
    BY <1>3, DueTypes
  <2>2. /\ Inserted(q, n)' <=> Inserted(q, n)
        /\ made'[q] = made[q] /\ active'[q] = active[q] /\ losses'[q][n] = losses[q][n]
    BY <1>1, <1>2 DEF Same
  <2> QED  BY <1>1, <1>3, <2>1, <2>2 DEF StatusInv
<1> QED  BY <1>4 DEF StatusInv

LEMMA StatusInvStep ==
  ASSUME BaseInv, BaseInv', StatusInv, [Next]_vars
  PROVE  StatusInv'
<1>1. \/ \E p \in Proxies : \/ Create(p) \/ Destroy(p) \/ AddEventHandler(p) \/ Listen(p) \/ Subscribe(p)
                            \/ InsertHandler(p) \/ RemoveEventHandler(p) \/ AddListener(p)
                            \/ Close(p) \/ \E n \in Tags : RemoveListener(p, n)
      \/ ChangeService \/ Update \/ UNCHANGED vars \/ Forgotten \/ Reported \/ PushValue
      \/ InformProxies \/ EndErrorListener \/ HandleValue
      \/ QueueReport \/ StatusHandler \/ PushStatus \/ CallErrorListener
  BY DEF Next, Operate, Subscribing, Dispatch, MainLoop
<1> QED
  BY <1>1, StatusInvElsewhere, StatusInvReport, StatusInvHandler, StatusInvTold, StatusInvInsert, StatusInvNew,
     StatusInvForget, StatusInvRemove

LEMMA StatusInvInit == Init => StatusInv
<1> SUFFICES ASSUME Init, NEW p \in Proxies, NEW n \in Tags
             PROVE  Due(p, n) = 0 /\ n \notin active[p] /\ statuses[p][n] = 0 /\ allHandlers = {}
  BY DEF StatusInv, Inserted, Init
<1>1. pendingHandlers = <<>> /\ batch = <<>> /\ queue = <<>> /\ statuses[p][n] = 0 /\ active[p] = {} /\ allHandlers = {}
  BY DEF Init, RegistrationsInit
<1>2. Times(pendingHandlers, <<p, n>>) = 0 /\ Times(batch, <<p, n>>) = 0 /\ Times(queue, Entry("status", <<p, n>>)) = 0
  BY <1>1, TimesEmpty
<1> QED  BY <1>1, <1>2 DEF Due

\* Nobody's status is told more often than it subscribed and its service went
\* away, whoever subscribes while statuses are on their way.
THEOREM StatusOncePerLoss == Spec => []NoSpuriousStatus
<1>1. BaseInv /\ StatusInv => NoSpuriousStatus
  <2> SUFFICES ASSUME BaseInv, StatusInv, NEW p \in Proxies, NEW n \in Tags
               PROVE  statuses[p][n] <= 1 + losses[p][n]
    BY DEF NoSpuriousStatus
  <2>1. /\ Times(pendingHandlers, <<p, n>>) \in Nat /\ Times(batch, <<p, n>>) \in Nat
        /\ Times(queue, Entry("status", <<p, n>>)) \in Nat /\ statuses[p][n] \in Nat /\ losses[p][n] \in Nat
    BY DueTypes
  <2>2. Due(p, n) >= statuses[p][n] /\ Due(p, n) \in Nat
    BY <2>1 DEF Due
  <2>3. CASE n \in active[p]
    <3>1. Due(p, n) <= losses[p][n] + 1
      BY <2>1, <2>2, <2>3 DEF StatusInv
    <3> QED  BY <2>1, <2>2, <3>1
  <2>4. CASE n \notin active[p]
    BY <2>1, <2>4 DEF StatusInv
  <2> QED  BY <2>3, <2>4
<1> QED  BY <1>1, BaseInvInit, BaseInvStep, StatusInvInit, StatusInvStep, PTL DEF Spec

\* While the service is available, a status comes for those that are pending,
\* and for those that the loss which is still to be reported will make pending.
AnswerInv ==
  up => \A p \in Proxies : \A n \in Tags : Requested(p, n) =>
          /\ Times(pendingHandlers, <<p, n>>) > 0 => Has(calls, {"status"})
          /\ Followed(calls)

LEMMA AnswerInvKept ==
  ASSUME AnswerInv, up' => up, Has(calls, {"status"}) => Has(calls', {"status"}), Followed(calls) => Followed(calls'),
         \A p \in Proxies : \A n \in Tags : Requested(p, n)' =>
           Requested(p, n) /\ (Times(pendingHandlers', <<p, n>>) > 0 => Times(pendingHandlers, <<p, n>>) > 0)
  PROVE  AnswerInv'
BY DEF AnswerInv

\* The calls grow by others than losses, or lose one that is no status.
LEMMA CallsStep ==
  ASSUME BaseInv,
         \/ calls' = calls
         \/ \E c \in Calls : c.kind # "down" /\ calls' = Append(calls, c)
         \/ calls # <<>> /\ Head(calls).kind # "status" /\ calls' = Tail(calls)
  PROVE  /\ Has(calls, {"status"}) => Has(calls', {"status"})
         /\ Followed(calls) => Followed(calls')
<1>1. calls \in Seq(Calls)
  BY DEF BaseInv, TypeInv, ReportTypes
<1>2. ASSUME NEW c \in Calls, c.kind # "down", calls' = Append(calls, c)
      PROVE  /\ Has(calls, {"status"}) => Has(calls', {"status"})
             /\ Followed(calls) => Followed(calls')
  BY <1>1, <1>2, AfterAppend
<1>3. CASE calls # <<>> /\ Head(calls).kind # "status" /\ calls' = Tail(calls)
  BY <1>1, <1>3, AfterTail
<1> QED  BY <1>2, <1>3

LEMMA CreateCalls ==
  ASSUME BaseInv, NEW p \in Proxies, Create(p) \/ Destroy(p)
  PROVE  /\ UNCHANGED <<up, queue, called, dispatcher>>
         /\ calls' = calls \/ (RegisterHandler(p) /\ calls' = Append(calls, Report(up)))
<1>1. CASE Create(p)
  BY <1>1 DEF Create, CountEvent, RequestEvent, AddHandler, RegisterHandler, CountService, RequestService,
     Query, Assign, reportVars
<1>2. CASE Destroy(p)
  BY <1>2 DEF Destroy, UncountEvent, ReleaseEvent, ReleaseService, RemoveHandler, UnregisterHandler, reportVars
<1> QED  BY <1>1, <1>2

LEMMA AnswerInvProxies ==
  ASSUME BaseInv, AnswerInv, NEW p \in Proxies,
         Operate(p) \/ AddListener(p) \/ Close(p) \/ \E n \in Tags : RemoveListener(p, n)
  PROVE  AnswerInv'
<1>1. calls \in Seq(Calls) /\ up \in BOOLEAN /\ pendingHandlers \in Seq(Subscribers)
  BY DEF BaseInv, TypeInv, ReportTypes, HandlerTypes
<1>2. CASE Create(p) \/ Destroy(p)
  <2>1. UNCHANGED pendingHandlers
    BY <1>2 DEF Create, Destroy, subscriptionVars
  <2>2. UNCHANGED up /\ (calls' = calls \/ calls' = Append(calls, Report(up)))
    BY <1>2, CreateCalls
  <2>3. CASE ~up
    BY <2>2, <2>3 DEF AnswerInv
  <2>4. CASE up
    <3>1. Report(up) \in Calls /\ Report(up).kind # "down"
      BY <1>1, <2>4, ReportType DEF Reports
    <3> QED  BY <1>2, <2>1, <2>2, <3>1, CallsStep, SameStages, AnswerInvKept DEF Same
  <2> QED  BY <2>3, <2>4
<1>3. CASE AddEventHandler(p)
  <2>1. UNCHANGED <<pendingHandlers, calls, up>>
    BY <1>3 DEF AddEventHandler, reportVars
  <2> QED  BY <1>3, <2>1, CallsStep, SameStages, AnswerInvKept DEF Same
<1>4. CASE Listen(p)
  <2>1. UNCHANGED <<pendingHandlers, calls, up>>
    BY <1>4 DEF Listen, reportVars, subscriptionVars
  <2>2. \A q \in Proxies : \A n \in Tags : Requested(q, n)' => Requested(q, n)
    BY <1>4, NextStage DEF Same
  <2> QED  BY <2>1, <2>2, CallsStep, AnswerInvKept
<1>5. CASE InsertHandler(p)
  <2>1. UNCHANGED <<calls, up>> /\ pendingHandlers' = Append(pendingHandlers, <<p, made[p]>>)
    BY <1>5 DEF InsertHandler, Pending, reportVars
  <2>2. <<p, made[p]>> \in Subscribers
    <3>1. made[p] \in active[p]
      BY <1>5 DEF InsertHandler, Step, BaseInv, SubscriptionInv, HandlerWhileListening
    <3>2. made[p] \in Tags
      BY <3>1 DEF BaseInv, TypeInv, EventTypes
    <3> QED  BY <3>2 DEF Subscribers
  <2>3. ASSUME NEW q \in Proxies, NEW n \in Tags, Requested(q, n)'
        PROVE  Requested(q, n) /\ Times(pendingHandlers', <<q, n>>) = Times(pendingHandlers, <<q, n>>)
    <3>1. ~(q = p /\ n = made[p]) /\ Requested(q, n)
      <4>1. UNCHANGED made /\ ~Requested(p, made[p])'
        BY <1>5, NextStage
      <4>2. ~(q = p /\ n = made[p])
        BY <2>3, <4>1
      <4> QED  BY <1>5, <2>3, <4>2, NextStage DEF Same
    <3>2. <<p, made[p]>> # <<q, n>>
      BY <3>1
    <3>3. Times(pendingHandlers', <<q, n>>) = Times(pendingHandlers, <<q, n>>) + IF <<p, made[p]>> = <<q, n>> THEN 1 ELSE 0
      BY <1>1, <2>1, <2>2, TimesAppend
    <3>4. Times(pendingHandlers, <<q, n>>) \in Nat
      BY DueTypes
    <3> QED  BY <3>1, <3>2, <3>3, <3>4
  <2> QED  BY <2>1, <2>3, CallsStep, AnswerInvKept
<1>6. CASE Subscribe(p)
  <2>1. UNCHANGED up /\ calls' = IF up THEN calls \o Answers ELSE calls
    BY <1>6 DEF Subscribe
  <2>2. CASE ~up
    BY <2>1, <2>2 DEF AnswerInv
  <2>3. CASE up
    <3>1. Has(calls', {"status"}) /\ Followed(calls')
      BY <1>1, <2>1, <2>3, AnswersKinds, AfterConcat
    <3> QED  BY <3>1 DEF AnswerInv
  <2> QED  BY <2>2, <2>3
<1>7. CASE RemoveEventHandler(p)
  <2>1. UNCHANGED <<calls, up>> /\ pendingHandlers' \in {pendingHandlers, <<>>}
    BY <1>7 DEF RemoveEventHandler, LastSubscriber, OneSubscriberLess, reportVars
  <2>2. \A q \in Proxies : \A n \in Tags :
          Times(pendingHandlers', <<q, n>>) > 0 => Times(pendingHandlers, <<q, n>>) > 0
    BY <2>1, TimesEmpty
  <2> QED  BY <1>7, <2>1, <2>2, CallsStep, SameStages, AnswerInvKept DEF Same
<1>8. CASE AddListener(p)
  <2>1. UNCHANGED <<pendingHandlers, calls, up>>
    BY <1>8 DEF AddListener, reportVars, subscriptionVars
  <2>2. \A q \in Proxies : \A n \in Tags : Requested(q, n)' => Requested(q, n)
    BY <1>8, NewStage DEF Same
  <2> QED  BY <2>1, <2>2, CallsStep, AnswerInvKept
<1>9. CASE Close(p) \/ \E n \in Tags : RemoveListener(p, n)
  <2>1. UNCHANGED <<pendingHandlers, calls, up>>
    BY <1>9 DEF Close, RemoveListener, reportVars, subscriptionVars
  <2>2. \A q \in Proxies : \A n \in Tags : Requested(q, n)' => Requested(q, n)
    BY <1>9, LastStage DEF Same
  <2> QED  BY <2>1, <2>2, CallsStep, AnswerInvKept
<1> QED  BY <1>2, <1>3, <1>4, <1>5, <1>6, <1>7, <1>8, <1>9 DEF Operate, Subscribing

\* The service comes back: vsomeip answers after the report of the gain.
LEMMA AnswerInvService ==
  ASSUME BaseInv, AnswerInv, ChangeService
  PROVE  AnswerInv'
<1>1. /\ calls \in Seq(Calls) /\ up \in BOOLEAN /\ up' = ~up
  BY DEF BaseInv, TypeInv, ReportTypes, ChangeService, ServiceChange
<1>2. CASE up
  BY <1>1, <1>2 DEF AnswerInv
<1>3. CASE ~up
  <2>1. Others
    BY DEF Others
  <2>2. UNCHANGED <<made, active>> /\ \A p \in Proxies : \A n \in Tags : Same(p, n)
    BY <2>1, SameStages
  <2>3. SUFFICES ASSUME NEW p \in Proxies, NEW n \in Tags, Requested(p, n)'
                 PROVE  Has(calls', {"status"}) /\ Followed(calls')
    BY DEF AnswerInv
  <2>4. subscribedAt
    <3>1. Requested(p, n) /\ n \in Nat
      BY <2>2, <2>3 DEF Same, Tags
    <3> QED  BY <3>1 DEF BaseInv, SubscriptionInv, ListenersKnown
  <2>5. PICK s : s = (IF handlerAt THEN Append(calls, Report(~up)) ELSE calls) /\ s \in Seq(Calls)
    <3>1. Report(~up) \in Calls
      BY <1>1, ReportType
    <3> QED  BY <1>1, <3>1, AppendProperties
  <2>6. calls' = s \o Answers
    BY <1>3, <2>4, <2>5 DEF ChangeService, ServiceChange
  <2> QED  BY <2>5, <2>6, AnswersKinds, AfterConcat
<1> QED  BY <1>1, <1>2, <1>3

LEMMA AnswerInvOthers ==
  ASSUME BaseInv, AnswerInv, Update \/ Dispatch \/ MainLoop \/ UNCHANGED vars
  PROVE  AnswerInv'
<1>1. calls \in Seq(Calls) /\ UNCHANGED up
  BY DEF BaseInv, TypeInv, ReportTypes, Update, Dispatch, Forgotten, Forget, Reported, BeginReport, QueueReport,
     EndReport, StatusHandler, PushStatus, PushValue, MainLoop, InformProxies, HandleReport, CallErrorListener,
     EndErrorListener, HandleValue, TakeValue, EndValue, TakeSubscribers, Notify, vars, reportVars
<1>2. Others
  BY DEF Others
<1>3. UNCHANGED <<made, active>> /\ \A p \in Proxies : \A n \in Tags : Requested(p, n)' => Requested(p, n)
  BY <1>2, SameStages DEF Same
<1>4. CASE Update
  <2>1. UNCHANGED pendingHandlers /\ calls' = Append(calls, Entry("update", <<>>))
    BY <1>4 DEF Update, subscriptionVars
  <2>2. Entry("update", <<>>) \in Calls /\ Entry("update", <<>>).kind # "down"
    BY EntryType DEF Kinds
  <2> QED  BY <1>1, <1>3, <2>1, <2>2, CallsStep, AnswerInvKept
<1>5. CASE Forgotten \/ PushValue
  <2>1. UNCHANGED pendingHandlers /\ calls # <<>> /\ Head(calls).kind # "status" /\ calls' = Tail(calls)
    BY <1>5 DEF Forgotten, Forget, PushValue, subscriptionVars
  <2> QED  BY <1>1, <1>3, <2>1, CallsStep, AnswerInvKept
<1>6. CASE Reported \/ PushStatus \/ MainLoop \/ UNCHANGED vars
  <2>1. UNCHANGED <<pendingHandlers, calls>>
    BY <1>6 DEF Reported, BeginReport, PushStatus, MainLoop, InformProxies, HandleReport, CallErrorListener,
       EndErrorListener, HandleValue, TakeValue, EndValue, TakeSubscribers, Notify, vars, reportVars, subscriptionVars
  <2> QED  BY <1>1, <1>3, <2>1, CallsStep, AnswerInvKept
<1>7. CASE QueueReport
  <2>1. calls # <<>> /\ Head(calls).kind # "status" /\ calls' = Tail(calls)
    BY <1>7 DEF QueueReport, EndReport, BaseInv, TypeInv, DispatcherInv, Reports
  <2>2. CASE Head(calls).kind = "down"
    <3>1. ASSUME Followed(calls) PROVE Has(calls', {"status"}) /\ Followed(calls')
      BY <1>1, <2>1, <2>2, <3>1, AfterTail
    <3> QED  BY <1>1, <1>3, <3>1 DEF AnswerInv
  <2>3. CASE Head(calls).kind # "down"
    <3>1. UNCHANGED pendingHandlers
      BY <1>7, <2>3 DEF QueueReport, Requeued
    <3> QED  BY <1>1, <1>3, <2>1, <3>1, CallsStep, AnswerInvKept
  <2> QED  BY <2>2, <2>3
<1>8. CASE StatusHandler
  <2>1. calls # <<>> /\ calls' = Tail(calls) /\ (statusHandlerAt => pendingHandlers' = <<>>)
    BY <1>8 DEF StatusHandler, PopPending
  <2>2. SUFFICES ASSUME up, NEW p \in Proxies, NEW n \in Tags, Requested(p, n)
                 PROVE  ~(Times(pendingHandlers', <<p, n>>) > 0) /\ Followed(calls')
    BY <1>1, <1>3 DEF AnswerInv
  <2>3. Followed(calls')
    BY <1>1, <2>1, <2>2, AfterTail DEF AnswerInv
  <2>4. statusHandlerAt
    <3>1. subscribedAt
      <4>1. n \in Nat
        BY DEF Tags
      <4> QED  BY <2>2, <4>1 DEF BaseInv, SubscriptionInv, ListenersKnown
    <3> QED  BY <3>1 DEF BaseInv, SubscriptionInv, GroupWhileHandlers
  <2> QED  BY <2>1, <2>3, <2>4, TimesEmpty
<1> QED  BY <1>4, <1>5, <1>6, <1>7, <1>8 DEF Dispatch

LEMMA AnswerInvStep ==
  ASSUME BaseInv, AnswerInv, [Next]_vars
  PROVE  AnswerInv'
BY AnswerInvProxies, AnswerInvService, AnswerInvOthers DEF Next

\* Nobody that listens while the service is available is left waiting for its
\* status, whatever was lost, unsubscribed and subscribed again before.
THEOREM SubscribersToldStatus == Spec => []EveryoneTold
<1>1. BaseInv /\ StatusInv /\ AnswerInv => EveryoneTold
  <2> SUFFICES ASSUME BaseInv, StatusInv, AnswerInv, Quiet, up, NEW p \in Proxies, NEW n \in Tags, Listening(p, n)
               PROVE  statuses[p][n] > 0
    BY DEF EveryoneTold
  <2>1. calls = <<>> /\ queue = <<>> /\ batch = <<>>
    BY DEF Quiet, BaseInv, TypeInv, DispatcherInv
  <2>2. Requested(p, n) /\ Inserted(p, n)
    BY DEF Listening, Requested, Inserted
  <2>3. ~Has(calls, {"status"})
    BY <2>1 DEF Has
  <2>4. /\ Times(pendingHandlers, <<p, n>>) \in Nat /\ ~(Times(pendingHandlers, <<p, n>>) > 0)
        /\ Times(batch, <<p, n>>) = 0 /\ Times(queue, Entry("status", <<p, n>>)) = 0 /\ statuses[p][n] \in Nat
    BY <2>1, <2>2, <2>3, DueTypes, TimesEmpty DEF AnswerInv
  <2>5. Due(p, n) >= 1
    BY <2>2 DEF StatusInv
  <2> QED  BY <2>4, <2>5 DEF Due
<1>2. Init => AnswerInv
  BY DEF Init, AnswerInv, Requested
<1> QED  BY <1>1, <1>2, BaseInvInit, BaseInvStep, StatusInvInit, StatusInvStep, AnswerInvStep, PTL DEF Spec

-----------------------------------------------------------------------------
(* What the proxies know.                                                  *)

\* Proxy::init has registered the handler, and may still ask for itself.
Asked == {"count", "requestService", "query", "assign"}

ProxyStep(p) == Operate(p) \/ AddListener(p) \/ Close(p) \/ \E n \in Tags : RemoveListener(p, n)

\* Where the thread of a proxy may go.
LEMMA ThreadMoves ==
  ASSUME BaseInv, NEW p \in Proxies, ProxyStep(p)
  PROVE  \E from \in Steps, to \in Steps :
           /\ Moves(p, from, to)
           /\ from = "registerHandler" => RegisterHandler(p)
           /\ from = "requestEvent" => RequestEvent(p)
           /\ from \in Asked => to \in Asked \/ Query(p) \/ Assign(p)
           /\ to \in {"none", "requestEvent", "register"} => from \in {"none", "requestEvent"}
<1> USE DEF Steps, Asked
<1>1. CASE CountEvent(p) \/ AddHandler(p) \/ CountService(p)
  <2>1. PICK from \in {"none", "register", "count"}, to \in Steps :
          /\ Step(p, from, to) /\ (from = "count" => to \in {"requestService", "query"})
          /\ from = "register" => to \in {"registerHandler", "count"}
    BY <1>1 DEF CountEvent, AddHandler, CountService
  <2>2. Moves(p, from, to)
    BY <2>1, StepMoves DEF BaseInv, ServiceInv
  <2> QED  BY <2>1, <2>2
<1>2. CASE RequestEvent(p) \/ RegisterHandler(p)
  <2>1. PICK from \in {"requestEvent", "registerHandler"}, to \in {"register", "count"} :
          /\ Step(p, from, to) /\ (to = "register" <=> from = "requestEvent")
          /\ from = "requestEvent" => RequestEvent(p)
          /\ from = "registerHandler" => RegisterHandler(p)
    BY <1>2 DEF RequestEvent, RegisterHandler
  <2>2. Moves(p, from, to)
    BY <2>1, StepMoves DEF BaseInv, ServiceInv
  <2> QED  BY <2>1, <2>2
<1>3. CASE RequestService(p) \/ Query(p) \/ Assign(p)
  <2>1. PICK from \in Asked, to \in {"query", "assign", "idle"} :
          Step(p, from, to) /\ (to \in Asked \/ Query(p) \/ Assign(p))
    BY <1>3 DEF RequestService, Query, Assign
  <2>2. Moves(p, from, to)
    BY <2>1, StepMoves DEF BaseInv, ServiceInv
  <2> QED  BY <2>1, <2>2
<1>4. CASE Destroy(p)
  <2>1. PICK from \in {"uncount", "releaseEvent", "release", "unregister", "unregisterHandler"},
             to \in {"releaseEvent", "release", "unregister", "unregisterHandler", "gone"} : Step(p, from, to)
    BY <1>4 DEF Destroy, UncountEvent, ReleaseEvent, ReleaseService, RemoveHandler, UnregisterHandler
  <2>2. Moves(p, from, to)
    BY <2>1, StepMoves DEF BaseInv, ServiceInv
  <2> QED  BY <2>1, <2>2
<1>5. CASE Subscribing(p) \/ RemoveEventHandler(p)
  <2>1. PICK from \in {"add", "listen", "insert", "subscribe", "remove", "close"},
             to \in {"listen", "insert", "subscribe", "idle", "uncount"} : Step(p, from, to)
    BY <1>5 DEF Subscribing, AddEventHandler, Listen, InsertHandler, Subscribe, RemoveEventHandler
  <2>2. Moves(p, from, to)
    BY <2>1, StepMoves DEF BaseInv, ServiceInv
  <2> QED  BY <2>1, <2>2
<1>6. CASE AddListener(p) \/ Close(p) \/ \E n \in Tags : RemoveListener(p, n)
  <2>1. PICK to \in {"add", "listen", "close", "uncount", "remove", "idle"} : Step(p, "idle", to)
    BY <1>6 DEF AddListener, Close, RemoveListener
  <2>2. Moves(p, "idle", to)
    BY <2>1, StepMoves DEF BaseInv, ServiceInv
  <2> QED  BY <2>1, <2>2
<1> QED  BY <1>1, <1>2, <1>3, <1>4, <1>5, <1>6 DEF ProxyStep, Operate, Create

\* What a proxy has counted is registered at vsomeip, or about to be, and a
\* proxy knows of no service before it has a handler.
HandlerWanted == handlers # {} /\ ~crossed => handlerAt \/ \E q \in Proxies : pc[q] = "registerHandler"
EventWanted == events > 0 /\ ~crossed => eventAt \/ \E q \in Proxies : pc[q] = "requestEvent"

WantedInv ==
  /\ HandlerWanted /\ EventWanted
  /\ \A p \in Proxies : pc[p] \in {"none", "requestEvent", "register"} => ~known[p]

LEMMA EventsCounted ==
  ASSUME BaseInv
  PROVE  events \in Nat /\ \A p \in Proxies : pc[p] \in EventPlaces => events >= 1
<1>1. InEvent \in SUBSET Proxies /\ eventHandlers \in SUBSET Proxies
  BY DEF InEvent, BaseInv, TypeInv, HandlerTypes
<1>2. /\ Cardinality(InEvent) \in Nat /\ Cardinality(eventHandlers) \in Nat
      /\ \A p \in InEvent : Cardinality(InEvent) >= 1
  <2>1. IsFiniteSet(InEvent) /\ IsFiniteSet(eventHandlers)
    BY <1>1, ProxiesAssumption, FS_Subset
  <2> QED  BY <2>1, FS_CardinalityType, FS_EmptySet
<1>3. events = Cardinality(InEvent) + Cardinality(eventHandlers)
  BY DEF BaseInv, EventInv
<1>4. \A p \in Proxies : pc[p] \in EventPlaces => p \in InEvent
  BY DEF InEvent
<1> QED  BY <1>2, <1>3, <1>4

\* A registration that was undone stays so; Proxy::init assigns once.
LEMMA CrossedStays ==
  ASSUME [Next]_vars, crossed
  PROVE  crossed'
<1>1. ASSUME NEW p \in Proxies, Create(p) \/ Destroy(p) PROVE crossed'
  BY <1>1 DEF Create, CountEvent, RequestEvent, AddHandler, RegisterHandler, CountService, RequestService, Query,
     Assign, Destroy, UncountEvent, ReleaseEvent, ReleaseService, RemoveHandler, UnregisterHandler, registrationVars
<1>2. ASSUME NEW p \in Proxies, Subscribing(p) \/ RemoveEventHandler(p) PROVE crossed'
  BY <1>2 DEF Subscribing, AddEventHandler, Listen, InsertHandler, Subscribe, RemoveEventHandler, registrationVars
<1>3. ASSUME NEW p \in Proxies, AddListener(p) \/ Close(p) \/ \E n \in Tags : RemoveListener(p, n) PROVE crossed'
  BY <1>3 DEF AddListener, Close, RemoveListener, registrationVars
<1>4. CASE ChangeService \/ Update \/ UNCHANGED vars
  BY <1>4 DEF ChangeService, Update, vars, proxyVars, registrationVars
<1>5. CASE Dispatch
  BY <1>5 DEF Dispatch, Forgotten, Forget, Reported, BeginReport, QueueReport, EndReport, StatusHandler, PushStatus,
     PushValue, proxyVars, registrationVars
<1>6. CASE MainLoop
  BY <1>6 DEF MainLoop, InformProxies, HandleReport, CallErrorListener, EndErrorListener, HandleValue, TakeValue,
     EndValue, TakeSubscribers, Notify, proxyVars, registrationVars
<1> QED  BY <1>1, <1>2, <1>3, <1>4, <1>5, <1>6 DEF Next, Operate

\* Only Proxy::init goes on from there.
LEMMA AssignOnly ==
  ASSUME NEW p \in Proxies, ProxyStep(p), pc[p] = "assign"
  PROVE  Assign(p)
<1>1. ~(Subscribing(p) \/ RemoveEventHandler(p) \/ AddListener(p) \/ Close(p) \/ \E n \in Tags : RemoveListener(p, n))
  BY DEF Subscribing, AddEventHandler, Listen, InsertHandler, Subscribe, RemoveEventHandler, AddListener, Close,
     RemoveListener, Step
<1>2. ~Destroy(p)
  BY DEF Destroy, UncountEvent, ReleaseEvent, ReleaseService, RemoveHandler, UnregisterHandler, Step
<1>3. ~(\/ CountEvent(p) \/ RequestEvent(p) \/ AddHandler(p) \/ RegisterHandler(p)
        \/ CountService(p) \/ RequestService(p) \/ Query(p))
  BY DEF CountEvent, RequestEvent, AddHandler, RegisterHandler, CountService, RequestService, Query, Step
<1> QED  BY <1>1, <1>2, <1>3 DEF ProxyStep, Operate, Create

LEMMA KnownSteps ==
  ASSUME NEW p \in Proxies, ProxyStep(p)
  PROVE  known' = known \/ (pc[p] = "assign" /\ known' = [known EXCEPT ![p] = TRUE])
<1>1. CASE Create(p)
  <2>1. CASE Assign(p)
    BY <2>1 DEF Assign, Step
  <2>2. CASE CountEvent(p) \/ RequestEvent(p) \/ AddHandler(p) \/ RegisterHandler(p)
    BY <2>2 DEF CountEvent, RequestEvent, AddHandler, RegisterHandler, reportVars
  <2>3. CASE CountService(p) \/ RequestService(p) \/ Query(p)
    BY <2>3 DEF CountService, RequestService, Query, reportVars
  <2> QED  BY <1>1, <2>1, <2>2, <2>3 DEF Create
<1>2. CASE Destroy(p)
  BY <1>2 DEF Destroy, UncountEvent, ReleaseEvent, ReleaseService, RemoveHandler, UnregisterHandler, reportVars
<1>3. CASE Subscribing(p) \/ RemoveEventHandler(p)
  BY <1>3 DEF Subscribing, AddEventHandler, Listen, InsertHandler, Subscribe, RemoveEventHandler, reportVars
<1>4. CASE AddListener(p) \/ Close(p) \/ \E n \in Tags : RemoveListener(p, n)
  BY <1>4 DEF AddListener, Close, RemoveListener, reportVars
<1> QED  BY <1>1, <1>2, <1>3, <1>4 DEF ProxyStep, Operate

LEMMA KnownOthers ==
  ASSUME Others
  PROVE  UNCHANGED <<called, known>> \/ InformProxies
<1>1. CASE ChangeService \/ Update \/ UNCHANGED vars
  BY <1>1 DEF ChangeService, ServiceChange, Update, vars, reportVars
<1>2. CASE Dispatch
  BY <1>2 DEF Dispatch, Forgotten, Forget, Reported, BeginReport, QueueReport, EndReport, StatusHandler, PushStatus,
     PushValue
<1>3. CASE CallErrorListener \/ EndErrorListener \/ HandleValue
  BY <1>3 DEF CallErrorListener, EndErrorListener, HandleValue, TakeValue, EndValue, TakeSubscribers, Notify, reportVars
<1> QED  BY <1>1, <1>2, <1>3 DEF Others, MainLoop

\* The steps of a proxy that change what is counted and registered.
LEMMA RegistrationKinds ==
  ASSUME NEW p \in Proxies, ProxyStep(p)
  PROVE  /\ HandlerSteps(p) \/ UNCHANGED <<handlers, handlerAt>>
         /\ EventSteps(p) \/ UNCHANGED <<events, eventAt>>
<1>1. CASE AddHandler(p) \/ RegisterHandler(p) \/ RemoveHandler(p) \/ UnregisterHandler(p)
  <2>1. UNCHANGED <<events, eventAt>>
    BY <1>1 DEF AddHandler, RegisterHandler, RemoveHandler, UnregisterHandler
  <2> QED  BY <1>1, <2>1 DEF HandlerSteps
<1>2. CASE (CountEvent(p) \/ RequestEvent(p) \/ UncountEvent(p) \/ ReleaseEvent(p)) /\ UNCHANGED subscriptionVars
  <2>1. UNCHANGED <<handlers, handlerAt>>
    BY <1>2 DEF CountEvent, RequestEvent, UncountEvent, ReleaseEvent
  <2> QED  BY <1>2, <2>1 DEF EventSteps, subscriptionVars
<1>3. CASE AddEventHandler(p) \/ RemoveEventHandler(p)
  <2>1. UNCHANGED <<handlers, handlerAt>>
    BY <1>3 DEF AddEventHandler, RemoveEventHandler
  <2> QED  BY <1>3, <2>1 DEF EventSteps
<1>4. CASE CountService(p) \/ RequestService(p) \/ Query(p) \/ Assign(p) \/ ReleaseService(p)
  <2>1. UNCHANGED <<handlers, handlerAt, events, eventAt>>
    BY <1>4 DEF CountService, RequestService, Query, Assign, ReleaseService, registrationVars
  <2> QED  BY <2>1
<1>5. CASE \/ Listen(p) \/ InsertHandler(p) \/ Subscribe(p) \/ AddListener(p) \/ Close(p)
           \/ \E n \in Tags : RemoveListener(p, n)
  <2>1. UNCHANGED <<handlers, handlerAt, events, eventAt>>
    BY <1>5 DEF Listen, InsertHandler, Subscribe, AddListener, Close, RemoveListener, registrationVars
  <2> QED  BY <2>1
<1>6. Create(p) \/ Destroy(p) => UNCHANGED subscriptionVars
  BY DEF Create, Destroy
<1>7. Create(p) => \/ CountEvent(p) \/ RequestEvent(p) \/ AddHandler(p) \/ RegisterHandler(p)
                   \/ CountService(p) \/ RequestService(p) \/ Query(p) \/ Assign(p)
  BY DEF Create
<1>8. Destroy(p) => UncountEvent(p) \/ ReleaseEvent(p) \/ ReleaseService(p) \/ RemoveHandler(p) \/ UnregisterHandler(p)
  BY DEF Destroy
<1>9. \/ Create(p) \/ Destroy(p) \/ AddEventHandler(p) \/ RemoveEventHandler(p) \/ Listen(p) \/ InsertHandler(p)
      \/ Subscribe(p) \/ AddListener(p) \/ Close(p) \/ \E n \in Tags : RemoveListener(p, n)
  BY DEF ProxyStep, Operate, Subscribing
<1> QED  BY <1>1, <1>2, <1>3, <1>4, <1>5, <1>6, <1>7, <1>8, <1>9

LEMMA WantedInvStep ==
  ASSUME BaseInv, WantedInv, [Next]_vars
  PROVE  WantedInv'
<1>1. CASE Others
  <2>1. UNCHANGED <<pc, handlers, handlerAt, events, eventAt>>
    BY <1>1, OthersKeep
  <2>2. ASSUME NEW p \in Proxies, pc[p] \in {"none", "requestEvent", "register"}
        PROVE  ~known'[p]
    <3>1. p \notin handlers
      BY <2>2 DEF BaseInv, HandlerInv, InHandlers, HandlerPlaces, ServicePlaces
    <3>2. known'[p] = known[p]
      BY <1>1, <3>1, KnownOthers DEF InformProxies, HandleReport, KnownAfter
    <3> QED  BY <2>2, <3>2 DEF WantedInv
  <2> QED  BY <2>1, <2>2, CrossedStays DEF WantedInv, HandlerWanted, EventWanted
<1>2. ASSUME NEW p \in Proxies, ProxyStep(p)
      PROVE  \A q \in Proxies : pc'[q] \in {"none", "requestEvent", "register"} => ~known'[q]
  <2>1. PICK from \in Steps, to \in Steps :
           /\ Moves(p, from, to)
           /\ to \in {"none", "requestEvent", "register"} => from \in {"none", "requestEvent"}
    BY <1>2, ThreadMoves
  <2>2. known \in [Proxies -> BOOLEAN]
    BY DEF BaseInv, TypeInv, ReportTypes
  <2>3. SUFFICES ASSUME NEW q \in Proxies, pc'[q] \in {"none", "requestEvent", "register"} PROVE ~known'[q]
    OBVIOUS
  <2>4. pc[q] \in {"none", "requestEvent", "register"} /\ ~(q = p /\ pc[p] = "assign")
    BY <2>1, <2>3 DEF Moves
  <2>5. known'[q] = known[q]
    BY <1>2, <2>2, <2>4, KnownSteps
  <2> QED  BY <2>4, <2>5 DEF WantedInv
<1>3. ASSUME NEW p \in Proxies, ProxyStep(p), UNCHANGED <<handlers, handlerAt>>
      PROVE  HandlerWanted'
  <2>1. PICK from \in Steps, to \in Steps : Moves(p, from, to) /\ (from = "registerHandler" => RegisterHandler(p))
    BY <1>3, ThreadMoves
  <2>2. CASE RegisterHandler(p)
    BY <2>2 DEF RegisterHandler, HandlerWanted
  <2>3. CASE ~RegisterHandler(p)
    <3>1. \A q \in Proxies : pc[q] = "registerHandler" => pc'[q] = "registerHandler"
      BY <2>1, <2>3 DEF Moves
    <3> QED  BY <1>3, <3>1, CrossedStays DEF WantedInv, HandlerWanted
  <2> QED  BY <2>2, <2>3
<1>4. ASSUME NEW p \in Proxies, ProxyStep(p), UNCHANGED <<events, eventAt>>
      PROVE  EventWanted'
  <2>1. PICK from \in Steps, to \in Steps : Moves(p, from, to) /\ (from = "requestEvent" => RequestEvent(p))
    BY <1>4, ThreadMoves
  <2>2. CASE RequestEvent(p)
    BY <2>2 DEF RequestEvent, EventWanted
  <2>3. CASE ~RequestEvent(p)
    <3>1. \A q \in Proxies : pc[q] = "requestEvent" => pc'[q] = "requestEvent"
      BY <2>1, <2>3 DEF Moves
    <3> QED  BY <1>4, <3>1, CrossedStays DEF WantedInv, EventWanted
  <2> QED  BY <2>2, <2>3
<1>5. ASSUME NEW p \in Proxies, ProxyStep(p), HandlerSteps(p)
      PROVE  HandlerWanted'
  <2>2. PICK from \in Steps, to \in Steps : Moves(p, from, to) /\ (from = "registerHandler" => RegisterHandler(p))
    BY <1>5, ThreadMoves
  <2>3. CASE RegisterHandler(p)
    BY <2>3 DEF RegisterHandler, HandlerWanted
  <2>4. CASE ~RegisterHandler(p)
    <3>1. \A q \in Proxies : pc[q] = "registerHandler" => pc'[q] = "registerHandler"
      BY <2>2, <2>4 DEF Moves
    <3>2. CASE AddHandler(p)
      <4>1. UNCHANGED <<handlerAt, crossed>> /\ pc'[p] = (IF handlers = {} THEN "registerHandler" ELSE "count")
        BY <3>2 DEF AddHandler, Step, BaseInv, ServiceInv, PcType
      <4> QED  BY <3>1, <4>1 DEF WantedInv, HandlerWanted
    <3>3. CASE RemoveHandler(p)
      BY <3>1, <3>3 DEF RemoveHandler, WantedInv, HandlerWanted
    <3>4. CASE UnregisterHandler(p)
      BY <3>1, <3>4 DEF UnregisterHandler, Lost, HandlerWanted
    <3> QED  BY <1>5, <2>4, <3>2, <3>3, <3>4 DEF HandlerSteps
  <2> QED  BY <2>3, <2>4
<1>6. ASSUME NEW p \in Proxies, ProxyStep(p), EventSteps(p)
      PROVE  EventWanted'
  <2>2. PICK from \in Steps, to \in Steps : Moves(p, from, to) /\ (from = "requestEvent" => RequestEvent(p))
    BY <1>6, ThreadMoves
  <2>3. CASE RequestEvent(p)
    BY <2>3 DEF RequestEvent, EventWanted
  <2>4. CASE ~RequestEvent(p)
    <3>1. \A q \in Proxies : pc[q] = "requestEvent" => pc'[q] = "requestEvent"
      BY <2>2, <2>4 DEF Moves
    <3>2. CASE CountEvent(p)
      <4>1. UNCHANGED <<eventAt, crossed>> /\ pc'[p] = (IF events = 0 THEN "requestEvent" ELSE "register")
        BY <3>2 DEF CountEvent, Step, BaseInv, ServiceInv, PcType
      <4>2. events = 0 \/ events > 0
        BY EventsCounted
      <4> QED  BY <3>1, <4>1, <4>2 DEF WantedInv, EventWanted
    <3>3. CASE UncountEvent(p) \/ RemoveEventHandler(p)
      <4>1. UNCHANGED <<eventAt, crossed>> /\ events' = events - 1
        BY <3>3 DEF UncountEvent, RemoveEventHandler
      <4>2. events' > 0 => events > 0
        BY <4>1, EventsCounted
      <4> QED  BY <3>1, <4>1, <4>2 DEF WantedInv, EventWanted
    <3>4. CASE ReleaseEvent(p)
      BY <3>1, <3>4 DEF ReleaseEvent, Lost, EventWanted
    <3>5. CASE AddEventHandler(p)
      <4>1. UNCHANGED <<eventAt, crossed>> /\ pc[p] \in EventPlaces
        BY <3>5 DEF AddEventHandler, Step, EventPlaces
      <4>2. events > 0
        BY <4>1, EventsCounted
      <4> QED  BY <3>1, <4>1, <4>2 DEF WantedInv, EventWanted
    <3> QED  BY <1>6, <2>4, <3>2, <3>3, <3>4, <3>5 DEF EventSteps
  <2> QED  BY <2>3, <2>4
<1>7. ASSUME NEW p \in Proxies, ProxyStep(p)
      PROVE  WantedInv'
  <2>1. HandlerWanted' /\ EventWanted'
    BY <1>3, <1>4, <1>5, <1>6, <1>7, RegistrationKinds
  <2> QED  BY <1>2, <1>7, <2>1 DEF HandlerWanted, EventWanted, WantedInv
<1> QED  BY <1>1, <1>7 DEF Next, ProxyStep, Others

\* Somebody has a handler, it is registered, and no such call came too late.
Clear == handlers # {} /\ ~crossed /\ \A q \in Proxies : pc[q] # "registerHandler"

\* Every proxy that has a handler knows what vsomeip knows.
Settled == called /\ \A p \in handlers : (known[p] => up) /\ (up => known[p] \/ pc[p] \in Asked)

\* The last report on its way says what vsomeip knows; if there is none, the
\* proxies know it.
KnowledgeInv ==
  Clear => /\ LastReports(calls, up)
           /\ ~Has(calls, Reports) => /\ LastReports(queue, up)
                                      /\ ~Has(queue, Reports) => Settled

LEMMA KnowledgeInvKept ==
  ASSUME KnowledgeInv, Clear' => Clear, UNCHANGED up,
         LastReports(calls, up) => LastReports(calls', up), Has(calls, Reports) => Has(calls', Reports),
         LastReports(queue, up) => LastReports(queue', up), Has(queue, Reports) => Has(queue', Reports),
         Clear' /\ Settled => Settled'
  PROVE  KnowledgeInv'
BY DEF KnowledgeInv

\* The calls or the queue grow by others than reports, or lose one.
LEMMA NoReport ==
  ASSUME NEW s \in Seq(Calls), NEW t \in Seq(Calls), NEW b,
         \/ t = s
         \/ \E c \in Calls : c.kind \notin Reports /\ t = Append(s, c)
         \/ s # <<>> /\ Head(s).kind \notin Reports /\ t = Tail(s)
  PROVE  /\ LastReports(s, b) => LastReports(t, b)
         /\ Has(s, Reports) => Has(t, Reports)
<1>1. ASSUME NEW c \in Calls, c.kind \notin Reports, t = Append(s, c)
      PROVE  /\ LastReports(s, b) => LastReports(t, b)
             /\ Has(s, Reports) => Has(t, Reports)
  BY <1>1, AfterAppend
<1>2. CASE s # <<>> /\ Head(s).kind \notin Reports /\ t = Tail(s)
  BY <1>2, AfterTail
<1> QED  BY <1>1, <1>2

\* The same registrations, and the same knowledge.
LEMMA ClearKept ==
  ASSUME Others, UNCHANGED <<called, known, up>>, [Next]_vars
  PROVE  (Clear' => Clear) /\ (Settled => Settled')
BY OthersKeep, CrossedStays DEF Clear, Settled

LEMMA KnowledgeInvService ==
  ASSUME BaseInv, WantedInv, KnowledgeInv, ChangeService
  PROVE  KnowledgeInv'
<1>1. SUFFICES ASSUME Clear' PROVE LastReports(calls', up') /\ Has(calls', Reports)
  BY DEF KnowledgeInv
<1>2. UNCHANGED <<pc, handlers, handlerAt>> /\ up' = ~up
  BY DEF ChangeService, ServiceChange
<1>3. handlerAt
  <2>1. crossed => crossed'
    BY CrossedStays DEF Next
  <2> QED  BY <1>1, <1>2, <2>1 DEF Clear, WantedInv, HandlerWanted
<1>4. calls \in Seq(Calls) /\ up \in BOOLEAN
  BY DEF BaseInv, TypeInv, ReportTypes
<1>5. PICK more \in Seq(Calls) : ~Has(more, Reports) /\ calls' = Append(calls, Report(~up)) \o more
  <2>1. calls' = Append(calls, Report(~up)) \o (IF ~up /\ subscribedAt THEN Answers ELSE <<>>)
    BY <1>3 DEF ChangeService, ServiceChange
  <2>2. <<>> \in Seq(Calls) /\ ~Has(<<>>, Reports)
    BY EmptySeq DEF Has
  <2> QED  BY <2>1, <2>2, AnswersKinds
<1>6. Report(~up) \in Calls /\ Report(~up).kind \in Reports /\ (Report(~up).kind = "up" <=> up')
  BY <1>2, <1>4, ReportType
<1>7. PICK s \in Seq(Calls) : s = Append(calls, Report(~up))
  BY <1>4, <1>6, AppendProperties
<1>8. LastReports(s, up') /\ Has(s, Reports)
  BY <1>4, <1>6, <1>7, AfterAppend
<1> QED  BY <1>5, <1>7, <1>8, AfterConcat

LEMMA KnowledgeInvDispatch ==
  ASSUME BaseInv, WantedInv, KnowledgeInv, Update \/ Dispatch \/ UNCHANGED vars
  PROVE  KnowledgeInv'
<1>1. /\ calls \in Seq(Calls) /\ queue \in Seq(Calls) /\ up \in BOOLEAN /\ batch \in Seq(Subscribers)
      /\ DispatcherInv
  BY DEF BaseInv, TypeInv, ReportTypes, LoopTypes
<1>2. Others /\ [Next]_vars
  BY DEF Others, Next
<1>3. UNCHANGED <<called, known, up>>
  BY DEF Update, Dispatch, Forgotten, Forget, Reported, BeginReport, QueueReport, EndReport, StatusHandler,
     PushStatus, PushValue, vars, reportVars
<1>4. (Clear' => Clear) /\ (Settled => Settled')
  BY <1>2, <1>3, ClearKept
<1>5. CASE Update
  <2>1. UNCHANGED queue /\ calls' = Append(calls, Entry("update", <<>>))
    BY <1>5 DEF Update
  <2>2. Entry("update", <<>>) \in Calls /\ Entry("update", <<>>).kind \notin Reports
    BY EntryType DEF Kinds, Reports
  <2>3. calls' \in Seq(Calls)
    BY <1>1, <2>1, <2>2, AppendProperties
  <2> QED  BY <1>1, <1>3, <1>4, <2>1, <2>2, <2>3, NoReport, KnowledgeInvKept
<1>6. CASE Forgotten
  <2>1. ~handlerAt /\ UNCHANGED <<pc, handlers, handlerAt, crossed>>
    BY <1>6 DEF Forgotten, Forget, proxyVars, registrationVars
  <2>2. ~Clear'
    BY <2>1 DEF Clear, WantedInv, HandlerWanted
  <2> QED  BY <2>2 DEF KnowledgeInv
<1>7. CASE Reported \/ UNCHANGED vars
  <2>1. UNCHANGED <<calls, queue>>
    BY <1>7 DEF Reported, BeginReport, vars, reportVars
  <2> QED  BY <1>3, <1>4, <2>1, KnowledgeInvKept
<1>8. CASE QueueReport
  <2>1. /\ calls # <<>> /\ Head(calls).kind \in Reports
        /\ calls' = Tail(calls) /\ queue' = Append(queue, Head(calls))
    BY <1>1, <1>8 DEF QueueReport, EndReport, DispatcherInv
  <2>2. SUFFICES ASSUME Clear
                 PROVE  /\ LastReports(calls', up)
                        /\ ~Has(calls', Reports) => LastReports(queue', up) /\ Has(queue', Reports)
    BY <1>3, <1>4 DEF KnowledgeInv
  <2>3. /\ LastReports(calls', up) /\ Head(calls) \in Calls
        /\ ~Has(calls', Reports) => (Head(calls).kind = "up" <=> up)
    BY <1>1, <2>1, <2>2, AfterTail DEF KnowledgeInv
  <2>4. ~Has(calls', Reports) => LastReports(queue', up) /\ Has(queue', Reports)
    BY <1>1, <2>1, <2>3, AfterAppend
  <2> QED  BY <2>3, <2>4
<1>9. CASE StatusHandler \/ PushValue
  <2>1. /\ calls # <<>> /\ Head(calls).kind \notin Reports /\ calls' = Tail(calls)
        /\ queue' = queue \/ queue' = Append(queue, Head(calls))
    BY <1>9 DEF StatusHandler, PushValue, Reports
  <2>2. Head(calls) \in Calls /\ calls' \in Seq(Calls)
    BY <1>1, <2>1, HeadTailProperties
  <2>3. queue' \in Seq(Calls)
    <3>1. Append(queue, Head(calls)) \in Seq(Calls)
      BY <1>1, <2>2, AppendProperties
    <3> QED  BY <1>1, <2>1, <3>1
  <2> QED  BY <1>1, <1>3, <1>4, <2>1, <2>2, <2>3, NoReport, KnowledgeInvKept
<1>10. CASE PushStatus
  <2>1. UNCHANGED calls /\ queue' = Append(queue, Entry("status", Head(batch))) /\ batch # <<>>
    BY <1>1, <1>10 DEF PushStatus, DispatcherInv
  <2>2. Head(batch) \in Subscribers
    BY <1>1, <2>1, HeadTailProperties
  <2>3. Entry("status", Head(batch)) \in Calls /\ Entry("status", Head(batch)).kind \notin Reports
    BY <2>2, EntryType DEF Reports
  <2>4. queue' \in Seq(Calls)
    BY <1>1, <2>1, <2>3, AppendProperties
  <2> QED  BY <1>1, <1>3, <1>4, <2>1, <2>3, <2>4, NoReport, KnowledgeInvKept
<1> QED  BY <1>5, <1>6, <1>7, <1>8, <1>9, <1>10 DEF Dispatch

LEMMA KnowledgeInvMainLoop ==
  ASSUME BaseInv, KnowledgeInv, MainLoop
  PROVE  KnowledgeInv'
<1>1. /\ calls \in Seq(Calls) /\ queue \in Seq(Calls) /\ up \in BOOLEAN /\ known \in [Proxies -> BOOLEAN]
      /\ handlers \subseteq Proxies
  BY DEF BaseInv, TypeInv, ReportTypes, HandlerInv, InHandlers
<1>2. Others /\ [Next]_vars
  BY DEF Others, Next
<1>3. UNCHANGED <<up, calls>>
  BY DEF MainLoop, InformProxies, HandleReport, CallErrorListener, EndErrorListener, HandleValue, TakeValue,
     EndValue, TakeSubscribers, Notify, reportVars
<1>4. CASE InformProxies
  <2>1. /\ queue # <<>> /\ Head(queue).kind \in Reports /\ queue' = Tail(queue) /\ called' = TRUE
        /\ known' = KnownAfter(Head(queue).kind = "up") /\ UNCHANGED <<pc, handlers, crossed>>
    BY <1>4 DEF InformProxies, HandleReport, Reports, proxyVars, registrationVars
  <2>2. SUFFICES ASSUME Clear, ~Has(calls, Reports)
                 PROVE  /\ LastReports(queue', up)
                        /\ ~Has(queue', Reports) => Settled'
    BY <1>3, <2>1 DEF KnowledgeInv, Clear
  <2>3. /\ LastReports(queue', up)
        /\ ~Has(queue', Reports) => (Head(queue).kind = "up" <=> up)
    BY <1>1, <2>1, <2>2, AfterTail DEF KnowledgeInv
  <2>4. ASSUME ~Has(queue', Reports) PROVE Settled'
    <3>1. \A p \in handlers : known'[p] <=> up
      BY <1>1, <2>1, <2>3, <2>4 DEF KnownAfter
    <3> QED  BY <1>3, <2>1, <3>1 DEF Settled
  <2> QED  BY <2>3, <2>4
<1>5. CASE CallErrorListener \/ EndErrorListener \/ HandleValue
  <2>1. UNCHANGED <<called, known>>
    BY <1>5 DEF CallErrorListener, EndErrorListener, HandleValue, TakeValue, EndValue, TakeSubscribers, Notify, reportVars
  <2>2. (Clear' => Clear) /\ (Settled => Settled')
    BY <1>2, <1>3, <2>1, ClearKept
  <2>3. queue' = queue \/ (queue # <<>> /\ Head(queue).kind \notin Reports /\ queue' = Tail(queue))
    BY <1>5 DEF CallErrorListener, EndErrorListener, HandleValue, TakeValue, EndValue, TakeSubscribers, Notify,
       reportVars, Reports, Kinds
  <2>4. queue' \in Seq(Calls)
    BY <1>1, <2>3, HeadTailProperties
  <2> QED  BY <1>1, <1>3, <2>2, <2>3, <2>4, NoReport, KnowledgeInvKept
<1> QED  BY <1>4, <1>5 DEF MainLoop

LEMMA ProxyCalls ==
  ASSUME BaseInv, NEW p \in Proxies, ProxyStep(p)
  PROVE  /\ UNCHANGED <<up, queue, called>>
         /\ \/ UNCHANGED calls
            \/ RegisterHandler(p) /\ calls' = Append(calls, Report(up))
            \/ Subscribe(p) /\ calls' = (IF up THEN calls \o Answers ELSE calls)
<1>1. CASE Create(p) \/ Destroy(p)
  BY <1>1, CreateCalls
<1>2. CASE Subscribe(p)
  <2>1. UNCHANGED <<up, queue, called>> /\ calls' = (IF up THEN calls \o Answers ELSE calls)
    BY <1>2 DEF Subscribe
  <2> QED  BY <1>2, <2>1
<1>3. CASE \/ AddEventHandler(p) \/ Listen(p) \/ InsertHandler(p) \/ RemoveEventHandler(p)
           \/ AddListener(p) \/ Close(p) \/ \E n \in Tags : RemoveListener(p, n)
  <2>1. UNCHANGED <<up, queue, called, calls>>
    BY <1>3 DEF AddEventHandler, Listen, InsertHandler, RemoveEventHandler, AddListener, Close, RemoveListener, reportVars
  <2> QED  BY <2>1
<1> QED  BY <1>1, <1>2, <1>3 DEF ProxyStep, Operate, Subscribing

LEMMA KnowledgeInvProxies ==
  ASSUME BaseInv, WantedInv, KnowledgeInv, [Next]_vars, NEW p \in Proxies, ProxyStep(p)
  PROVE  KnowledgeInv'
<1>1. /\ calls \in Seq(Calls) /\ up \in BOOLEAN /\ known \in [Proxies -> BOOLEAN] /\ handlers \subseteq Proxies
  BY DEF BaseInv, TypeInv, ReportTypes, HandlerInv, InHandlers
<1>2. UNCHANGED <<up, queue, called>>
  BY ProxyCalls
<1>3. CASE RegisterHandler(p)
  <2>1. calls' = Append(calls, Report(up))
    BY <1>3 DEF RegisterHandler
  <2>2. LastReports(calls', up) /\ Has(calls', Reports)
    BY <1>1, <2>1, ReportType, AfterAppend
  <2> QED  BY <1>2, <2>2 DEF KnowledgeInv
<1>4. CASE ~RegisterHandler(p)
  <2>1. PICK from \in Steps, to \in Steps :
           Moves(p, from, to) /\ from # "registerHandler" /\ (from \in Asked => to \in Asked \/ Query(p) \/ Assign(p))
    BY <1>4, ThreadMoves
  <2>2. \A q \in Proxies : pc'[q] # "registerHandler" => pc[q] # "registerHandler"
    BY <2>1 DEF Moves
  <2>3. /\ LastReports(calls, up) => LastReports(calls', up)
        /\ Has(calls, Reports) => Has(calls', Reports)
    <3>1. CASE calls' = calls
      BY <3>1
    <3>2. CASE calls' = calls \o Answers
      <4>1. Answers \in Seq(Calls) /\ ~Has(Answers, Reports)
        BY AnswersKinds
      <4> QED  BY <1>1, <3>2, <4>1, AfterConcat
    <3> QED  BY <1>4, <3>1, <3>2, ProxyCalls
  <2>4. AddHandler(p) \/ handlers' \subseteq handlers
    BY RegistrationKinds DEF HandlerSteps, RegisterHandler, RemoveHandler, UnregisterHandler
  <2>5. Clear' => Clear
    <3>1. CASE AddHandler(p)
      <4>1. pc'[p] = IF handlers = {} THEN "registerHandler" ELSE "count"
        BY <3>1 DEF AddHandler, Step, BaseInv, ServiceInv, PcType
      <4> QED  BY <2>2, <4>1, CrossedStays DEF Clear
    <3>2. CASE handlers' \subseteq handlers
      BY <2>2, <3>2, CrossedStays DEF Clear
    <3> QED  BY <2>4, <3>1, <3>2
  <2>6. ASSUME Clear', Settled PROVE Settled'
    <3>1. called'
      BY <1>2, <2>6 DEF Settled
    <3>2. ASSUME NEW q \in handlers', q # p
          PROVE  (known'[q] => up') /\ (up' => known'[q] \/ pc'[q] \in Asked)
      <4>1. q \in handlers /\ q \in Proxies
        BY <1>1, <2>4, <3>2 DEF AddHandler
      <4>2. pc'[q] = pc[q] /\ known'[q] = known[q]
        BY <1>1, <2>1, <3>2, <4>1, KnownSteps DEF Moves
      <4> QED  BY <1>2, <2>6, <4>1, <4>2 DEF Settled
    <3>3. ASSUME p \in handlers'
          PROVE  (known'[p] => up') /\ (up' => known'[p] \/ pc'[p] \in Asked)
      <4>1. CASE AddHandler(p)
        <5>1. pc'[p] \in {"registerHandler", "count"} /\ pc[p] = "register" /\ UNCHANGED known
          BY <4>1 DEF AddHandler, Step, BaseInv, ServiceInv, PcType, reportVars
        <5>2. ~known'[p] /\ pc'[p] = "count"
          BY <2>6, <5>1 DEF WantedInv, Clear
        <5> QED  BY <5>2 DEF Asked
      <4>2. CASE Assign(p)
        <5>1. known'[p] /\ (crossed' <=> crossed \/ ~up)
          BY <1>1, <4>2 DEF Assign
        <5> QED  BY <1>2, <2>6, <5>1 DEF Clear
      <4>3. CASE Query(p)
        <5>1. UNCHANGED <<known, handlers>> /\ pc'[p] = IF called /\ up THEN "assign" ELSE "idle"
          BY <4>3 DEF Query, Step, registrationVars, reportVars, BaseInv, ServiceInv, PcType
        <5> QED  BY <1>2, <2>6, <3>3, <5>1 DEF Settled, Asked
      <4>4. CASE ~AddHandler(p) /\ ~Assign(p) /\ ~Query(p)
        <5>1. p \in handlers /\ (pc[p] \in Asked => pc'[p] \in Asked)
          BY <2>1, <2>4, <3>3, <4>4 DEF Moves
        <5>2. known'[p] = known[p] \/ pc[p] = "assign"
          BY KnownSteps
        <5>3. pc[p] # "assign"
          <6>1. pc[p] = "assign" => Assign(p)
            BY AssignOnly
          <6> QED  BY <4>4, <6>1
        <5> QED  BY <1>2, <2>6, <5>1, <5>2, <5>3 DEF Settled
      <4> QED  BY <4>1, <4>2, <4>3, <4>4
    <3> QED  BY <3>1, <3>2, <3>3 DEF Settled
  <2> QED  BY <1>2, <2>3, <2>5, <2>6, KnowledgeInvKept
<1> QED  BY <1>3, <1>4

LEMMA KnowledgeInvStep ==
  ASSUME BaseInv, WantedInv, KnowledgeInv, [Next]_vars
  PROVE  KnowledgeInv'
BY KnowledgeInvService, KnowledgeInvDispatch, KnowledgeInvMainLoop, KnowledgeInvProxies DEF Next, ProxyStep

\* A proxy is not left with an old availability, nor its event without a
\* request, by any interleaving of the creation and destruction of others
\* with the reports of vsomeip, other than the calls that come too late.
THEOREM ProxiesKnow == Spec => []KnowsWhenQuiet
<1>1. BaseInv /\ WantedInv /\ KnowledgeInv => KnowsWhenQuiet
  <2> SUFFICES ASSUME BaseInv, WantedInv, KnowledgeInv, Quiet, ~crossed, NEW p \in Proxies, pc[p] = "idle"
               PROVE  known[p] = up /\ eventAt
    BY DEF KnowsWhenQuiet
  <2>1. \A q \in Proxies : pc[q] # "registerHandler" /\ pc[q] # "requestEvent"
    BY DEF Quiet
  <2>2. p \in handlers
    BY DEF BaseInv, HandlerInv, InHandlers, HandlerPlaces, ServicePlaces
  <2>3. ~Has(calls, Reports) /\ ~Has(queue, Reports)
    BY DEF Quiet, Has
  <2>4. Settled
    BY <2>1, <2>2, <2>3 DEF KnowledgeInv, Clear
  <2>5. known[p] <=> up
    BY <2>2, <2>4 DEF Settled, Asked
  <2>6. known[p] \in BOOLEAN /\ up \in BOOLEAN
    BY DEF BaseInv, TypeInv, ReportTypes
  <2>7. eventAt
    <3>1. events >= 1 /\ events \in Nat
      BY EventsCounted DEF EventPlaces
    <3> QED  BY <2>1, <3>1 DEF WantedInv, EventWanted
  <2> QED  BY <2>5, <2>6, <2>7
<1>2. Init => WantedInv /\ KnowledgeInv
  BY DEF Init, RegistrationsInit, WantedInv, HandlerWanted, EventWanted, KnowledgeInv, Clear
<1> QED  BY <1>1, <1>2, BaseInvInit, BaseInvStep, WantedInvStep, KnowledgeInvStep, PTL DEF Spec

-----------------------------------------------------------------------------
(* Values.                                                                 *)

\* handleEventMessage is about to tell it a value of either kind.
Telling(p, n) == current = {p} /\ (loop = "update" \/ n \in subscribers)

\* Nothing takes a subscription out of listeners_ but a value it is told.
WaitsInv ==
  /\ current # {} => loop \in Kinds
  /\ \A p \in Proxies : \A n \in Tags : Held(p, n) => n \in heard[p] \/ n \in fresh[p] \/ Telling(p, n)

LEMMA WaitsInvKept ==
  ASSUME WaitsInv, UNCHANGED <<fresh, heard, current, subscribers, loop>>,
         \A p \in Proxies : \A n \in Tags : Held(p, n)' => Held(p, n)
  PROVE  WaitsInv'
BY DEF WaitsInv, Telling

LEMMA WaitsInvProxies ==
  ASSUME BaseInv, WaitsInv, NEW p \in Proxies, ProxyStep(p)
  PROVE  WaitsInv'
<1>1. /\ fresh \in [Proxies -> SUBSET Tags] /\ heard \in [Proxies -> SUBSET Tags]
  BY DEF BaseInv, TypeInv, EventTypes, ToldTypes
<1>2. CASE Create(p) \/ Destroy(p) \/ AddEventHandler(p) \/ RemoveEventHandler(p)
  <2>1. UNCHANGED <<fresh, heard, current, subscribers, loop>>
    BY <1>2 DEF Create, Destroy, AddEventHandler, RemoveEventHandler, eventVars, toldVars, loopVars
  <2> QED  BY <1>2, <2>1, SameStages, WaitsInvKept DEF Same
<1>3. CASE InsertHandler(p) \/ Subscribe(p)
  <2>1. UNCHANGED <<fresh, heard, current, subscribers, loop>> /\ ~Listen(p)
    BY <1>3 DEF InsertHandler, Subscribe, Listen, Step, eventVars, toldVars, loopVars
  <2> QED  BY <1>3, <2>1, NextStage, WaitsInvKept DEF Same
<1>4. CASE Listen(p)
  <2>1. /\ fresh'[p] = fresh[p] \cup {made[p]} /\ UNCHANGED <<heard, current, subscribers, loop>>
        /\ \A q \in Proxies \ {p} : fresh'[q] = fresh[q]
    BY <1>1, <1>4 DEF Listen, toldVars, loopVars
  <2>2. \A q \in Proxies : \A n \in Tags : q # p \/ n # made[p] => (Held(q, n)' <=> Held(q, n))
    BY <1>4, NextStage DEF Same
  <2> QED  BY <2>1, <2>2 DEF WaitsInv, Telling
<1>5. CASE AddListener(p)
  <2>1. UNCHANGED <<fresh, heard, current, subscribers, loop>>
    BY <1>5 DEF AddListener, toldVars, loopVars
  <2>2. \A q \in Proxies : \A n \in Tags : Held(q, n)' => Held(q, n)
    <3>1. ASSUME NEW q \in Proxies, NEW n \in Tags, q # p \/ n # made[p] + 1 PROVE Held(q, n)' => Held(q, n)
      BY <1>5, <3>1, NewStage DEF Same
    <3>2. \A n \in Tags : n = made[p] + 1 => ~Held(p, n)'
      BY <1>5, NewStage
    <3> QED  BY <3>1, <3>2
  <2> QED  BY <2>1, <2>2, WaitsInvKept
<1>6. CASE Close(p) \/ \E n \in Tags : RemoveListener(p, n)
  <2>1. UNCHANGED <<fresh, current, subscribers, loop>>
    BY <1>6 DEF Close, RemoveListener, loopVars
  <2>2. PICK tags \in SUBSET Tags :
          /\ Forgets(p, tags)
          /\ \A q \in Proxies : \A n \in Tags : q # p \/ n \notin tags => Same(q, n)
          /\ \A n \in tags : ~Held(p, n)'
    BY <1>6, LastStage
  <2>3. \A q \in Proxies : \A n \in Tags : q # p \/ n \notin tags => (n \in heard[q] => n \in heard'[q])
    BY <1>1, <2>2 DEF Forgets
  <2>4. \A q \in Proxies : \A n \in Tags : Held(q, n)' => Held(q, n) /\ (q # p \/ n \notin tags)
    BY <2>2 DEF Same
  <2> QED  BY <2>1, <2>3, <2>4 DEF WaitsInv, Telling
<1> QED  BY <1>2, <1>3, <1>4, <1>5, <1>6 DEF ProxyStep, Operate, Subscribing

LEMMA WaitsInvOthers ==
  ASSUME BaseInv, WaitsInv, Others
  PROVE  WaitsInv'
<1>1. /\ fresh \in [Proxies -> SUBSET Tags] /\ heard \in [Proxies -> SUBSET Tags]
  BY DEF BaseInv, TypeInv, EventTypes, ToldTypes
<1>2. \A q \in Proxies : \A n \in Tags : Held(q, n)' => Held(q, n)
  BY SameStages DEF Same
<1>3. CASE ChangeService \/ Update \/ Dispatch \/ UNCHANGED vars \/ InformProxies
  <2>1. UNCHANGED <<fresh, heard, current, subscribers, loop>>
    BY <1>3 DEF ChangeService, Update, Dispatch, Forgotten, Reported, QueueReport, StatusHandler, PushStatus,
       PushValue, InformProxies, vars, eventVars, toldVars, loopVars
  <2> QED  BY <1>2, <2>1, WaitsInvKept
<1>4. CASE CallErrorListener \/ EndErrorListener \/ TakeValue \/ EndValue
  <2>1. UNCHANGED <<fresh, heard, current, subscribers>>
    BY <1>4 DEF CallErrorListener, EndErrorListener, TakeValue, EndValue, eventVars, toldVars
  <2>2. current = {}
    BY <1>4 DEF CallErrorListener, EndErrorListener, TakeValue, EndValue, WaitsInv, Kinds
  <2> QED  BY <1>2, <2>1, <2>2 DEF WaitsInv, Telling
<1>5. ASSUME NEW p \in Proxies, TakeSubscribers(p)
      PROVE  WaitsInv'
  <2>1. /\ fresh'[p] = {} /\ UNCHANGED <<heard, loop>> /\ current = {} /\ current' = {p} /\ loop \in Kinds
        /\ loop = "initial" => subscribers' = fresh[p]
        /\ \A q \in Proxies \ {p} : fresh'[q] = fresh[q]
    BY <1>1, <1>5 DEF TakeSubscribers, NoLongerFresh, toldVars
  <2> QED  BY <1>2, <2>1 DEF WaitsInv, Telling, Kinds
<1>6. ASSUME NEW p \in Proxies, Notify(p)
      PROVE  WaitsInv'
  <2>1. /\ UNCHANGED <<fresh, loop>> /\ current = {p} /\ current' = {}
        /\ heard'[p] = heard[p] \cup Receivers(p)
        /\ \A q \in Proxies \ {p} : heard'[q] = heard[q]
    BY <1>1, <1>6 DEF Notify, eventVars
  <2>2. ASSUME NEW n \in Tags, Held(p, n), Telling(p, n) PROVE n \in Receivers(p)
    BY <2>2 DEF Held, Telling, Receivers
  <2> QED  BY <1>2, <2>1, <2>2 DEF WaitsInv, Telling
<1> QED  BY <1>3, <1>4, <1>5, <1>6 DEF Others, MainLoop, HandleValue

LEMMA WaitsInvStep ==
  ASSUME BaseInv, WaitsInv, [Next]_vars
  PROVE  WaitsInv'
BY WaitsInvProxies, WaitsInvOthers DEF Next, ProxyStep, Others

\* A value that handleProxyReceive will pass on to the proxy.
Coming(p) == Has(calls, Kinds) \/ Has(queue, Kinds) \/ (loop \in Kinds /\ p \in left)

\* It comes for everyone that waits in listeners_ and has subscribed.
ComingInv ==
  up /\ ~crossed => \A p \in Proxies : \A n \in Tags : Requested(p, n) /\ n \in fresh[p] => Coming(p)

LEMMA ComingInvKept ==
  ASSUME ComingInv, up' => up, crossed => crossed',
         \A p \in Proxies : \A n \in Tags :
           Requested(p, n)' /\ n \in fresh'[p] => Requested(p, n) /\ n \in fresh[p],
         \A p \in Proxies : Coming(p) => Coming(p)'
  PROVE  ComingInv'
BY DEF ComingInv

LEMMA ComingInvProxies ==
  ASSUME BaseInv, ComingInv, [Next]_vars, NEW p \in Proxies, ProxyStep(p)
  PROVE  ComingInv'
<1>1. calls \in Seq(Calls) /\ up \in BOOLEAN /\ fresh \in [Proxies -> SUBSET Tags]
  BY DEF BaseInv, TypeInv, ReportTypes, EventTypes
<1>2. UNCHANGED <<up, queue>> /\ (crossed => crossed')
  BY ProxyCalls, CrossedStays
<1>3. UNCHANGED <<loop, left>>
  <2>1. CASE Create(p) \/ Destroy(p) \/ Subscribing(p)
    BY <2>1 DEF Create, Destroy, Subscribing, AddEventHandler, Listen, InsertHandler, Subscribe, loopVars
  <2>2. CASE RemoveEventHandler(p) \/ AddListener(p) \/ Close(p) \/ \E n \in Tags : RemoveListener(p, n)
    BY <2>2 DEF RemoveEventHandler, AddListener, Close, RemoveListener, loopVars
  <2> QED  BY <2>1, <2>2 DEF ProxyStep, Operate
<1>4. CASE Subscribe(p)
  <2>1. SUFFICES ASSUME up, ~crossed' PROVE Has(calls', Kinds)
    BY <1>2 DEF ComingInv, Coming
  <2>2. Passes /\ calls' = calls \o Answers
    BY <1>4, <2>1 DEF Subscribe
  <2> QED  BY <1>1, <2>2, AnswersKinds, AfterConcat
<1>5. CASE ~Subscribe(p)
  <2>1. Has(calls, Kinds) => Has(calls', Kinds)
    <3>1. Report(up) \in Calls
      BY <1>1, ReportType
    <3>2. calls' = calls \/ calls' = Append(calls, Report(up))
      BY <1>5, ProxyCalls
    <3> QED  BY <1>1, <3>1, <3>2, AfterAppend
  <2>2. \A q \in Proxies : Coming(q) => Coming(q)'
    BY <1>2, <1>3, <2>1 DEF Coming
  <2>3. CASE Listen(p)
    <3>1. fresh'[p] = fresh[p] \cup {made[p]} /\ \A q \in Proxies \ {p} : fresh'[q] = fresh[q]
      BY <1>1, <2>3 DEF Listen
    <3>2. \A q \in Proxies : \A n \in Tags : Requested(q, n)' => Requested(q, n) /\ (q # p \/ n # made[p])
      <4>1. ~Requested(p, made[p])' /\ UNCHANGED made
        BY <2>3, NextStage
      <4>2. \A q \in Proxies : \A n \in Tags : q # p \/ n # made[p] => (Requested(q, n)' <=> Requested(q, n))
        BY <2>3, NextStage DEF Same
      <4> QED  BY <4>1, <4>2
    <3> QED  BY <1>2, <2>2, <3>1, <3>2, ComingInvKept
  <2>4. CASE ~Listen(p)
    <3>1. UNCHANGED fresh
      <4>1. CASE Create(p) \/ Destroy(p) \/ AddEventHandler(p) \/ InsertHandler(p) \/ RemoveEventHandler(p)
        BY <4>1 DEF Create, Destroy, AddEventHandler, InsertHandler, RemoveEventHandler, eventVars
      <4>2. CASE AddListener(p) \/ Close(p) \/ \E n \in Tags : RemoveListener(p, n)
        BY <4>2 DEF AddListener, Close, RemoveListener
      <4> QED  BY <1>5, <2>4, <4>1, <4>2 DEF ProxyStep, Operate, Subscribing
    <3>2. \A q \in Proxies : \A n \in Tags : Requested(q, n)' => Requested(q, n)
      <4>1. CASE Create(p) \/ Destroy(p) \/ AddEventHandler(p) \/ RemoveEventHandler(p)
        BY <4>1, SameStages DEF Same
      <4>2. CASE InsertHandler(p)
        <5>1. ~Requested(p, made[p])' /\ UNCHANGED made
          BY <4>2, NextStage
        <5>2. \A q \in Proxies : \A n \in Tags : q # p \/ n # made[p] => (Requested(q, n)' <=> Requested(q, n))
          BY <4>2, NextStage DEF Same
        <5> QED  BY <5>1, <5>2
      <4>3. CASE AddListener(p)
        BY <4>3, NewStage DEF Same
      <4>4. CASE Close(p) \/ \E n \in Tags : RemoveListener(p, n)
        BY <4>4, LastStage DEF Same
      <4> QED  BY <1>5, <2>4, <4>1, <4>2, <4>3, <4>4 DEF ProxyStep, Operate, Subscribing
    <3> QED  BY <1>2, <2>2, <3>1, <3>2, ComingInvKept
  <2> QED  BY <2>3, <2>4
<1> QED  BY <1>4, <1>5

\* The service comes back: vsomeip sends the initial value of an event that it
\* still has the request of.
LEMMA ComingInvService ==
  ASSUME BaseInv, ChangeService
  PROVE  ComingInv'
<1>1. /\ calls \in Seq(Calls) /\ up \in BOOLEAN /\ up' = ~up
  BY DEF BaseInv, TypeInv, ReportTypes, ChangeService, ServiceChange
<1>2. SUFFICES ASSUME ~up, ~crossed', NEW p \in Proxies, NEW n \in Tags, Requested(p, n)'
               PROVE  Has(calls', Kinds)
  BY <1>1 DEF ComingInv, Coming
<1>3. subscribedAt
  <2>1. Requested(p, n)
    BY <1>2, SameStages DEF Same, Others
  <2>2. n \in Nat
    BY DEF Tags
  <2> QED  BY <2>1, <2>2 DEF BaseInv, SubscriptionInv, ListenersKnown
<1>4. Passes
  BY <1>2, <1>3 DEF ChangeService
<1>5. PICK s : s = (IF handlerAt THEN Append(calls, Report(~up)) ELSE calls) /\ s \in Seq(Calls)
  <2>1. Report(~up) \in Calls
    BY <1>1, ReportType
  <2> QED  BY <1>1, <2>1, AppendProperties
<1>6. calls' = s \o Answers
  BY <1>2, <1>3, <1>5 DEF ChangeService, ServiceChange
<1> QED  BY <1>4, <1>5, <1>6, AnswersKinds, AfterConcat

LEMMA ComingInvDispatch ==
  ASSUME BaseInv, ComingInv, Update \/ Dispatch \/ UNCHANGED vars
  PROVE  ComingInv'
<1>1. /\ calls \in Seq(Calls) /\ queue \in Seq(Calls) /\ batch \in Seq(Subscribers) /\ DispatcherInv
  BY DEF BaseInv, TypeInv, ReportTypes, LoopTypes
<1>2. UNCHANGED <<up, crossed, fresh, loop, left>>
  BY DEF Update, Dispatch, Forgotten, Forget, Reported, BeginReport, QueueReport, EndReport, StatusHandler,
     PushStatus, PushValue, vars, proxyVars, registrationVars, reportVars, eventVars, loopVars
<1>3. \A p \in Proxies : \A n \in Tags : Requested(p, n)' => Requested(p, n)
  BY SameStages DEF Same, Others
<1>4. SUFFICES Has(calls, Kinds) \/ Has(queue, Kinds) => Has(calls', Kinds) \/ Has(queue', Kinds)
  BY <1>2, <1>3 DEF ComingInv, Coming
<1>5. CASE Update
  <2>1. UNCHANGED queue /\ calls' = Append(calls, Entry("update", <<>>))
    BY <1>5 DEF Update
  <2>2. Entry("update", <<>>) \in Calls
    BY EntryType DEF Kinds
  <2> QED  BY <1>1, <2>1, <2>2, AfterAppend
<1>6. CASE Forgotten \/ StatusHandler
  <2>1. /\ calls # <<>> /\ Head(calls).kind \notin Kinds /\ calls' = Tail(calls) /\ UNCHANGED queue
    BY <1>6 DEF Forgotten, Forget, StatusHandler, Kinds
  <2> QED  BY <1>1, <2>1, AfterTail
<1>7. CASE Reported \/ UNCHANGED vars
  <2>1. UNCHANGED <<calls, queue>>
    BY <1>7 DEF Reported, BeginReport, vars, reportVars
  <2> QED  BY <2>1
<1>8. CASE QueueReport \/ PushValue
  <2>1. calls # <<>> /\ calls' = Tail(calls) /\ queue' = Append(queue, Head(calls))
    BY <1>1, <1>8 DEF QueueReport, EndReport, PushValue, DispatcherInv
  <2>2. Head(calls) \in Calls /\ (Has(calls, Kinds) => Has(calls', Kinds) \/ Head(calls).kind \in Kinds)
    BY <1>1, <2>1, AfterTail
  <2>3. Has(queue', Kinds) <=> Has(queue, Kinds) \/ Head(calls).kind \in Kinds
    BY <1>1, <2>1, <2>2, AfterAppend
  <2> QED  BY <2>2, <2>3
<1>9. CASE PushStatus
  <2>1. UNCHANGED calls /\ queue' = Append(queue, Entry("status", Head(batch))) /\ batch # <<>>
    BY <1>1, <1>9 DEF PushStatus, DispatcherInv
  <2>2. Head(batch) \in Subscribers
    BY <1>1, <2>1, HeadTailProperties
  <2>3. Entry("status", Head(batch)) \in Calls
    BY <2>2, EntryType
  <2> QED  BY <1>1, <2>1, <2>3, AfterAppend
<1> QED  BY <1>5, <1>6, <1>7, <1>8, <1>9 DEF Dispatch

LEMMA ComingInvMainLoop ==
  ASSUME BaseInv, ComingInv, MainLoop
  PROVE  ComingInv'
<1>1. queue \in Seq(Calls) /\ fresh \in [Proxies -> SUBSET Tags]
  BY DEF BaseInv, TypeInv, ReportTypes, EventTypes
<1>2. UNCHANGED <<up, crossed, calls>>
  BY DEF MainLoop, InformProxies, HandleReport, CallErrorListener, EndErrorListener, HandleValue, TakeValue,
     EndValue, TakeSubscribers, Notify, proxyVars, registrationVars, reportVars
<1>3. \A p \in Proxies : \A n \in Tags : Requested(p, n)' => Requested(p, n)
  BY SameStages DEF Same, Others
<1>4. CASE InformProxies \/ CallErrorListener
  <2>1. /\ UNCHANGED <<fresh, left>> /\ queue # <<>> /\ queue' = Tail(queue) /\ Head(queue).kind \notin Kinds
        /\ loop \notin Kinds
    BY <1>4 DEF InformProxies, HandleReport, CallErrorListener, Kinds, eventVars, loopVars
  <2>2. Has(queue, Kinds) => Has(queue', Kinds)
    BY <1>1, <2>1, AfterTail
  <2> QED  BY <1>2, <1>3, <2>1, <2>2 DEF ComingInv, Coming
<1>5. CASE EndErrorListener \/ EndValue
  <2>1. UNCHANGED <<fresh, queue>> /\ ~(\E p : loop \in Kinds /\ p \in left)
    BY <1>5 DEF EndErrorListener, EndValue, Kinds, eventVars, reportVars
  <2> QED  BY <1>2, <1>3, <2>1 DEF ComingInv, Coming
<1>6. CASE TakeValue
  <2>1. loop' \in Kinds /\ left' = eventHandlers
    BY <1>6 DEF TakeValue
  <2>2. \A p \in Proxies : \A n \in Tags : Requested(p, n) => p \in eventHandlers
    BY DEF Requested, BaseInv, SubscriptionInv, HandlerWhileListening, ListenPlaces
  <2> QED  BY <1>3, <2>1, <2>2 DEF ComingInv, Coming
<1>7. ASSUME NEW p \in Proxies, TakeSubscribers(p)
      PROVE  ComingInv'
  <2>1. /\ fresh'[p] = {} /\ UNCHANGED <<queue, loop>> /\ left' = left \ {p}
        /\ \A q \in Proxies \ {p} : fresh'[q] = fresh[q]
    BY <1>1, <1>7 DEF TakeSubscribers, NoLongerFresh, reportVars
  <2> QED  BY <1>2, <1>3, <2>1 DEF ComingInv, Coming
<1>8. ASSUME NEW p \in Proxies, Notify(p)
      PROVE  ComingInv'
  <2>1. UNCHANGED <<fresh, queue, loop, left>>
    BY <1>8 DEF Notify, reportVars, eventVars
  <2> QED  BY <1>2, <1>3, <2>1 DEF ComingInv, Coming
<1> QED  BY <1>4, <1>5, <1>6, <1>7, <1>8 DEF MainLoop, HandleValue

LEMMA ComingInvStep ==
  ASSUME BaseInv, ComingInv, [Next]_vars
  PROVE  ComingInv'
BY ComingInvProxies, ComingInvService, ComingInvDispatch, ComingInvMainLoop DEF Next, ProxyStep

\* Everyone that listens while the service is available gets a value, also
\* after it unsubscribed and subscribed again while another value was told.
THEOREM SubscribersHear == Spec => []EveryoneHears
<1>1. BaseInv /\ WaitsInv /\ ComingInv => EveryoneHears
  <2> SUFFICES ASSUME BaseInv, WaitsInv, ComingInv, Quiet, up, ~crossed,
                      NEW p \in Proxies, NEW n \in Tags, Listening(p, n)
               PROVE  n \in heard[p]
    BY DEF EveryoneHears
  <2>1. ~Coming(p) /\ current = {}
    BY DEF Quiet, Coming, Has, WaitsInv, Kinds
  <2>2. Held(p, n) /\ Requested(p, n)
    BY DEF Listening, Held, Requested
  <2> QED  BY <2>1, <2>2 DEF WaitsInv, ComingInv, Telling
<1>2. Init => WaitsInv /\ ComingInv
  BY DEF Init, WaitsInv, ComingInv, Held, Requested
<1> QED  BY <1>1, <1>2, BaseInvInit, BaseInvStep, WaitsInvStep, ComingInvStep, PTL DEF Spec
=============================================================================
