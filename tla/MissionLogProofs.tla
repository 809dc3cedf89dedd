--------------------------- MODULE MissionLogProofs ---------------------------
(***************************************************************************)
(* Lemmas about logs and about what the core computes from them, for logs    *)
(* of any length: projection, contract and recovery decision against the     *)
(* definitions that search for no last event.                                *)
(***************************************************************************)
EXTENDS MissionLog, FiniteSetTheorems, SequenceTheorems, WellFoundedInduction,
        TLAPS

-----------------------------------------------------------------------------
(* Maxima                                                                    *)

\* A non-empty set of positions has a last one: the one with the fewest after it.
LEMMA LastExists ==
    ASSUME NEW n \in Nat, NEW S \in SUBSET (1..n), S # {}
    PROVE  \E i \in S : \A j \in S : j <= i
<1> DEFINE N == 1..n
           After(i) == {j \in S : i < j}
           Tails == {After(i) : i \in S}
           R == StrictSubsetOrdering(N)
<1>1. IsFiniteSet(N)
  BY FS_Interval
<1>2. IsWellFoundedOn(R, SUBSET N)
  BY <1>1, FS_StrictSubsetOrderingWellFounded, FS_FiniteSubsetsOfFinite
<1>3. Tails \subseteq SUBSET N /\ Tails # {}
  OBVIOUS
<1>4. PICK t \in Tails : \A u \in Tails : <<u, t>> \notin R
  <2> HIDE DEF N, R, Tails
  <2>1. \E t \in Tails : \A u \in Tails : ~ (<<u, t>> \in R)
    BY <1>2, <1>3, WFMin, Zenon
  <2> QED BY <2>1, Zenon
<1>5. PICK i \in S : t = After(i)
  BY <1>4
<1>6. ASSUME NEW j \in S, i < j
      PROVE  FALSE
  <2>0. S \subseteq Int
    OBVIOUS
  <2>1. After(j) \subseteq After(i) /\ j \in After(i) /\ j \notin After(j)
    <3>1. \A k \in S : j < k => i < k
      BY <1>6, <2>0
    <3>2. ~ (j < j)
      BY <2>0
    <3> QED BY <1>6, <3>1, <3>2
  <2>2. After(j) \in Tails /\ After(j) \in SUBSET N /\ t \in SUBSET N
    BY <1>5
  <2>3. <<After(j), t>> \in R
    BY <1>5, <2>1, <2>2 DEF StrictSubsetOrdering
  <2> QED BY <1>4, <2>2, <2>3
<1>7. \A j \in S : j <= i
  BY <1>6
<1> QED BY <1>7

\* last_event: the greatest sequence number, or 0 when there is none.
LEMMA LastSequenceIsLast ==
    ASSUME NEW n \in Nat, NEW S \in SUBSET (1..n)
    PROVE  /\ LastSequence(S) \in 0..n
           /\ S = {} => LastSequence(S) = 0
           /\ S # {} => LastSequence(S) \in S
           /\ \A j \in S : j <= LastSequence(S)
<1>1. CASE S = {}
  BY <1>1 DEF LastSequence
<1>2. CASE S # {}
  <2>1. \E i \in S : \A j \in S : j <= i
    BY <1>2, LastExists
  <2>2. LastSequence(S) \in S /\ \A j \in S : j <= LastSequence(S)
    BY <1>2, <2>1 DEF LastSequence
  <2>3. \A i \in S : i \in 0..n
    OBVIOUS
  <2>4. LastSequence(S) \in 0..n
    BY <2>2, <2>3, Zenon
  <2> QED BY <1>2, <2>2, <2>4, Zenon
<1> QED BY <1>1, <1>2

-----------------------------------------------------------------------------
(* Logs                                                                      *)

IsLog(s) == s \in Seq({s[i] : i \in DOMAIN s})

\* t is s with events appended.
Extends(s, t) ==
    /\ IsLog(s) /\ IsLog(t)
    /\ Len(s) <= Len(t)
    /\ \A i \in 1..Len(s) : t[i] = s[i]

\* Every sequence is a log.
LEMMA SeqIsLog ==
    ASSUME NEW T, NEW s \in Seq(T)
    PROVE  IsLog(s)
<1>1. Len(s) \in Nat /\ DOMAIN s = 1..Len(s) /\ s \in [1..Len(s) -> T]
  BY LenProperties
<1> DEFINE U == {s[i] : i \in DOMAIN s}
<1>2. s \in [1..Len(s) -> U]
  BY <1>1
<1>3. s \in Seq(U)
  BY <1>1, <1>2, SeqDef
<1> QED BY <1>3 DEF IsLog

\* The positions of a log are the numbers from 1 to its length.
LEMMA LogShape ==
    ASSUME NEW s, IsLog(s)
    PROVE  Len(s) \in Nat /\ DOMAIN s = 1..Len(s)
BY DEF IsLog

\* An append extends a log by one event, the last.
LEMMA AppendLog ==
    ASSUME NEW s, IsLog(s), NEW e
    PROVE  /\ Extends(s, Append(s, e))
           /\ Len(Append(s, e)) = Len(s) + 1
           /\ Append(s, e)[Len(s) + 1] = e
<1> DEFINE T == {s[i] : i \in DOMAIN s} \cup {e}
           u == Append(s, e)
<1>1. s \in Seq(T)
  BY DEF IsLog
<1>2. u \in Seq(T) /\ Len(u) = Len(s) + 1 /\ Len(s) \in Nat
  BY <1>1
<1>3. u[Len(s) + 1] = e /\ \A i \in 1..Len(s) : u[i] = s[i]
  BY <1>1
<1>4. IsLog(u)
  BY <1>2, SeqIsLog
<1> QED BY <1>2, <1>3, <1>4 DEF Extends

\* A prefix of a log is a log of its own.
LEMMA PrefixLog ==
    ASSUME NEW s, IsLog(s), NEW n \in 0..Len(s)
    PROVE  /\ IsLog(SubSeq(s, 1, n)) /\ Len(SubSeq(s, 1, n)) = n
           /\ \A i \in 1..n : SubSeq(s, 1, n)[i] = s[i]
<1>1. Len(s) \in Nat /\ s \in Seq({s[i] : i \in DOMAIN s})
  BY DEF IsLog
<1>2. SubSeq(s, 1, n) \in Seq({s[i] : i \in DOMAIN s})
  BY <1>1
<1>3. Len(SubSeq(s, 1, n)) = n /\ \A i \in 1..n : SubSeq(s, 1, n)[i] = s[i]
  BY <1>1
<1>4. IsLog(SubSeq(s, 1, n))
  BY <1>2, SeqIsLog
<1> QED BY <1>3, <1>4

\* What was read of a log stays what it was.
LEMMA PrefixStays ==
    ASSUME NEW s, NEW t, Extends(s, t), NEW n \in 0..Len(s)
    PROVE  SubSeq(t, 1, n) = SubSeq(s, 1, n)
<1>1. Len(s) \in Nat /\ Len(t) \in Nat /\ n \in 0..Len(t)
  BY LogShape DEF Extends
<1>2. /\ IsLog(SubSeq(s, 1, n)) /\ IsLog(SubSeq(t, 1, n))
      /\ Len(SubSeq(s, 1, n)) = n /\ Len(SubSeq(t, 1, n)) = n
      /\ \A i \in 1..n : SubSeq(s, 1, n)[i] = SubSeq(t, 1, n)[i]
  BY <1>1, PrefixLog DEF Extends
<1> DEFINE u == SubSeq(s, 1, n)
           v == SubSeq(t, 1, n)
           T == {u[i] : i \in DOMAIN u} \cup {v[i] : i \in DOMAIN v}
<1>3. u \in Seq(T) /\ v \in Seq(T)
  <2>1. u \in Seq({u[i] : i \in DOMAIN u}) /\ v \in Seq({v[i] : i \in DOMAIN v})
    BY <1>2 DEF IsLog
  <2> HIDE DEF u, v
  <2> QED BY <2>1
<1> HIDE DEF u, v, T
<1>4. Len(u) = Len(v) /\ \A i \in 1..Len(u) : u[i] = v[i]
  BY <1>2 DEF u, v
<1>5. u = v
  BY <1>3, <1>4, SeqEqual
<1> QED BY <1>5 DEF u, v

\* An append adds at most one occurrence of an event, the last.
LEMMA PositionsAppend ==
    ASSUME NEW s, IsLog(s), NEW e, NEW x
    PROVE  LET u == Append(s, e) IN
           {i \in 1..Len(u) : u[i] = x} =
              {i \in 1..Len(s) : s[i] = x} \cup IF e = x THEN {Len(s) + 1} ELSE {}
<1> DEFINE u == Append(s, e)
           n == Len(s)
<1>1. Len(u) = n + 1 /\ u[n + 1] = e /\ (\A i \in 1..n : u[i] = s[i]) /\ n \in Nat
  BY AppendLog, LogShape DEF Extends
<1> HIDE DEF u, n
<1>2. \A i \in 1..n + 1 : i \in 1..n \/ i = n + 1
  BY <1>1
<1>3. \A i \in 1..n : i \in 1..n + 1 /\ i # n + 1
  BY <1>1
<1>4. n + 1 \in 1..n + 1
  BY <1>1
<1>5. {i \in 1..n + 1 : u[i] = x} =
          {i \in 1..n : s[i] = x} \cup IF e = x THEN {n + 1} ELSE {}
  BY <1>1, <1>2, <1>3, <1>4
<1> QED BY <1>1, <1>5 DEF u, n

\* An action is without an outcome after an append when it is claimed by it, or was
\* without one and is not settled by it.
LEMMA UnsettledAppend ==
    ASSUME NEW s, IsLog(s), NEW e, NEW a \in Actions
    PROVE  a \in Unsettled(Append(s, e)) <=>
              e = ActionStarted(a) \/ (a \in Unsettled(s) /\ e # ActionSettled(a))
<1> DEFINE u == Append(s, e)
           n == Len(s)
           Open(q, i) == /\ q[i] = ActionStarted(a)
                         /\ \A j \in i + 1..Len(q) : q[j] # ActionSettled(a)
<1>1. Len(u) = n + 1 /\ u[n + 1] = e /\ (\A i \in 1..n : u[i] = s[i]) /\ n \in Nat
  BY AppendLog, LogShape DEF Extends
<1>2. /\ a \in Unsettled(u) <=> \E i \in 1..Len(u) : Open(u, i)
      /\ a \in Unsettled(s) <=> \E i \in 1..n : Open(s, i)
  BY Zenon DEF Unsettled
<1> HIDE DEF u, n
<1>3. Open(u, n + 1) <=> e = ActionStarted(a)
  <2>1. \A j \in n + 1 + 1..n + 1 : FALSE
    BY <1>1
  <2> QED BY <1>1, <2>1
<1>4. ASSUME NEW i \in 1..n
      PROVE  Open(u, i) <=> Open(s, i) /\ e # ActionSettled(a)
  <2>1. \A j \in i + 1..n + 1 : j \in i + 1..n \/ j = n + 1
    BY <1>1
  <2>2. n + 1 \in i + 1..n + 1 /\ \A j \in i + 1..n : j \in i + 1..n + 1 /\ j \in 1..n
    BY <1>1
  <2>3. (\A j \in i + 1..n + 1 : u[j] # ActionSettled(a)) <=>
            (\A j \in i + 1..n : s[j] # ActionSettled(a)) /\ e # ActionSettled(a)
    BY <1>1, <2>1, <2>2
  <2> QED BY <1>1, <2>3 DEF n
<1>5. \A i \in 1..Len(u) : i \in 1..n \/ i = n + 1
  BY <1>1
<1>6. n + 1 \in 1..Len(u) /\ \A i \in 1..n : i \in 1..Len(u)
  BY <1>1
<1>7. ActionStarted(a) # ActionSettled(a)
  BY DEF ActionStarted, ActionSettled
<1> HIDE DEF Open
<1> QED BY <1>2, <1>3, <1>4, <1>5, <1>6, <1>7 DEF u

-----------------------------------------------------------------------------
(* The success contract *)

\* evaluate_contract accepts exactly what is proven: the last trusted word on every
\* clause is that it holds.
LEMMA ContractIsProved ==
    ASSUME NEW s, IsLog(s),
           \A i \in 1..Len(s) : s[i].type = "EVIDENCE_RECORDED" =>
              \E o \in Origins, c \in Clauses, ok \in BOOLEAN :
                  s[i] = EvidenceRecorded(o, c, ok)
    PROVE  ContractSatisfied(s) <=> Proved(s)
<1> DEFINE n == Len(s)
           trusted == Origins \ {"EXTERNAL_AGENT"}
           ProvenBy(c) ==
               \E i \in 1..n, o \in trusted :
                  /\ s[i] = EvidenceRecorded(o, c, TRUE)
                  /\ \A j \in i + 1..n, q \in trusted :
                        s[j] # EvidenceRecorded(q, c, FALSE)
<1>1. n \in Nat
  BY LogShape
<1> SUFFICES ASSUME NEW c \in Clauses
             PROVE  Proven(s, c) <=> ProvenBy(c)
  BY DEF Proved, ContractSatisfied
<1> DEFINE K == TrustedEvidence(s, c)
           i == LastSequence(K)
<1>2. K \in SUBSET (1..n)
  BY DEF TrustedEvidence
<1>3. /\ K = {} => i = 0
      /\ K # {} => i \in K
      /\ \A j \in K : j <= i
  <2> HIDE DEF K
  <2> QED BY <1>1, <1>2, LastSequenceIsLast
<1>4. \A j \in K : \E o \in trusted, ok \in BOOLEAN : s[j] = EvidenceRecorded(o, c, ok)
  <2> SUFFICES ASSUME NEW j \in K
               PROVE  \E o \in trusted, ok \in BOOLEAN : s[j] = EvidenceRecorded(o, c, ok)
    OBVIOUS
  <2>1. /\ j \in 1..n /\ s[j].type = "EVIDENCE_RECORDED"
        /\ s[j].evidence = c /\ s[j].origin \in trusted
    BY DEF TrustedEvidence, TrustedOrigins, Origins
  <2>2. PICK o \in Origins, d \in Clauses, ok \in BOOLEAN : s[j] = EvidenceRecorded(o, d, ok)
    BY <2>1
  <2>3. d = c /\ o \in trusted
    BY <2>1, <2>2 DEF EvidenceRecorded
  <2> QED BY <2>2, <2>3
<1>5. \A j \in 1..n, o \in trusted, ok \in BOOLEAN :
          s[j] = EvidenceRecorded(o, c, ok) => j \in K /\ s[j].ok = ok
  BY DEF TrustedEvidence, TrustedOrigins, Origins, EvidenceRecorded
<1>6. Proven(s, c) <=> i > 0 /\ s[i].ok
  BY DEF Proven
<1> HIDE DEF K, i, n, trusted
<1>7. ASSUME i > 0 /\ s[i].ok
      PROVE  ProvenBy(c)
  <2>1. i \in K /\ i \in 1..n
    <3>1. i # 0
      BY <1>7
    <3> QED BY <1>2, <1>3, <3>1
  <2>2. PICK o \in trusted, ok \in BOOLEAN : s[i] = EvidenceRecorded(o, c, ok)
    BY <1>4, <2>1
  <2>3. s[i] = EvidenceRecorded(o, c, TRUE)
    BY <1>7, <2>2 DEF EvidenceRecorded
  <2>4. \A j \in i + 1..n : j \in 1..n /\ j \notin K
    BY <1>1, <1>3, <2>1
  <2>5. \A j \in i + 1..n, q \in trusted : s[j] # EvidenceRecorded(q, c, FALSE)
    BY <1>5, <2>4
  <2> QED BY <2>1, <2>3, <2>5
<1>8. ASSUME ProvenBy(c)
      PROVE  i > 0 /\ s[i].ok
  <2>1. PICK k \in 1..n, o \in trusted :
            /\ s[k] = EvidenceRecorded(o, c, TRUE)
            /\ \A j \in k + 1..n, q \in trusted : s[j] # EvidenceRecorded(q, c, FALSE)
    BY <1>8
  <2>2. k \in K /\ k <= i /\ i \in K /\ i \in k..n
    <3>1. k \in K
      BY <1>5, <2>1
    <3>2. k <= i /\ i \in 1..n /\ i \in K
      BY <1>2, <1>3, <3>1
    <3> QED BY <1>1, <3>1, <3>2
  <2>3. PICK q \in trusted, ok \in BOOLEAN : s[i] = EvidenceRecorded(q, c, ok)
    BY <1>4, <2>2
  <2>4. ok = TRUE
    <3>1. CASE i = k
      BY <1>5, <2>1, <2>2, <2>3, <3>1
    <3>2. CASE i # k
      <4>1. i \in k + 1..n
        BY <1>1, <2>2, <3>2
      <4>2. s[i] # EvidenceRecorded(q, c, FALSE)
        BY <2>1, <4>1
      <4> QED BY <2>3, <4>2
    <3> QED BY <3>1, <3>2
  <2>5. s[i].ok
    BY <2>3, <2>4 DEF EvidenceRecorded
  <2> QED BY <1>1, <2>2, <2>5
<1> QED BY <1>6, <1>7, <1>8

-----------------------------------------------------------------------------
(* The recovery decision                                                     *)

\* What recover may decide of a chain that verifies, with the environment intact.
Verdicts == {Decision("reconcile", "reconcile"),
             Decision("request_review", "confirm_progress"),
             Decision("verified_complete", "none"),
             Decision("continue", "close_mission"),
             Decision("continue", "continue_work")}

\* What it may decide of a chain that verifies, in any environment.
Advices == Verdicts \cup {Decision("repair", "revalidate"), Decision("repair", "prove")}

\* Every decision of recover has its place in the order of severity.
LEMMA AdviceIsGraded ==
    \A d \in Advices : d.mode \in DOMAIN Severity /\ Severity[d.mode] \in 0..6
<1> SUFFICES ASSUME NEW d \in Advices
             PROVE  d.mode \in DOMAIN Severity /\ Severity[d.mode] \in 0..6
  OBVIOUS
<1>1. d.mode \in DOMAIN Severity
  BY DEF Advices, Verdicts, Decision, Severity
<1> QED BY <1>1 DEF Severity

\* Candidates that open with the most severe of them.
Descends(cs) ==
    /\ cs \in Seq(Advices) /\ Len(cs) # 0
    /\ \A j \in 1..Len(cs) : Severity[cs[j].mode] <= Severity[cs[1].mode]

\* max takes the first of the most severe: of such candidates, the one they open with.
LEMMA FirstOfTheWorst ==
    ASSUME NEW cs, Descends(cs)
    PROVE  Winner(cs) = cs[1] /\ cs[1] \in Advices
<1> DEFINE n == Len(cs)
           severity(i) == Severity[cs[i].mode]
           best(i) ==
               \A j \in 1..n : \/ severity(j) < severity(i)
                               \/ severity(j) = severity(i) /\ i <= j
<1>1. n \in Nat \ {0} /\ \A i \in 1..n : cs[i] \in Advices
  BY LenProperties, ElementOfSeq DEF Descends
<1>2. \A i \in 1..n : severity(i) \in 0..6 /\ severity(i) <= severity(1)
  BY <1>1, AdviceIsGraded DEF Descends
<1>3. Winner(cs) = cs[CHOOSE i \in 1..n : best(i)]
  BY Zenon DEF Winner
<1> HIDE DEF n, severity
<1>4. 1 \in 1..n /\ best(1)
  BY <1>1, <1>2
<1>5. \A i \in 1..n : best(i) => i = 1
  BY <1>1, <1>2
<1>6. (CHOOSE i \in 1..n : best(i)) = 1
  BY <1>4, <1>5
<1> QED BY <1>1, <1>3, <1>4, <1>6

\* Such candidates, with none more severe than d.
Below(cs, d) == Descends(cs) /\ Severity[cs[1].mode] <= Severity[d.mode]

\* A signal at least as severe as every later one comes out on top when it is raised,
\* and changes nothing when it is not.
LEMMA SignalDescends ==
    ASSUME NEW d \in Advices, NEW s \in {<< >>, <<d>>}, NEW cs, Below(cs, d)
    PROVE  /\ s \in Seq(Advices)
           /\ Descends(s \o cs)
           /\ s = << >> => (s \o cs)[1] = cs[1]
           /\ s = <<d>> => (s \o cs)[1] = d
<1>0. << >> # <<d>> /\ Descends(cs) /\ Severity[cs[1].mode] <= Severity[d.mode]
  BY DEF Below
<1>1. CASE s = << >>
  <2>1. cs \in Seq(Advices)
    BY <1>0 DEF Descends
  <2>2. << >> \o cs = cs /\ << >> \in Seq(Advices)
    BY <2>1, ConcatEmptySeq
  <2> QED BY <1>0, <1>1, <2>2
<1>2. CASE s = <<d>>
  <2> DEFINE q == <<d>>
             u == q \o cs
             n == Len(cs)
  <2>2. q \in Seq(Advices) /\ Len(q) = 1 /\ q[1] = d
    OBVIOUS
  <2>3. cs \in Seq(Advices) /\ n \in Nat \ {0}
    BY <1>0, LenProperties DEF Descends
  <2> HIDE DEF q, n
  <2>4. /\ u \in Seq(Advices) /\ Len(u) = 1 + n
        /\ \A i \in 1..1 + n : u[i] = IF i <= 1 THEN q[i] ELSE cs[i - 1]
    <3>1. /\ q \o cs \in Seq(Advices) /\ Len(q \o cs) = Len(q) + Len(cs)
          /\ \A i \in 1..Len(q) + Len(cs) :
                (q \o cs)[i] = IF i <= Len(q) THEN q[i] ELSE cs[i - Len(q)]
      BY <2>2, <2>3, ConcatProperties
    <3> QED BY <2>2, <3>1 DEF n
  <2> HIDE DEF u
  <2>5. u[1] = d /\ \A i \in 2..1 + n : i - 1 \in 1..n /\ u[i] = cs[i - 1]
    BY <2>2, <2>3, <2>4
  <2>6. /\ Severity[d.mode] \in Int
        /\ \A j \in 1..n : Severity[cs[j].mode] \in Int
                           /\ Severity[cs[j].mode] <= Severity[cs[1].mode]
    <3>1. \A j \in 1..n : cs[j] \in Advices /\ Severity[cs[j].mode] <= Severity[cs[1].mode]
      BY <1>0, <2>3, ElementOfSeq DEF Descends, n
    <3> QED BY <3>1, AdviceIsGraded
  <2>7. ASSUME NEW i \in 1..Len(u)
        PROVE  Severity[u[i].mode] <= Severity[u[1].mode]
    <3>1. i = 1 \/ i \in 2..1 + n
      BY <2>3, <2>4, <2>7
    <3>2. CASE i = 1
      BY <2>5, <2>6, <3>2
    <3>3. CASE i \in 2..1 + n
      <4>1. i - 1 \in 1..n /\ 1 \in 1..n /\ u[i] = cs[i - 1]
        BY <2>3, <2>5, <3>3
      <4> QED BY <1>0, <2>5, <2>6, <4>1
    <3> QED BY <3>1, <3>2, <3>3
  <2>8. Descends(u) /\ u[1] = d
    BY <2>3, <2>4, <2>5, <2>7 DEF Descends
  <2> QED BY <1>0, <1>2, <2>2, <2>8 DEF u, q
<1> QED BY <1>1, <1>2

\* The signal of recover is what the reference definition says.
LEMMA UnconfirmedIsNotVouched ==
    ASSUME NEW s, IsLog(s)
    PROVE  UnconfirmedExternalProgress(s) <=> ~ Vouched(s)
<1> DEFINE n == Len(s)
           W == {i \in 1..n : IsExternalWork(s[i])}
           C == {i \in 1..n : IsConfirmation(s[i])}
<1>1. n \in Nat
  BY LogShape
<1>2. \A i \in W : i \notin C
  BY DEF IsExternalWork, IsConfirmation
<1>3. UnconfirmedExternalProgress(s) <=> LastSequence(W) > LastSequence(C)
  BY DEF UnconfirmedExternalProgress, SequencesWhere
<1>4. Vouched(s) <=> \A i \in W : \E j \in i + 1..n : j \in C
  BY <1>1 DEF Vouched
<1>5. W \in SUBSET (1..n) /\ C \in SUBSET (1..n)
  OBVIOUS
<1>6. /\ LastSequence(W) \in 0..n /\ LastSequence(C) \in 0..n
      /\ W = {} => LastSequence(W) = 0
      /\ W # {} => LastSequence(W) \in W
      /\ C # {} => LastSequence(C) \in C
      /\ C = {} => LastSequence(C) = 0
      /\ \A i \in W : i <= LastSequence(W)
      /\ \A i \in C : i <= LastSequence(C)
  BY <1>1, <1>5, LastSequenceIsLast
<1> HIDE DEF n, W, C
<1>7. ASSUME LastSequence(W) > LastSequence(C)
      PROVE  \E i \in W : \A j \in i + 1..n : j \notin C
  <2>1. LastSequence(W) \in W
    BY <1>1, <1>6, <1>7
  <2>2. \A j \in LastSequence(W) + 1..n : j \notin C
    BY <1>1, <1>6, <1>7
  <2> QED BY <2>1, <2>2
<1>8. ASSUME NEW i \in W, \A j \in i + 1..n : j \notin C
      PROVE  LastSequence(W) > LastSequence(C)
  <2>0. i \in 1..n /\ i <= LastSequence(W)
    BY <1>5, <1>6
  <2>1. CASE C = {}
    BY <1>1, <1>6, <2>0, <2>1
  <2>2. CASE C # {}
    <3>1. LastSequence(C) \in C /\ LastSequence(C) # i
      BY <1>2, <1>6, <2>2
    <3>2. LastSequence(C) \notin i + 1..n
      BY <1>8, <3>1
    <3> QED BY <1>1, <1>6, <2>0, <3>1, <3>2
  <2> QED BY <2>1, <2>2
<1> QED BY <1>3, <1>4, <1>7, <1>8

\* recover raises its signals in descending severity, so its decision is the
\* precedence of README.md: the first that applies, whatever else does.
LEMMA RecoveredByPrecedence ==
    ASSUME NEW s, IsLog(s), NEW effects,
           NEW drifted \in BOOLEAN, NEW hasContract \in BOOLEAN,
           hasContract => (ContractSatisfied(s) <=> Proved(s))
    PROVE  Recovered(s, effects, drifted, hasContract)
              = Precedence(s, effects, drifted, hasContract)
<1> DEFINE reconcile == Decision("reconcile", "reconcile")
           review == Decision("request_review", "confirm_progress")
           repair == Decision("repair", "revalidate")
           last == IF Terminal(s)
                   THEN IF hasContract /\ ~ContractSatisfied(s)
                        THEN Decision("repair", "prove")
                        ELSE Decision("verified_complete", "none")
                   ELSE IF Total > 0 /\ Cardinality(Completed(s)) >= Total
                        THEN Decision("continue", "close_mission")
                        ELSE Decision("continue", "continue_work")
           waiting == effects # {}
           unvouched == UnconfirmedExternalProgress(s)
           s1 == If(waiting, reconcile)
           s2 == If(unvouched, review)
           s3 == If(drifted, repair)
           s4 == <<last>>
           r3 == s3 \o s4
           r2 == s2 \o r3
           r1 == s1 \o r2
<1>1. Recovered(s, effects, drifted, hasContract) = Winner(s1 \o s2 \o s3 \o s4)
  BY DEF Recovered, Candidates
<1>2. /\ reconcile \in Advices /\ review \in Advices /\ repair \in Advices /\ last \in Advices
      /\ Severity[reconcile.mode] = 5 /\ Severity[review.mode] = 4
      /\ Severity[repair.mode] = 3 /\ Severity[last.mode] \in 0..3
  BY DEF Advices, Verdicts, Decision, Severity
<1>3. waiting \in BOOLEAN /\ unvouched \in BOOLEAN
  BY DEF UnconfirmedExternalProgress
<1>4. Terminal(s) <=> IsClosed(s)
  BY DEF Terminal, SequencesWhere, IsClosed
<1>5. last = IF IsClosed(s) /\ hasContract /\ ~Proved(s) THEN Decision("repair", "prove") ELSE
             IF IsClosed(s) THEN Decision("verified_complete", "none") ELSE
             IF Total > 0 /\ Cardinality(Completed(s)) >= Total
             THEN Decision("continue", "close_mission")
             ELSE Decision("continue", "continue_work")
  BY <1>4
<1> HIDE DEF last, reconcile, review, repair, waiting, unvouched
<1>6. Descends(s4) /\ s4 \in Seq(Advices) /\ s4[1] = last
  <2>1. s4 \in Seq(Advices) /\ Len(s4) = 1 /\ s4[1] = last
    BY <1>2
  <2>2. \A j \in 1..1 : j = 1
    OBVIOUS
  <2> QED BY <1>2, <2>1, <2>2 DEF Descends
<1> HIDE DEF s4
<1>7. /\ s3 \in Seq(Advices) /\ Descends(r3)
      /\ drifted => r3[1] = repair
      /\ ~drifted => r3[1] = last
  <2>1. Below(s4, repair)
    BY <1>2, <1>6 DEF Below
  <2>2. s3 = IF drifted THEN <<repair>> ELSE << >>
    BY DEF If
  <2> HIDE DEF s3
  <2> QED BY <1>2, <1>6, <2>1, <2>2, SignalDescends
<1> HIDE DEF s3, r3
<1>8. /\ s2 \in Seq(Advices) /\ Descends(r2)
      /\ unvouched => r2[1] = review
      /\ ~unvouched => r2[1] = r3[1]
  <2>1. Below(r3, review)
    BY <1>2, <1>7 DEF Below
  <2>2. s2 = IF unvouched THEN <<review>> ELSE << >>
    BY DEF If
  <2> HIDE DEF s2
  <2> QED BY <1>2, <1>7, <2>1, <2>2, SignalDescends
<1> HIDE DEF s2, r2
<1>9. /\ s1 \in Seq(Advices) /\ Descends(r1)
      /\ waiting => r1[1] = reconcile
      /\ ~waiting => r1[1] = r2[1]
  <2>1. Below(r2, reconcile)
    BY <1>2, <1>7, <1>8 DEF Below
  <2>2. s1 = IF waiting THEN <<reconcile>> ELSE << >>
    BY DEF If
  <2> HIDE DEF s1
  <2> QED BY <1>2, <1>8, <2>1, <2>2, SignalDescends
<1> HIDE DEF s1, r1
<1>10. s1 \o s2 \o s3 \o s4 = r1
  <2>1. (s1 \o s2) \o s3 = s1 \o (s2 \o s3) /\ s2 \o s3 \in Seq(Advices)
    BY <1>7, <1>8, <1>9, ConcatAssociative, ConcatProperties
  <2>2. (s1 \o (s2 \o s3)) \o s4 = s1 \o ((s2 \o s3) \o s4)
    BY <1>6, <1>9, <2>1, ConcatAssociative
  <2>3. (s2 \o s3) \o s4 = s2 \o (s3 \o s4)
    BY <1>6, <1>7, <1>8, ConcatAssociative
  <2> QED BY <2>1, <2>2, <2>3 DEF r1, r2, r3
<1>11. Recovered(s, effects, drifted, hasContract)
          = IF waiting THEN reconcile ELSE IF unvouched THEN review ELSE
            IF drifted THEN repair ELSE last
  BY <1>1, <1>7, <1>8, <1>9, <1>10, FirstOfTheWorst
<1>12. unvouched <=> ~Vouched(s)
  BY UnconfirmedIsNotVouched DEF unvouched
<1> QED BY <1>5, <1>11, <1>12 DEF Precedence, waiting, reconcile, review, repair

\* Of a chain that verifies, recover decides to reconcile over an uncertain effect,
\* and never safely over work that nobody vouches for.
LEMMA RecoveredIsCautious ==
    ASSUME NEW s, IsLog(s), NEW effects
    PROVE  LET d == Recovered(s, effects, FALSE, FALSE) IN
           /\ d \in Verdicts
           /\ effects # {} => d = Decision("reconcile", "reconcile")
           /\ ~ Vouched(s) => d.mode \notin SafeModes
<1> DEFINE d == Recovered(s, effects, FALSE, FALSE)
<1>1. d = Precedence(s, effects, FALSE, FALSE)
  BY RecoveredByPrecedence
<1> HIDE DEF d
<1>2. d =
          IF effects # {} THEN Decision("reconcile", "reconcile") ELSE
          IF ~ Vouched(s) THEN Decision("request_review", "confirm_progress") ELSE
          IF IsClosed(s) THEN Decision("verified_complete", "none") ELSE
          IF Total > 0 /\ Cardinality(Completed(s)) >= Total
          THEN Decision("continue", "close_mission")
          ELSE Decision("continue", "continue_work")
  BY <1>1 DEF Precedence
<1>3. effects # {} => d = Decision("reconcile", "reconcile")
  BY <1>2
<1>4. ~ Vouched(s) => d \in {Decision("reconcile", "reconcile"),
                            Decision("request_review", "confirm_progress")}
  BY <1>2
<1>5. d \in Verdicts
  BY <1>2 DEF Verdicts
<1>6. ~ Vouched(s) => d.mode \notin SafeModes
  BY <1>4 DEF Decision, SafeModes
<1> QED BY <1>3, <1>5, <1>6 DEF d
=============================================================================
