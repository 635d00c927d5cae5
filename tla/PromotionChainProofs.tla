------------------------ MODULE PromotionChainProofs ------------------------
(***************************************************************************)
(* What the verify functions establish of a chain of promotion packets,    *)
(* for all handoffs, contracts, candidates, references, reviews and times, *)
(* and whatever was changed by hand in a chain that was built.             *)
(***************************************************************************)
EXTENDS PromotionChain, WellFoundedInduction, TLAPS

-----------------------------------------------------------------------------
(* Induction, without an operator parameter *)

\* A set of naturals that is not empty has a least element.
LEMMA LeastNat ==
  ASSUME NEW T, T \subseteq Nat, T # {}
  PROVE  \E x \in T : \A y \in T : x <= y
<1>1. PICK x \in T : \A y \in T : ~(<<y, x>> \in OpToRel(<, Nat))
  BY WFMin, NatLessThanWellFounded
<1>2. \A y \in T : ~(y < x)
  BY <1>1 DEF OpToRel
<1>3. ASSUME NEW y \in T PROVE x <= y
  <2>1. x \in Nat /\ y \in Nat
    BY <1>1
  <2>2. QED
    BY <1>2, <2>1
<1>4. QED
  BY <1>1, <1>3

\* A set that has 0 and is closed under successors has all numbers up to m.
LEMMA InductionUpTo ==
  ASSUME NEW m \in Nat, NEW T, 0 \in T, \A n \in 0 .. m - 1 : n \in T => n + 1 \in T
  PROVE  \A n \in 0 .. m : n \in T
<1> DEFINE U == {n \in 0 .. m : n \notin T}
<1>1. SUFFICES ASSUME U # {} PROVE FALSE
  OBVIOUS
<1>2. U \subseteq Nat
  OBVIOUS
<1>3. PICK x \in U : \A y \in U : x <= y
  <2> HIDE DEF U
  <2>1. QED
    BY <1>1, <1>2, LeastNat
<1>4. x \in 0 .. m /\ x # 0 /\ x \notin T
  BY <1>3
<1>5. x - 1 \in 0 .. m - 1 /\ x - 1 \notin U
  BY <1>3, <1>4
<1>6. QED
  BY <1>4, <1>5

-----------------------------------------------------------------------------
(* Sequences of packets *)

IsSeq(s) == \E S : s \in Seq(S)

\* The length and the domain of a sequence.
LEMMA SeqFacts ==
  ASSUME NEW s, IsSeq(s)
  PROVE  Len(s) \in Nat /\ DOMAIN s = 1 .. Len(s)
BY DEF IsSeq

\* The chain before its first packet.
LEMMA EmptySeq == IsSeq(<<>>) /\ Len(<<>>) = 0
<1>1. <<>> \in Seq({})
  OBVIOUS
<1>2. QED
  BY <1>1 DEF IsSeq

\* A chain with one more packet.
LEMMA SeqAppend ==
  ASSUME NEW s, IsSeq(s), NEW e
  PROVE  /\ IsSeq(Append(s, e)) /\ Len(Append(s, e)) = Len(s) + 1
         /\ \A i \in 1 .. Len(s) : Append(s, e)[i] = s[i]
         /\ Append(s, e)[Len(s) + 1] = e
<1>1. PICK S : s \in Seq(S)
  BY DEF IsSeq
<1> DEFINE T == S \union {e}
<1>2. s \in Seq(T) /\ e \in T
  BY <1>1
<1> HIDE DEF T
<1>3. Append(s, e) \in Seq(T)
  BY <1>2
<1>4. QED
  BY <1>2, <1>3 DEF IsSeq

\* The packets before a stage are a chain of their own.
LEMMA SeqPrefix ==
  ASSUME NEW s, IsSeq(s), NEW k \in 0 .. Len(s)
  PROVE  /\ IsSeq(Prefix(s, k)) /\ Len(Prefix(s, k)) = k
         /\ \A i \in 1 .. k : Prefix(s, k)[i] = s[i]
<1>1. PICK S : s \in Seq(S)
  BY DEF IsSeq
<1>2. SubSeq(s, 1, k) \in Seq(S) /\ Len(SubSeq(s, 1, k)) = k
  BY <1>1
<1>3. \A i \in 1 .. k : SubSeq(s, 1, k)[i] = s[i]
  BY <1>1
<1>4. QED
  BY <1>2, <1>3 DEF Prefix, IsSeq

\* The packets after a stage.
LEMMA SeqSuffix ==
  ASSUME NEW s, IsSeq(s), NEW k \in 0 .. Len(s)
  PROVE  LET t == SubSeq(s, k + 1, Len(s))
         IN  IsSeq(t) /\ Len(t) = Len(s) - k /\ \A i \in 1 .. Len(s) - k : t[i] = s[k + i]
<1>1. PICK S : s \in Seq(S)
  BY DEF IsSeq
<1> DEFINE t == SubSeq(s, k + 1, Len(s))
<1>2. t \in Seq(S) /\ Len(t) = Len(s) - k
  BY <1>1
<1>3. \A i \in 1 .. Len(s) - k : t[i] = s[k + i]
  BY <1>1
<1>4. QED
  BY <1>2, <1>3 DEF IsSeq

\* Sequences of one length with equal elements are equal.
LEMMA SeqEqual ==
  ASSUME NEW s, IsSeq(s), NEW t, IsSeq(t), Len(s) = Len(t),
         \A i \in 1 .. Len(s) : s[i] = t[i]
  PROVE  s = t
BY DEF IsSeq

\* The elements of a sequence replaced one by one.
LEMMA SeqOfFunction ==
  ASSUME NEW n \in Nat, NEW s, s = [i \in 1 .. n |-> s[i]]
  PROVE  IsSeq(s) /\ Len(s) = n
<1> DEFINE S == {s[i] : i \in 1 .. n}
<1>1. s \in [1 .. n -> S]
  OBVIOUS
<1>2. s \in Seq(S) /\ Len(s) = n
  <2> HIDE DEF S
  <2>1. QED
    BY <1>1
<1>3. QED
  BY <1>2 DEF IsSeq

-----------------------------------------------------------------------------
(* What verification says of each packet *)

Stages == 1 .. 20

\* The verify function of the k-th stage is the one that is called.
Checks(k, d, p) ==
  /\ k = 1 => VerifyEligibility(d, p)
  /\ k = 2 => VerifyReadiness(d, p)
  /\ k = 3 => VerifyFormation(d, p)
  /\ k = 4 => VerifyPreBind(d, p)
  /\ k = 5 => VerifyPreflight(d, p)
  /\ k = 6 => VerifySelection(d, p)
  /\ k = 7 => VerifyPlan(d, p)
  /\ k = 8 => VerifyFixtureResult(d, p)
  /\ k = 9 => VerifyRehearsal(d, p)
  /\ k = 10 => VerifyLiveReadiness(d, p)
  /\ k = 11 => VerifyRequest(d, p)
  /\ k = 12 => VerifyDispatchReadiness(d, p)
  /\ k = 13 => VerifyAllowlist(d, p)
  /\ k = 14 => VerifyCredential(d, p)
  /\ k = 15 => VerifyOperatorReview(d, p)
  /\ k = 16 => VerifyPreDispatch(d, p)
  /\ k = 17 => VerifyAuthority(d, p)
  /\ k = 18 => VerifyApproval(d, p)
  /\ k = 19 => VerifyFinalReadiness(d, p)
  /\ k = 20 => VerifyGateReview(d, p)

\* Verify is the verify function of the packet's stage.
LEMMA VerifyChecks ==
  ASSUME NEW k \in Stages, NEW d, Len(d) = k - 1, NEW p, Verify(d, p)
  PROVE  Checks(k, d, p)
<1>1. Len(d) + 1 = k
  BY DEF Stages
<1> USE DEF Verify
<1>2. k = 1 => VerifyEligibility(d, p)
  BY <1>1
<1>3. k = 2 => VerifyReadiness(d, p)
  BY <1>1
<1>4. k = 3 => VerifyFormation(d, p)
  BY <1>1
<1>5. k = 4 => VerifyPreBind(d, p)
  BY <1>1
<1>6. k = 5 => VerifyPreflight(d, p)
  BY <1>1
<1>7. k = 6 => VerifySelection(d, p)
  BY <1>1
<1>8. k = 7 => VerifyPlan(d, p)
  BY <1>1
<1>9. k = 8 => VerifyFixtureResult(d, p)
  BY <1>1
<1>10. k = 9 => VerifyRehearsal(d, p)
  BY <1>1
<1>11. k = 10 => VerifyLiveReadiness(d, p)
  BY <1>1
<1>12. k = 11 => VerifyRequest(d, p)
  BY <1>1
<1>13. k = 12 => VerifyDispatchReadiness(d, p)
  BY <1>1
<1>14. k = 13 => VerifyAllowlist(d, p)
  BY <1>1
<1>15. k = 14 => VerifyCredential(d, p)
  BY <1>1
<1>16. k = 15 => VerifyOperatorReview(d, p)
  BY <1>1
<1>17. k = 16 => VerifyPreDispatch(d, p)
  BY <1>1
<1>18. k = 17 => VerifyAuthority(d, p)
  BY <1>1
<1>19. k = 18 => VerifyApproval(d, p)
  BY <1>1
<1>20. k = 19 => VerifyFinalReadiness(d, p)
  BY <1>1
<1>21. k = 20 => VerifyGateReview(d, p)
  BY <1>1
<1>22. QED
  BY <1>2, <1>3, <1>4, <1>5, <1>6, <1>7, <1>8, <1>9, <1>10, <1>11, <1>12, <1>13,
     <1>14, <1>15, <1>16, <1>17, <1>18, <1>19, <1>20, <1>21 DEF Checks

\* Every verify function compares the digests and the copied fields.
LEMMA ChecksBound ==
  ASSUME NEW k \in Stages, NEW d, NEW p, Checks(k, d, p)
  PROVE  Bound(d, p)
<1>1. k \in 1 .. 20
  BY DEF Stages
<1>2. QED
  BY <1>1 DEF Checks, VerifyEligibility, VerifyReadiness, VerifyFormation, VerifyPreBind,
    VerifyPreflight, VerifySelection, VerifyPlan, VerifyFixtureResult, VerifyRehearsal,
    VerifyLiveReadiness, VerifyRequest, VerifyDispatchReadiness, VerifyAllowlist,
    VerifyCredential, VerifyOperatorReview, VerifyPreDispatch, VerifyAuthority, VerifyApproval,
    VerifyFinalReadiness, VerifyGateReview

\* A chain that verifies, of no more stages than there are.
Accepted(c) == IsSeq(c) /\ Len(c) <= 20 /\ Verified(c)

\* In a chain that verifies, every packet passed its verify function against
\* the packets before it.
LEMMA AcceptedStage ==
  ASSUME NEW c, Accepted(c), NEW k \in 1 .. Len(c)
  PROVE  /\ k \in Stages
         /\ Checks(k, Prefix(c, k - 1), c[k])
         /\ Bound(Prefix(c, k - 1), c[k])
         /\ IsSeq(Prefix(c, k - 1)) /\ Len(Prefix(c, k - 1)) = k - 1
         /\ \A i \in 1 .. k - 1 : Prefix(c, k - 1)[i] = c[i]
         /\ k > 1 => Source(Prefix(c, k - 1)) = c[k - 1] /\ Prefix(c, k - 1) # <<>>
         /\ k = 1 => Prefix(c, k - 1) = <<>>
<1>1. IsSeq(c) /\ Len(c) \in Nat /\ Len(c) <= 20 /\ DOMAIN c = 1 .. Len(c)
  BY SeqFacts DEF Accepted
<1>2. k \in Stages /\ k - 1 \in 0 .. Len(c)
  BY <1>1 DEF Stages
<1>3. /\ IsSeq(Prefix(c, k - 1)) /\ Len(Prefix(c, k - 1)) = k - 1
      /\ \A i \in 1 .. k - 1 : Prefix(c, k - 1)[i] = c[i]
  BY <1>1, <1>2, SeqPrefix
<1>4. Verify(Prefix(c, k - 1), c[k])
  BY <1>1 DEF Accepted, Verified
<1>5. Checks(k, Prefix(c, k - 1), c[k])
  BY <1>2, <1>3, <1>4, VerifyChecks
<1>6. ASSUME k > 1
      PROVE  Source(Prefix(c, k - 1)) = c[k - 1] /\ Prefix(c, k - 1) # <<>>
  <2>1. k - 1 \in 1 .. k - 1
    BY <1>6
  <2>2. Len(<<>>) = 0
    BY EmptySeq
  <2>3. QED
    BY <1>3, <1>6, <2>1, <2>2 DEF Source
<1>7. ASSUME k = 1
      PROVE  Prefix(c, k - 1) = <<>>
  <2>1. Len(Prefix(c, k - 1)) = 0
    BY <1>3, <1>7
  <2>2. QED
    BY <1>3, <2>1, EmptySeq, SeqEqual
<1>8. QED
  BY <1>2, <1>3, <1>5, <1>6, <1>7, ChecksBound

-----------------------------------------------------------------------------
(* The fields that later packets repeat *)

\* What each stage adds to the copied fields, for the fields that name the
\* operation.
LEMMA AddsSlots ==
  ASSUME NEW k \in Stages, NEW d, Len(d) = k
  PROVE  /\ "intent" \in DOMAIN Adds(d) <=> k = 3
         /\ "contract" \in DOMAIN Adds(d) <=> k = 6
         /\ "endpoint" \in DOMAIN Adds(d) <=> k = 13
         /\ "credential" \in DOMAIN Adds(d) <=> k = 14
         /\ k = 3 => Adds(d)["intent"] = Source(d).result
         /\ k = 6 => Adds(d)["contract"] = Source(d).input
         /\ k = 13 => Adds(d)["endpoint"] = Source(d).input.candidate
         /\ k = 14 => Adds(d)["credential"] = Source(d).input.reference
<1> DEFINE p == Source(d)
<1>1. CASE k = 1
  <2>1. Adds(d) = [identity |-> p.result.identity]
    BY <1>1 DEF Adds
  <2>2. QED
    BY <1>1, <2>1
<1>2. CASE k = 2
  <2>1. Adds(d) = [mapping |-> p.result]
    BY <1>2 DEF Adds
  <2>2. QED
    BY <1>2, <2>1
<1>3. CASE k = 3
  <2>1. Adds(d) = [intent |-> p.result]
    BY <1>3 DEF Adds
  <2>2. QED
    BY <1>3, <2>1
<1>4. CASE k = 6
  <2>1. Adds(d) = [contract |-> p.input]
    BY <1>4 DEF Adds
  <2>2. QED
    BY <1>4, <2>1
<1>5. CASE k = 8
  <2>1. Adds(d) = [fixtures |-> p.input]
    BY <1>5 DEF Adds
  <2>2. QED
    BY <1>5, <2>1
<1>6. CASE k = 9
  <2>1. Adds(d) = [rehearsal |-> p.result]
    BY <1>6 DEF Adds
  <2>2. QED
    BY <1>6, <2>1
<1>7. CASE k = 11
  <2>1. Adds(d) = [request |-> p.result]
    BY <1>7 DEF Adds
  <2>2. QED
    BY <1>7, <2>1
<1>8. CASE k = 13
  <2>1. Adds(d) = [endpoint |-> p.input.candidate]
    BY <1>8 DEF Adds
  <2>2. QED
    BY <1>8, <2>1
<1>9. CASE k = 14
  <2>1. Adds(d) = [credential |-> p.input.reference]
    BY <1>9 DEF Adds
  <2>2. QED
    BY <1>9, <2>1
<1>10. CASE k = 15
  <2>1. Adds(d) = [operator |-> p.input]
    BY <1>10 DEF Adds
  <2>2. QED
    BY <1>10, <2>1
<1>11. CASE k = 16
  <2>1. Adds(d) = [predispatch |-> p.input]
    BY <1>11 DEF Adds
  <2>2. QED
    BY <1>11, <2>1
<1>12. CASE k = 17
  <2>1. Adds(d) = [authority |-> p.input]
    BY <1>12 DEF Adds
  <2>2. QED
    BY <1>12, <2>1
<1>13. CASE k = 18
  <2>1. Adds(d) = [approval |-> p.input]
    BY <1>13 DEF Adds
  <2>2. QED
    BY <1>13, <2>1
<1>14. CASE k = 19
  <2>1. Adds(d) = [final |-> p.result]
    BY <1>14 DEF Adds
  <2>2. QED
    BY <1>14, <2>1
<1>15. CASE k \notin {1, 2, 3, 6, 8, 9, 11, 13, 14, 15, 16, 17, 18, 19}
  <2>1. Adds(d) = <<>>
    BY <1>15 DEF Adds
  <2>2. DOMAIN <<>> = {}
    OBVIOUS
  <2>3. QED
    BY <1>15, <2>1, <2>2
<1>16. QED
  BY <1>1, <1>2, <1>3, <1>4, <1>5, <1>6, <1>7, <1>8,
     <1>9, <1>10, <1>11, <1>12, <1>13, <1>14, <1>15

\* The copied fields of the k-th packet, from those of the one before it.
LEMMA CopiedNext ==
  ASSUME NEW c, Accepted(c), NEW k \in 2 .. Len(c), NEW s, s \notin Dropped(k)
  PROVE  LET old == c[k - 1].copied
             new == Adds(Prefix(c, k - 1))
         IN  /\ s \in DOMAIN c[k].copied <=> s \in DOMAIN old \/ s \in DOMAIN new
             /\ s \in DOMAIN old => c[k].copied[s] = old[s]
             /\ s \notin DOMAIN old /\ s \in DOMAIN new => c[k].copied[s] = new[s]
<1> DEFINE d == Prefix(c, k - 1)
           old == c[k - 1].copied
           new == Adds(d)
<1>0. Len(c) \in Nat
  BY SeqFacts DEF Accepted
<1>1. k \in 1 .. Len(c) /\ k > 1 /\ (k - 1) + 1 = k
  BY <1>0
<1>2. /\ Bound(d, c[k]) /\ Len(d) = k - 1
      /\ Source(d) = c[k - 1] /\ d # <<>>
  BY <1>1, AcceptedStage
<1>3. c[k].copied = [x \in (DOMAIN old \union DOMAIN new) \ Dropped(k) |->
                       IF x \in DOMAIN old THEN old[x] ELSE new[x]]
  <2> HIDE DEF d
  <2>1. QED
    BY <1>1, <1>2 DEF Bound, Copied
<1> HIDE DEF d, new, old
<1>4. QED
  BY <1>3 DEF d, new, old

\* The fields that name the operation are repeated from the stage that
\* introduces them on, and by no packet before it.
Slots(c, k) ==
  /\ "intent" \in DOMAIN c[k].copied <=> k > 3
  /\ "contract" \in DOMAIN c[k].copied <=> k > 6
  /\ "endpoint" \in DOMAIN c[k].copied <=> k > 13
  /\ "credential" \in DOMAIN c[k].copied <=> k > 14
  /\ k > 3 => c[k].copied["intent"] = c[3].result
  /\ k > 6 => c[k].copied["contract"] = c[6].input
  /\ k > 13 => c[k].copied["endpoint"] = c[13].input.candidate
  /\ k > 14 => c[k].copied["credential"] = c[14].input.reference

\* A stage repeats what the stages before it derived.
LEMMA SlotsNext ==
  ASSUME NEW c, Accepted(c), NEW k \in 2 .. Len(c), Slots(c, k - 1)
  PROVE  Slots(c, k)
<1> DEFINE d == Prefix(c, k - 1)
<1>1. Len(c) \in Nat /\ Len(c) <= 20
  BY SeqFacts DEF Accepted
<1>2. k \in 1 .. Len(c) /\ k > 1 /\ k - 1 \in Stages /\ k \in 1 .. 20
  BY <1>1 DEF Stages
<1>3. Source(d) = c[k - 1] /\ Len(d) = k - 1
  BY <1>2, AcceptedStage
<1>4. \A s \in {"intent", "contract", "endpoint", "credential"} : s \notin Dropped(k)
  BY DEF Dropped
<1>5. /\ "intent" \in DOMAIN Adds(d) <=> k - 1 = 3
      /\ "contract" \in DOMAIN Adds(d) <=> k - 1 = 6
      /\ "endpoint" \in DOMAIN Adds(d) <=> k - 1 = 13
      /\ "credential" \in DOMAIN Adds(d) <=> k - 1 = 14
      /\ k - 1 = 3 => Adds(d)["intent"] = c[k - 1].result
      /\ k - 1 = 6 => Adds(d)["contract"] = c[k - 1].input
      /\ k - 1 = 13 => Adds(d)["endpoint"] = c[k - 1].input.candidate
      /\ k - 1 = 14 => Adds(d)["credential"] = c[k - 1].input.reference
  <2> HIDE DEF d
  <2>1. QED
    BY <1>2, <1>3, AddsSlots
<1>6. \A s \in {"intent", "contract", "endpoint", "credential"} :
        /\ s \in DOMAIN c[k].copied <=> s \in DOMAIN c[k - 1].copied \/ s \in DOMAIN Adds(d)
        /\ s \in DOMAIN c[k - 1].copied => c[k].copied[s] = c[k - 1].copied[s]
        /\ s \notin DOMAIN c[k - 1].copied /\ s \in DOMAIN Adds(d) =>
             c[k].copied[s] = Adds(d)[s]
  BY <1>4, CopiedNext
<1> HIDE DEF d
<1>7. /\ "intent" \in DOMAIN c[k].copied <=> k > 3
      /\ k > 3 => c[k].copied["intent"] = c[3].result
  BY <1>2, <1>5, <1>6 DEF Slots
<1>8. /\ "contract" \in DOMAIN c[k].copied <=> k > 6
      /\ k > 6 => c[k].copied["contract"] = c[6].input
  BY <1>2, <1>5, <1>6 DEF Slots
<1>9. /\ "endpoint" \in DOMAIN c[k].copied <=> k > 13
      /\ k > 13 => c[k].copied["endpoint"] = c[13].input.candidate
  BY <1>2, <1>5, <1>6 DEF Slots
<1>10. /\ "credential" \in DOMAIN c[k].copied <=> k > 14
       /\ k > 14 => c[k].copied["credential"] = c[14].input.reference
  BY <1>2, <1>5, <1>6 DEF Slots
<1>11. QED
  BY <1>7, <1>8, <1>9, <1>10 DEF Slots

\* In a chain that verifies every packet repeats the operation faithfully.
LEMMA SlotsCarried ==
  ASSUME NEW c, Accepted(c), NEW k \in 1 .. Len(c)
  PROVE  Slots(c, k)
<1>1. Len(c) \in Nat /\ Len(c) - 1 \in Nat
  BY SeqFacts DEF Accepted
<1>2. 1 \in 1 .. Len(c)
  BY <1>1
<1>3. c[1].copied = <<>>
  <2>1. Bound(Prefix(c, 0), c[1]) /\ Prefix(c, 0) = <<>>
    <3>1. 1 - 1 = 0
      OBVIOUS
    <3>2. QED
      BY <1>2, <3>1, AcceptedStage
  <2>2. QED
    BY <2>1 DEF Bound, Copied
<1>4. Slots(c, 1)
  <2>1. DOMAIN <<>> = {}
    OBVIOUS
  <2>2. QED
    BY <1>3, <2>1 DEF Slots
<1> DEFINE T == {n \in 0 .. Len(c) - 1 : Slots(c, n + 1)}
<1>5. 0 \in T
  BY <1>1, <1>4
<1>6. ASSUME NEW n \in 0 .. (Len(c) - 1) - 1, n \in T
      PROVE  n + 1 \in T
  <2>1. n + 2 \in 2 .. Len(c) /\ (n + 2) - 1 = n + 1 /\ (n + 1) + 1 = n + 2
    BY <1>1
  <2>2. Slots(c, (n + 2) - 1)
    BY <1>6, <2>1
  <2>3. Slots(c, n + 2)
    BY <2>1, <2>2, SlotsNext
  <2>4. QED
    BY <1>1, <2>1, <2>3
<1>7. \A n \in 0 .. Len(c) - 1 : n \in T
  <2> HIDE DEF T
  <2>1. QED
    BY <1>1, <1>5, <1>6, InductionUpTo
<1>8. k - 1 \in 0 .. Len(c) - 1 /\ (k - 1) + 1 = k
  BY <1>1
<1>9. QED
  BY <1>7, <1>8

-----------------------------------------------------------------------------
(* The handoff *)

\* What a handoff that is ready for promotion has passed.
LEMMA ReadyHandoff ==
  ASSUME NEW h, NEW when, Validate(h, when) = "READY_FOR_GUARDED_PROMOTION"
  PROVE  /\ h.promotable
         /\ ~Contradicted(h, when) /\ ~PolicyStale(h, when) /\ ~Incomplete(h)
BY DEF Validate

\* Its evidence names one operation and is not out of force.
LEMMA ReadyEvidence ==
  ASSUME NEW h, NEW when, Validate(h, when) = "READY_FOR_GUARDED_PROMOTION",
         h.authority # None, h.approval # None
  PROVE  /\ h.authority.actor = h.candidate.actor
         /\ h.authority.contract = h.candidate.contract
         /\ h.approval.candidate = h.candidate.id
         /\ h.approval.contract = h.candidate.contract
         /\ h.authority.target = h.candidate.target
         /\ h.approval.resource = h.candidate.target.resource
         /\ h.context.target = h.candidate.target
         /\ h.policy # None
         /\ ~OutOfForce(h.authority, when) /\ ~OutOfForce(h.approval, when)
         /\ ~OutOfForce(h.policy, when)
         /\ h.replay.v1 => h.replay.replayDecision # h.decision.id
<1>1. ~Contradicted(h, when) /\ ~PolicyStale(h, when) /\ ~Incomplete(h)
  BY ReadyHandoff
<1>2. Comparable(h) /\ h.policy # None
  BY <1>1 DEF Incomplete, Unspecified, Comparable
<1>3. ~LineageMismatch(h) /\ ~AuthorityInvalid(h, when) /\ ~ApprovalInvalid(h, when)
  BY <1>1 DEF Contradicted
<1>4. /\ h.context.target = h.candidate.target
      /\ h.replay.v1 => h.replay.replayDecision # h.decision.id
  BY <1>2, <1>3 DEF LineageMismatch, Comparable
<1>5. /\ h.authority.actor = h.candidate.actor
      /\ h.authority.contract = h.candidate.contract
      /\ h.authority.target = h.candidate.target
      /\ ~OutOfForce(h.authority, when)
  BY <1>2, <1>3 DEF AuthorityInvalid
<1>6. /\ h.approval.candidate = h.candidate.id
      /\ h.approval.contract = h.candidate.contract
      /\ h.approval.resource = h.candidate.target.resource
      /\ ~OutOfForce(h.approval, when)
  BY <1>2, <1>3 DEF ApprovalInvalid
<1>7. ~OutOfForce(h.policy, when)
  BY <1>1, <1>2 DEF PolicyStale
<1>8. QED
  BY <1>2, <1>4, <1>5, <1>6, <1>7

\* The handoff of a chain that verifies.
LEMMA FirstStage ==
  ASSUME NEW c, Accepted(c), Len(c) >= 1
  PROVE  LET h == Handoffs[c[1].input.handoff]
         IN  /\ Validate(h, c[1].input.evaluated) = "READY_FOR_GUARDED_PROMOTION"
             /\ h.authority # None /\ h.approval # None
             /\ c[1].at >= c[1].input.evaluated
             /\ c[1].result.identity = Identities(h)
             /\ ~Collapsed(h.replay)
<1>1. 1 \in 1 .. Len(c)
  BY SeqFacts DEF Accepted
<1>2. VerifyEligibility(Prefix(c, 1 - 1), c[1])
  BY <1>1, AcceptedStage DEF Checks
<1>3. /\ c[1].result = EligibilityResult(c[1].input)
      /\ ~Collapsed(c[1].result.identity.replay)
  BY <1>2 DEF VerifyEligibility
<1>4. c[1].result.identity = Identities(Handoffs[c[1].input.handoff])
  BY <1>3 DEF EligibilityResult
<1>5. c[1].result.identity.replay = Handoffs[c[1].input.handoff].replay
  BY <1>4 DEF Identities
<1>6. QED
  BY <1>2, <1>3, <1>4, <1>5 DEF VerifyEligibility, EligibilityResult, HasEvidence

\* The intent of a chain that verifies is the one its first packets determine.
LEMMA IntentOfChain ==
  ASSUME NEW c, Accepted(c), Len(c) >= 3
  PROVE  /\ c[3].result.id = IntentId(c)
         /\ c[3].result.fields.target = Handoffs[c[1].input.handoff].candidate.target
<1>0. Len(c) \in Nat /\ 1 \in 1 .. Len(c) /\ 2 \in 1 .. Len(c) /\ 3 \in 1 .. Len(c)
  BY SeqFacts DEF Accepted
<1>1. VerifyFormation(Prefix(c, 3 - 1), c[3]) /\ VerifyReadiness(Prefix(c, 2 - 1), c[2])
  BY <1>0, AcceptedStage DEF Checks
<1>2. /\ Source(Prefix(c, 3 - 1)) = c[3 - 1]
      /\ \A i \in 1 .. 3 - 1 : Prefix(c, 3 - 1)[i] = c[i]
  BY <1>0, AcceptedStage
<1>3. Prefix(c, 3 - 1)[1] = c[1] /\ Prefix(c, 3 - 1)[2] = c[2] /\ c[3 - 1] = c[2]
  BY <1>2
<1>4. c[3].result = [id |-> IntentId(c), fields |-> c[2].result]
  BY <1>1, <1>2, <1>3 DEF VerifyFormation, FormationResult, IntentId
<1>5. Source(Prefix(c, 2 - 1)) = c[2 - 1] /\ c[2 - 1] = c[1]
  BY <1>0, AcceptedStage
<1>6. c[2].result = Mapping(c[1].result.identity)
  BY <1>1, <1>5 DEF VerifyReadiness, ReadinessResult
<1>7. c[1].result.identity = Identities(Handoffs[c[1].input.handoff])
  BY <1>0, FirstStage
<1>8. QED
  BY <1>4, <1>6, <1>7 DEF Mapping, Identities

-----------------------------------------------------------------------------
(* One operation *)

\* The contract that a chain selects is for the target of its handoff.
LEMMA SelectedTarget ==
  ASSUME NEW c, Accepted(c), Len(c) >= 6
  PROVE  Descriptors[c[6].input].target = Handoffs[c[1].input.handoff].candidate.target
<1>1. Len(c) \in Nat /\ 6 \in 1 .. Len(c) /\ Len(c) >= 3
  BY SeqFacts DEF Accepted
<1>2. VerifySelection(Prefix(c, 6 - 1), c[6])
  BY <1>1, AcceptedStage DEF Checks
<1>3. c[6].copied.intent = c[3].result
  BY <1>1, SlotsCarried DEF Slots
<1>4. QED
  BY <1>1, <1>2, <1>3, IntentOfChain DEF VerifySelection, Selectable

\* The operator reviewed the contract, endpoint and credential of the chain.
LEMMA OperatorReviews ==
  ASSUME Accepted(chain), Len(chain) >= 15
  PROVE  Concerns(chain[15].input)
<1>1. Len(chain) \in Nat /\ 15 \in 1 .. Len(chain) /\ 14 \in 1 .. Len(chain)
  BY SeqFacts DEF Accepted
<1>2. VerifyOperatorReview(Prefix(chain, 15 - 1), chain[15])
  BY <1>1, AcceptedStage DEF Checks
<1>3. Source(Prefix(chain, 15 - 1)) = chain[15 - 1] /\ chain[15 - 1] = chain[14]
  BY <1>1, AcceptedStage
<1>4. /\ chain[14].copied.contract = chain[6].input
      /\ chain[14].copied.endpoint = chain[13].input.candidate
  BY <1>1, SlotsCarried DEF Slots
<1>5. Reviews(Prefix(chain, 15 - 1), chain[15].input)
  BY <1>2 DEF VerifyOperatorReview
<1>6. QED
  BY <1>3, <1>4, <1>5 DEF Reviews, Concerns

\* A reference that names what the packet of a linkage's source repeats is
\* about the operation of the chain.
LEMMA NamesOperation ==
  ASSUME Accepted(chain), NEW k \in {17, 18}, k <= Len(chain), NEW r,
         Names(r, chain[k - 1].copied)
  PROVE  About(r)
<1>1. Len(chain) \in Nat /\ k - 1 \in 1 .. Len(chain) /\ k - 1 > 14 /\ Len(chain) >= 3
  BY SeqFacts DEF Accepted
<1>2. /\ chain[k - 1].copied.intent = chain[3].result
      /\ chain[k - 1].copied.contract = chain[6].input
      /\ chain[k - 1].copied.endpoint = chain[13].input.candidate
      /\ chain[k - 1].copied.credential = chain[14].input.reference
  BY <1>1, SlotsCarried DEF Slots
<1>3. chain[3].result.id = IntentId(chain)
  BY <1>1, IntentOfChain
<1>4. QED
  BY <1>2, <1>3 DEF Names, About, Concerns

\* The references of both linkages.
LEMMA Linkages ==
  ASSUME Accepted(chain)
  PROVE  /\ Len(chain) >= 17 => \A r \in chain[17].input.references : About(r)
         /\ Len(chain) >= 18 =>
              \A r \in chain[18].input.references :
                About(r) /\ r.authorities = {a.id : a \in chain[17].input.references}
<1>0. Len(chain) \in Nat
  BY SeqFacts DEF Accepted
<1>1. ASSUME Len(chain) >= 17, NEW r \in chain[17].input.references
      PROVE  About(r)
  <2>1. 17 \in 1 .. Len(chain) /\ 17 \in {17, 18} /\ 17 <= Len(chain)
    BY <1>0, <1>1
  <2>2. VerifyAuthority(Prefix(chain, 17 - 1), chain[17])
    BY <2>1, AcceptedStage DEF Checks
  <2>3. Source(Prefix(chain, 17 - 1)) = chain[17 - 1]
    BY <2>1, AcceptedStage
  <2>4. Names(r, chain[17 - 1].copied)
    BY <1>1, <2>2, <2>3 DEF VerifyAuthority
  <2>5. QED
    BY <2>1, <2>4, NamesOperation
<1>2. ASSUME Len(chain) >= 18, NEW r \in chain[18].input.references
      PROVE  About(r) /\ r.authorities = {a.id : a \in chain[17].input.references}
  <2>1. 18 \in 1 .. Len(chain) /\ 18 \in {17, 18} /\ 18 <= Len(chain)
    BY <1>0, <1>2
  <2>2. VerifyApproval(Prefix(chain, 18 - 1), chain[18])
    BY <2>1, AcceptedStage DEF Checks
  <2>3. Source(Prefix(chain, 18 - 1)) = chain[18 - 1] /\ chain[18 - 1] = chain[17]
    BY <2>1, AcceptedStage
  <2>4. /\ Names(r, chain[18 - 1].copied)
        /\ r.authorities = {a.id : a \in chain[17].input.references}
    BY <1>2, <2>2, <2>3 DEF VerifyApproval, NamesAuthority
  <2>5. QED
    BY <2>1, <2>4, NamesOperation
<1>3. QED
  BY <1>1, <1>2

\* What the builders of the rehearsal and of the credential authorization see
\* to, for the contract, the endpoint and the intent that the chain repeats.
RehearsalOf(c) ==
  /\ c[9].result.output.intent = c[3].result
  /\ c[9].result.output.target = c[3].result.fields.target

ReferenceOf(c) ==
  /\ c[14].input.reference.contract = c[6].input
  /\ c[14].input.reference.endpoint = c[13].input.candidate.id

BuiltInv ==
  ~edited => (Len(chain) >= 9 => RehearsalOf(chain)) /\ (Len(chain) >= 14 => ReferenceOf(chain))

\* Any chain that verifies is about one operation.
LEMMA OneOperationHolds ==
  ASSUME IsSeq(chain), Len(chain) <= 20, BuiltInv
  PROVE  OneOperation
<1>1. SUFFICES ASSUME Accepted(chain) PROVE OneOperation
  BY DEF OneOperation, Accepted
<1> DEFINE h == Handoffs[chain[1].input.handoff]
<1>2. Len(chain) \in Nat
  BY SeqFacts
<1>3. ASSUME Len(chain) >= 1
      PROVE  /\ h.authority.actor = h.candidate.actor
             /\ h.authority.contract = h.candidate.contract
             /\ {h.authority.target, h.context.target} = {h.candidate.target}
             /\ h.approval.candidate = h.candidate.id
             /\ h.approval.contract = h.candidate.contract
             /\ h.approval.resource = h.candidate.target.resource
  <2>1. /\ Validate(h, chain[1].input.evaluated) = "READY_FOR_GUARDED_PROMOTION"
        /\ h.authority # None /\ h.approval # None
    BY <1>1, <1>3, FirstStage
  <2> HIDE DEF h
  <2>2. QED
    BY <2>1, ReadyEvidence
<1>4. Len(chain) >= 6 => Descriptors[chain[6].input].target = h.candidate.target
  BY <1>1, SelectedTarget
<1>5. Len(chain) >= 15 => Concerns(chain[15].input)
  BY <1>1, OperatorReviews
<1>6. /\ ~edited /\ Len(chain) >= 9 => RehearsalOf(chain)
      /\ ~edited /\ Len(chain) >= 14 => ReferenceOf(chain)
  BY DEF BuiltInv
<1>7. QED
  BY <1>1, <1>3, <1>4, <1>5, <1>6, Linkages DEF OneOperation, RehearsalOf, ReferenceOf

-----------------------------------------------------------------------------
(* The packets of a chain, verified or not *)

\* A packet of the k-th stage: its fields, its time, its documents and, where
\* verification leaves it open, its result.
PacketOK(p, k) ==
  /\ p = [at |-> p.at, input |-> p.input, result |-> p.result, copied |-> p.copied,
          sealed |-> p.sealed]
  /\ p.at \in Times /\ p.input \in Inputs(k) /\ p.sealed \in BOOLEAN
  /\ k \in {17, 18} => p.result \in BOOLEAN
  /\ k \in {4, 5, 6, 7, 8, 10, 12} => p.result = None

PacketsOK(c) ==
  IsSeq(c) /\ Len(c) <= 20 /\ \A k \in 1 .. Len(c) : PacketOK(c[k], k)

ChainInv == PacketsOK(chain)

\* The inputs and the times of the stages for which they are compared.
LEMMA InputTypes ==
  /\ \A i \in Inputs(1) : i.handoff \in DOMAIN Handoffs /\ i.evaluated \in Times
  /\ Inputs(17) = Authorities /\ Inputs(18) = Approvals
BY DEF Inputs

\* Any chain of packets that verifies passed over no refusal.
LEMMA NothingRefusedHolds ==
  ASSUME ChainInv
  PROVE  NothingRefused
<1>1. SUFFICES ASSUME Verified(chain) PROVE NothingRefused
  BY DEF NothingRefused
<1>2. Accepted(chain) /\ Len(chain) \in Nat
  BY <1>1, SeqFacts DEF ChainInv, PacketsOK, Accepted
<1>3. \A k \in 1 .. Len(chain) : chain[k].at \in Int
  BY TimesAssumption DEF ChainInv, PacketsOK, PacketOK
<1>4. ASSUME NEW k \in 2 .. Len(chain), k <= 14
      PROVE  chain[k - 1].at <= chain[k].at
  <2>1. k \in 1 .. Len(chain) /\ k - 1 \in 1 .. Len(chain) /\ k > 1 /\ k \in 2 .. 14
    BY <1>2, <1>4
  <2>2. Source(Prefix(chain, k - 1)) = chain[k - 1] /\ Checks(k, Prefix(chain, k - 1), chain[k])
    BY <1>2, <2>1, AcceptedStage
  <2>3. NotBefore(Prefix(chain, k - 1), chain[k].at)
    BY <2>1, <2>2 DEF Checks, VerifyReadiness, VerifyFormation, VerifyPreBind,
      VerifyPreflight, VerifySelection, VerifyPlan, VerifyFixtureResult, VerifyRehearsal,
      VerifyLiveReadiness, VerifyRequest, VerifyDispatchReadiness, VerifyAllowlist,
      VerifyCredential
  <2>4. QED
    BY <1>3, <2>1, <2>2, <2>3 DEF NotBefore
<1> DEFINE h == Handoffs[chain[1].input.handoff]
           when == chain[1].input.evaluated
<1>5. ASSUME Len(chain) >= 1
      PROVE  /\ h.promotable /\ when <= chain[1].at
             /\ \A e \in {h.authority, h.approval, h.policy} : InForce(e, when)
             /\ ~Collapsed(h.replay)
             /\ h.replay.v1 => h.replay.replayDecision # h.decision.id
  <2>0. 1 \in 1 .. Len(chain)
    BY <1>2, <1>5
  <2>1. /\ Validate(h, when) = "READY_FOR_GUARDED_PROMOTION"
        /\ h.authority # None /\ h.approval # None
        /\ chain[1].at >= when /\ ~Collapsed(h.replay)
    BY <1>2, <1>5, FirstStage
  <2>2. chain[1].input \in Inputs(1)
    BY <2>0 DEF ChainInv, PacketsOK, PacketOK
  <2>3. when \in Int /\ chain[1].input.handoff \in DOMAIN Handoffs
    BY <2>2, InputTypes, TimesAssumption
  <2>4. \A e \in {h.authority, h.approval, h.policy} :
          e # None => e.issued \in Int /\ e.expires \in Int
    BY <2>3, TimesAssumption
  <2>5. when <= chain[1].at
    BY <1>3, <2>0, <2>1, <2>3
  <2> HIDE DEF h, when
  <2>6. /\ h.promotable /\ h.policy # None
        /\ ~OutOfForce(h.authority, when) /\ ~OutOfForce(h.approval, when)
        /\ ~OutOfForce(h.policy, when)
        /\ h.replay.v1 => h.replay.replayDecision # h.decision.id
    BY <2>1, ReadyHandoff, ReadyEvidence
  <2>7. ASSUME NEW e, e.issued \in Int, e.expires \in Int, ~OutOfForce(e, when)
        PROVE  InForce(e, when)
    BY <2>3, <2>7 DEF OutOfForce, InForce
  <2>8. QED
    BY <2>1, <2>4, <2>5, <2>6, <2>7
<1>6. ASSUME NEW k \in 1 .. Len(chain)
      PROVE  /\ Checks(k, Prefix(chain, k - 1), chain[k])
             /\ k > 1 => Source(Prefix(chain, k - 1)) = chain[k - 1]
             /\ Len(Prefix(chain, k - 1)) = k - 1
             /\ \A i \in 1 .. k - 1 : Prefix(chain, k - 1)[i] = chain[i]
  BY <1>2, AcceptedStage
<1>7. Len(chain) >= 9 => ~chain[9].result.effect
  BY <1>2, <1>6 DEF Checks, VerifyRehearsal
<1>8. Len(chain) >= 14 => Matched(chain[13].input)
  <2>1. SUFFICES ASSUME Len(chain) >= 14 PROVE Matched(chain[13].input)
    OBVIOUS
  <2>2. chain[13].result = Matched(chain[13].input)
    BY <1>2, <1>6, <2>1 DEF Checks, VerifyAllowlist
  <2>3. Source(Prefix(chain, 14 - 1)) = chain[14 - 1] /\ chain[14 - 1] = chain[13]
    BY <1>2, <1>6, <2>1
  <2>4. VerifyCredential(Prefix(chain, 14 - 1), chain[14])
    BY <1>2, <1>6, <2>1 DEF Checks
  <2>5. QED
    BY <2>2, <2>3, <2>4 DEF VerifyCredential
<1>9. Len(chain) >= 15 => Authorized(chain[14].input)
  <2>1. SUFFICES ASSUME Len(chain) >= 15 PROVE Authorized(chain[14].input)
    OBVIOUS
  <2>2. chain[14].result = Authorized(chain[14].input)
    BY <1>2, <1>6, <2>1 DEF Checks, VerifyCredential
  <2>3. Source(Prefix(chain, 15 - 1)) = chain[15 - 1] /\ chain[15 - 1] = chain[14]
    BY <1>2, <1>6, <2>1
  <2>4. VerifyOperatorReview(Prefix(chain, 15 - 1), chain[15])
    BY <1>2, <1>6, <2>1 DEF Checks
  <2>5. QED
    BY <2>2, <2>3, <2>4 DEF VerifyOperatorReview
<1>10. Len(chain) >= 16 => Approves(chain[15].input)
  <2>1. SUFFICES ASSUME Len(chain) >= 16 PROVE Approves(chain[15].input)
    OBVIOUS
  <2>2. Source(Prefix(chain, 16 - 1)) = chain[16 - 1] /\ chain[16 - 1] = chain[15]
    BY <1>2, <1>6, <2>1
  <2>3. VerifyPreDispatch(Prefix(chain, 16 - 1), chain[16])
    BY <1>2, <1>6, <2>1 DEF Checks
  <2>4. QED
    BY <2>2, <2>3 DEF VerifyPreDispatch, OperatorApproved
<1>11. Len(chain) >= 17 => Accepts(chain[16].input)
  <2>1. SUFFICES ASSUME Len(chain) >= 17 PROVE Accepts(chain[16].input)
    OBVIOUS
  <2>2. chain[16].result = Accepts(chain[16].input)
    BY <1>2, <1>6, <2>1 DEF Checks, VerifyPreDispatch
  <2>3. Source(Prefix(chain, 17 - 1)) = chain[17 - 1] /\ chain[17 - 1] = chain[16]
    BY <1>2, <1>6, <2>1
  <2>4. VerifyAuthority(Prefix(chain, 17 - 1), chain[17])
    BY <1>2, <1>6, <2>1 DEF Checks
  <2>5. QED
    BY <2>2, <2>3, <2>4 DEF VerifyAuthority
<1>12. ASSUME NEW k \in {17, 18} \intersect DOMAIN chain, NEW r \in chain[k].input.references
       PROVE  InForce(r, chain[k].at) /\ chain[k].at # r.expires
  <2>1. k \in 1 .. Len(chain) /\ k \in {17, 18}
    BY SeqFacts DEF ChainInv, PacketsOK
  <2>2. Bundle(chain[k].input, chain[k].at)
    BY <1>6, <2>1 DEF Checks, VerifyAuthority, VerifyApproval
  <2>3. chain[k].input \in Authorities \union Approvals
    BY <2>1, InputTypes DEF ChainInv, PacketsOK, PacketOK
  <2>4. r.issued \in Int /\ r.expires \in Int /\ chain[k].at \in Int
    BY <1>3, <1>12, <2>1, <2>3, TimesAssumption
  <2>5. r.expires > chain[k].at /\ r.issued <= chain[k].at
    BY <1>12, <2>2 DEF Bundle
  <2>6. QED
    BY <2>4, <2>5 DEF InForce
<1>13. Len(chain) >= 20 => Accepts(chain[19].input)
  <2>1. SUFFICES ASSUME Len(chain) >= 20 PROVE Accepts(chain[19].input)
    OBVIOUS
  <2>2. chain[19].result = Accepts(chain[19].input)
    BY <1>2, <1>6, <2>1 DEF Checks, VerifyFinalReadiness
  <2>3. Source(Prefix(chain, 20 - 1)) = chain[20 - 1] /\ chain[20 - 1] = chain[19]
    BY <1>2, <1>6, <2>1
  <2>4. VerifyGateReview(Prefix(chain, 20 - 1), chain[20])
    BY <1>2, <1>6, <2>1 DEF Checks
  <2>5. QED
    BY <2>2, <2>3, <2>4 DEF VerifyGateReview
<1>14. QED
  BY <1>4, <1>5, <1>7, <1>8, <1>9, <1>10, <1>11, <1>12, <1>13 DEF NothingRefused

-----------------------------------------------------------------------------
(* Packets made again *)

\* The recursive definition of Remade has a solution, and Remade is its last
\* value.
LEMMA RemadeSteps ==
  ASSUME NEW c, NEW Q, IsSeq(Q)
  PROVE  \E f : /\ f[0] = c
                /\ \A n \in 1 .. Len(Q) : f[n] = Again(f[n - 1], Q[n])
                /\ Remade(c, Q) = f[Len(Q)]
<1>0. Len(Q) \in Nat
  BY SeqFacts
<1> DEFINE Solves(g, m) == g = [n \in 0 .. m |-> IF n = 0 THEN c ELSE Again(g[n - 1], Q[n])]
           T == {m \in 0 .. Len(Q) : \E g : Solves(g, m)}
<1>1. 0 \in T
  <2> DEFINE g == [n \in 0 .. 0 |-> c]
  <2>1. Solves(g, 0)
    OBVIOUS
  <2> HIDE DEF g
  <2>2. \E x : Solves(x, 0)
    BY <2>1
  <2>3. 0 \in 0 .. Len(Q)
    BY <1>0
  <2>4. QED
    BY <2>2, <2>3
<1>2. ASSUME NEW m \in 0 .. Len(Q) - 1, m \in T
      PROVE  m + 1 \in T
  <2>1. PICK g : Solves(g, m)
    BY <1>2
  <2> DEFINE h == [n \in 0 .. m + 1 |-> IF n = m + 1 THEN Again(g[m], Q[m + 1]) ELSE g[n]]
  <2>2. m \in Nat /\ m + 1 \in 0 .. Len(Q) /\ (m + 1) - 1 = m /\ m + 1 # 0
    BY <1>0
  <2>3. ASSUME NEW n \in 0 .. m + 1
        PROVE  h[n] = IF n = 0 THEN c ELSE Again(h[n - 1], Q[n])
    <3>1. CASE n = m + 1
      <4>1. h[m] = g[m]
        BY <2>2
      <4>2. QED
        BY <2>2, <3>1, <4>1
    <3>2. CASE n # m + 1
      <4>1. n \in 0 .. m /\ h[n] = g[n]
        BY <2>2, <3>2
      <4>2. n # 0 => n - 1 \in 0 .. m + 1 /\ n - 1 # m + 1
        BY <2>2, <4>1
      <4>3. n # 0 => h[n - 1] = g[n - 1]
        BY <4>2
      <4>4. g[n] = IF n = 0 THEN c ELSE Again(g[n - 1], Q[n])
        BY <2>1, <4>1
      <4>5. QED
        BY <4>1, <4>3, <4>4
    <3>3. QED
      BY <3>1, <3>2
  <2>4. Solves(h, m + 1)
    BY <2>3
  <2>5. QED
    BY <2>2, <2>4
<1>3. \A m \in 0 .. Len(Q) : m \in T
  <2> HIDE DEF T
  <2>1. QED
    BY <1>0, <1>1, <1>2, InductionUpTo
<1>4. PICK g : Solves(g, Len(Q))
  BY <1>0, <1>3
<1> DEFINE f == CHOOSE f : f = [n \in 0 .. Len(Q) |->
                                  IF n = 0 THEN c ELSE Again(f[n - 1], Q[n])]
<1>5. f = [n \in 0 .. Len(Q) |-> IF n = 0 THEN c ELSE Again(f[n - 1], Q[n])]
  BY <1>4
<1>6. Remade(c, Q) = f[Len(Q)]
  BY DEF Remade
<1> HIDE DEF f
<1>7. f[0] = c /\ \A n \in 1 .. Len(Q) : f[n] = Again(f[n - 1], Q[n])
  <2>1. 0 \in 0 .. Len(Q) /\ \A n \in 1 .. Len(Q) : n \in 0 .. Len(Q) /\ n # 0
    BY <1>0
  <2>2. QED
    BY <1>5, <2>1
<1>8. QED
  BY <1>6, <1>7

\* What the k-th stage derives.
LEMMA DerivedAt ==
  ASSUME NEW k \in Stages, NEW d, Len(d) = k - 1, NEW i
  PROVE  /\ k = 1 => Derived(d, i) = EligibilityResult(i)
         /\ k = 2 => Derived(d, i) = ReadinessResult(d)
         /\ k = 3 => Derived(d, i) = FormationResult(d)
         /\ k = 11 => Derived(d, i) = RequestResult(d)
         /\ k = 13 => Derived(d, i) = Matched(i)
         /\ k = 14 => Derived(d, i) = Authorized(i)
         /\ k = 15 => Derived(d, i) = Approves(i)
         /\ k \in {16, 19, 20} => Derived(d, i) = Accepts(i)
         /\ k \in {17, 18} => Derived(d, i) = TRUE
         /\ k \in {4, 5, 6, 7, 8, 10, 12} => Derived(d, i) = None
<1>1. Len(d) + 1 = k
  BY DEF Stages
<1> USE DEF Derived
<1>2. k = 1 => Derived(d, i) = EligibilityResult(i)
  BY <1>1
<1>3. k = 2 => Derived(d, i) = ReadinessResult(d)
  BY <1>1
<1>4. k = 3 => Derived(d, i) = FormationResult(d)
  BY <1>1
<1>5. k = 11 => Derived(d, i) = RequestResult(d)
  BY <1>1
<1>6. k = 13 => Derived(d, i) = Matched(i)
  BY <1>1
<1>7. k = 14 => Derived(d, i) = Authorized(i)
  BY <1>1
<1>8. k = 15 => Derived(d, i) = Approves(i)
  BY <1>1
<1>9. k \in {16, 19, 20} => Derived(d, i) = Accepts(i)
  <2>1. k = 16 => Derived(d, i) = Accepts(i)
    BY <1>1
  <2>2. k = 19 => Derived(d, i) = Accepts(i)
    BY <1>1
  <2>3. k = 20 => Derived(d, i) = Accepts(i)
    BY <1>1
  <2>4. QED
    BY <2>1, <2>2, <2>3
<1>10. k \in {17, 18} => Derived(d, i) = TRUE
  BY <1>1
<1>11. k \in {4, 5, 6, 7, 8, 10, 12} => Derived(d, i) = None
  <2>1. k = 4 => Derived(d, i) = None
    BY <1>1
  <2>2. k = 5 => Derived(d, i) = None
    BY <1>1
  <2>3. k = 6 => Derived(d, i) = None
    BY <1>1
  <2>4. k = 7 => Derived(d, i) = None
    BY <1>1
  <2>5. k = 8 => Derived(d, i) = None
    BY <1>1
  <2>6. k = 10 => Derived(d, i) = None
    BY <1>1
  <2>7. k = 12 => Derived(d, i) = None
    BY <1>1
  <2>8. QED
    BY <2>1, <2>2, <2>3, <2>4, <2>5, <2>6, <2>7
<1>12. QED
  BY <1>2, <1>3, <1>4, <1>5, <1>6, <1>7, <1>8, <1>9, <1>10, <1>11

\* A packet that verifies is the one its stage makes of its time and input.
LEMMA VerifiedIsMade ==
  ASSUME NEW k \in Stages, NEW d, Len(d) = k - 1, NEW p, PacketOK(p, k), Checks(k, d, p)
  PROVE  p = Packet(d, p.at, p.input, IF Len(d) = 8 THEN p.result ELSE Derived(d, p.input))
<1>1. p.sealed = TRUE /\ p.copied = Copied(d)
  BY ChecksBound DEF Bound, PacketOK
<1>2. k \in 1 .. 20
  BY DEF Stages
<1>3. k # 9 => p.result = Derived(d, p.input)
  <2>1. k \in {4, 5, 6, 7, 8, 10, 12} => p.result = Derived(d, p.input)
    <3>1. k \in {4, 5, 6, 7, 8, 10, 12} => p.result = None
      BY DEF PacketOK
    <3>2. k \in {4, 5, 6, 7, 8, 10, 12} => Derived(d, p.input) = None
      BY DerivedAt
    <3>3. QED
      BY <3>1, <3>2
  <2>2. k \in {17, 18} => p.result = Derived(d, p.input)
    <3>1. k \in {17, 18} => p.result /\ p.result \in BOOLEAN
      BY DEF PacketOK, Checks, VerifyAuthority, VerifyApproval
    <3>2. QED
      BY <3>1, DerivedAt
  <2>3. k = 1 => p.result = Derived(d, p.input)
    <3>1. k = 1 => p.result = EligibilityResult(p.input)
      BY DEF Checks, VerifyEligibility
    <3>2. k = 1 => Derived(d, p.input) = EligibilityResult(p.input)
      <4>1. Len(d) + 1 = k
        BY DEF Stages
      <4>2. QED
        BY <4>1 DEF Derived
    <3>3. QED
      BY <3>1, <3>2
  <2>4. k \in {2, 3, 11} => p.result = Derived(d, p.input)
    BY DerivedAt DEF Checks, VerifyReadiness, VerifyFormation, VerifyRequest
  <2>5. k \in {13, 14, 15} => p.result = Derived(d, p.input)
    BY DerivedAt DEF Checks, VerifyAllowlist, VerifyCredential, VerifyOperatorReview
  <2>6. k \in {16, 19, 20} => p.result = Derived(d, p.input)
    BY DerivedAt DEF Checks, VerifyPreDispatch, VerifyFinalReadiness, VerifyGateReview
  <2>7. QED
    BY <1>2, <2>1, <2>2, <2>3, <2>4, <2>5, <2>6
<1>4. Len(d) = 8 <=> k = 9
  BY <1>2
<1>5. p.result = IF Len(d) = 8 THEN p.result ELSE Derived(d, p.input)
  BY <1>3, <1>4
<1>6. p = [at |-> p.at, input |-> p.input, result |-> p.result, copied |-> p.copied,
           sealed |-> p.sealed]
  BY DEF PacketOK
<1>7. QED
  BY <1>1, <1>5, <1>6 DEF Packet

\* The packets of a chain that verifies, computed again, are the chain.
LEMMA DeterminedHolds ==
  ASSUME ChainInv, Verified(chain)
  PROVE  chain = Remade(<<>>, chain)
<1>2. Accepted(chain) /\ IsSeq(chain) /\ Len(chain) \in Nat
  BY SeqFacts DEF ChainInv, PacketsOK, Accepted
<1>3. PICK f : /\ f[0] = <<>>
               /\ \A n \in 1 .. Len(chain) : f[n] = Again(f[n - 1], chain[n])
               /\ Remade(<<>>, chain) = f[Len(chain)]
  BY <1>2, RemadeSteps
<1> DEFINE T == {n \in 0 .. Len(chain) : f[n] = Prefix(chain, n)}
<1>4. 0 \in T
  <2>1. 0 \in 0 .. Len(chain)
    BY <1>2
  <2>2. Prefix(chain, 0) = <<>>
    BY <1>2, <2>1, SeqPrefix, EmptySeq, SeqEqual
  <2>3. QED
    BY <1>3, <2>1, <2>2
<1>5. ASSUME NEW n \in 0 .. Len(chain) - 1, n \in T
      PROVE  n + 1 \in T
  <2> DEFINE k == n + 1
             d == Prefix(chain, n)
             p == chain[k]
  <2>1. k \in 1 .. Len(chain) /\ k - 1 = n /\ n \in 0 .. Len(chain) /\ k \in 0 .. Len(chain)
    BY <1>2
  <2>2. k \in Stages /\ Checks(k, d, p) /\ Len(d) = k - 1 /\ IsSeq(d)
    BY <1>2, <2>1, AcceptedStage
  <2>3. PacketOK(p, k)
    BY <2>1 DEF ChainInv, PacketsOK
  <2>4. p = Packet(d, p.at, p.input, IF Len(d) = 8 THEN p.result ELSE Derived(d, p.input))
    <3> HIDE DEF d, p, k
    <3>1. QED
      BY <2>2, <2>3, VerifiedIsMade
  <2>5. f[k] = Append(d, p)
    <3>1. f[k] = Again(d, p)
      BY <1>3, <1>5, <2>1
    <3>2. QED
      BY <2>4, <3>1 DEF Again
  <2>6. Append(d, p) = Prefix(chain, k)
    <3>1. /\ IsSeq(Append(d, p)) /\ Len(Append(d, p)) = k
          /\ \A i \in 1 .. n : Append(d, p)[i] = d[i]
          /\ Append(d, p)[k] = p
      BY <2>1, <2>2, SeqAppend
    <3>2. \A i \in 1 .. n : d[i] = chain[i]
      BY <1>2, <2>1, SeqPrefix
    <3>3. /\ IsSeq(Prefix(chain, k)) /\ Len(Prefix(chain, k)) = k
          /\ \A i \in 1 .. k : Prefix(chain, k)[i] = chain[i]
      BY <1>2, <2>1, SeqPrefix
    <3>4. \A i \in 1 .. k : i \in 1 .. n \/ i = k
      BY <2>1
    <3>5. \A i \in 1 .. k : Append(d, p)[i] = Prefix(chain, k)[i]
      BY <3>1, <3>2, <3>3, <3>4
    <3> HIDE DEF d, p, k
    <3>6. QED
      BY <3>1, <3>3, <3>5, SeqEqual
  <2>7. QED
    BY <2>1, <2>5, <2>6
<1>6. \A n \in 0 .. Len(chain) : n \in T
  <2> HIDE DEF T
  <2>1. QED
    BY <1>2, <1>4, <1>5, InductionUpTo
<1>7. Remade(<<>>, chain) = Prefix(chain, Len(chain))
  BY <1>2, <1>3, <1>6
<1>8. Prefix(chain, Len(chain)) = chain
  <2>1. Len(chain) \in 0 .. Len(chain)
    BY <1>2
  <2>2. /\ IsSeq(Prefix(chain, Len(chain))) /\ Len(Prefix(chain, Len(chain))) = Len(chain)
        /\ \A i \in 1 .. Len(chain) : Prefix(chain, Len(chain))[i] = chain[i]
    BY <1>2, <2>1, SeqPrefix
  <2>3. QED
    BY <1>2, <2>2, SeqEqual
<1>9. QED
  BY <1>7, <1>8

-----------------------------------------------------------------------------
(* What the builders ask *)

\* The guard of the k-th builder.
Guards(k, d, at, input) ==
  /\ k = 1 => BuildEligibility(d, at, input)
  /\ k = 2 => BuildReadiness(d, at, input)
  /\ k = 3 => BuildFormation(d, at, input)
  /\ k = 4 => BuildPreBind(d, at, input)
  /\ k = 5 => BuildPreflight(d, at, input)
  /\ k = 6 => BuildSelection(d, at, input)
  /\ k = 7 => BuildPlan(d, at, input)
  /\ k = 8 => BuildFixtureResult(d, at, input)
  /\ k = 9 => BuildRehearsal(d, at, input)
  /\ k = 10 => BuildLiveReadiness(d, at, input)
  /\ k = 11 => BuildRequest(d, at, input)
  /\ k = 12 => BuildDispatchReadiness(d, at, input)
  /\ k = 13 => BuildAllowlist(d, at, input)
  /\ k = 14 => BuildCredential(d, at, input)
  /\ k = 15 => BuildOperatorReview(d, at, input)
  /\ k = 16 => BuildPreDispatch(d, at, input)
  /\ k = 17 => BuildAuthority(d, at, input)
  /\ k = 18 => BuildApproval(d, at, input)
  /\ k = 19 => BuildFinalReadiness(d, at, input)
  /\ k = 20 => BuildGateReview(d, at, input)

\* Admits is the guard of the next stage's builder.
LEMMA AdmitsGuards ==
  ASSUME NEW k \in Stages, NEW d, Len(d) = k - 1, NEW at, NEW input
  PROVE  Guards(k, d, at, input) <=> Admits(d, at, input)
<1>1. Len(d) + 1 = k /\ k \in 1 .. 20
  BY DEF Stages
<1> USE DEF Admits, Guards
<1>2. CASE k = 1
  BY <1>1, <1>2
<1>3. CASE k = 2
  BY <1>1, <1>3
<1>4. CASE k = 3
  BY <1>1, <1>4
<1>5. CASE k = 4
  BY <1>1, <1>5
<1>6. CASE k = 5
  BY <1>1, <1>6
<1>7. CASE k = 6
  BY <1>1, <1>7
<1>8. CASE k = 7
  BY <1>1, <1>8
<1>9. CASE k = 8
  BY <1>1, <1>9
<1>10. CASE k = 9
  BY <1>1, <1>10
<1>11. CASE k = 10
  BY <1>1, <1>11
<1>12. CASE k = 11
  BY <1>1, <1>12
<1>13. CASE k = 12
  BY <1>1, <1>13
<1>14. CASE k = 13
  BY <1>1, <1>14
<1>15. CASE k = 14
  BY <1>1, <1>15
<1>16. CASE k = 15
  BY <1>1, <1>16
<1>17. CASE k = 16
  BY <1>1, <1>17
<1>18. CASE k = 17
  BY <1>1, <1>18
<1>19. CASE k = 18
  BY <1>1, <1>19
<1>20. CASE k = 19
  BY <1>1, <1>20
<1>21. CASE k = 20
  BY <1>1, <1>21
<1> HIDE DEF Admits, Guards
<1>22. QED
  BY <1>1, <1>2, <1>3, <1>4, <1>5, <1>6, <1>7, <1>8, <1>9, <1>10, <1>11, <1>12,
     <1>13, <1>14, <1>15, <1>16, <1>17, <1>18, <1>19, <1>20, <1>21

\* The adapter contract of a chain that verifies is for its intent's target,
\* as every packet after the selection repeats them.
LEMMA ContractForTarget ==
  ASSUME NEW c, Accepted(c), NEW k \in 1 .. Len(c), k > 6
  PROVE  ForTarget(c[k].copied.contract, c[k].copied.intent)
<1>1. Len(c) \in Nat /\ Len(c) >= 6 /\ Len(c) >= 3 /\ k > 3
  BY SeqFacts DEF Accepted
<1>2. c[k].copied.contract = c[6].input /\ c[k].copied.intent = c[3].result
  BY <1>1, SlotsCarried DEF Slots
<1>3. Descriptors[c[6].input].target = c[3].result.fields.target
  BY <1>1, SelectedTarget, IntentOfChain
<1>4. QED
  BY <1>2, <1>3 DEF ForTarget

\* In a chain that verifies every builder but the credential's would take the
\* documents and times.
LEMMA VerifiedIsAdmitted ==
  ASSUME NEW c, Accepted(c), NEW k \in 1 .. Len(c), k # 14
  PROVE  Admits(Prefix(c, k - 1), c[k].at, c[k].input)
<1> DEFINE d == Prefix(c, k - 1)
           p == c[k]
<1>1. Len(c) \in Nat /\ Len(c) <= 20
  BY SeqFacts DEF Accepted
<1>2. /\ k \in Stages /\ Checks(k, d, p) /\ Len(d) = k - 1
      /\ k > 1 => Source(d) = c[k - 1]
  BY AcceptedStage
<1>3. k > 7 => ForTarget(Source(d).copied.contract, Source(d).copied.intent)
  <2>1. ASSUME k > 7 PROVE k - 1 \in 1 .. Len(c) /\ k - 1 > 6 /\ k > 1
    BY <1>1, <2>1
  <2>2. QED
    BY <1>2, <2>1, ContractForTarget
<1>4. k = 7 => ForTarget(Source(d).input, Source(d).copied.intent)
  <2>1. SUFFICES ASSUME k = 7
                 PROVE  ForTarget(Source(d).input, Source(d).copied.intent)
    OBVIOUS
  <2>2. 6 \in 1 .. Len(c) /\ Source(d) = c[6]
    BY <1>1, <1>2, <2>1
  <2>3. VerifySelection(Prefix(c, 6 - 1), c[6])
    BY <2>2, AcceptedStage DEF Checks
  <2>4. QED
    BY <2>2, <2>3 DEF VerifySelection, Selectable, ForTarget
<1> HIDE DEF d, p
<1>5. Guards(k, d, p.at, p.input)
  <2>1. /\ k = 1 => BuildEligibility(d, p.at, p.input)
        /\ k = 2 => BuildReadiness(d, p.at, p.input)
        /\ k = 3 => BuildFormation(d, p.at, p.input)
    BY <1>2 DEF Checks, VerifyEligibility, BuildEligibility, VerifyReadiness, BuildReadiness,
      VerifyFormation, BuildFormation
  <2>2. /\ k = 4 => BuildPreBind(d, p.at, p.input)
        /\ k = 5 => BuildPreflight(d, p.at, p.input)
    BY <1>2 DEF Checks, VerifyPreBind, BuildPreBind, VerifyPreflight, BuildPreflight
  <2>3. k = 6 => BuildSelection(d, p.at, p.input)
    <3>1. SUFFICES ASSUME k = 6 PROVE BuildSelection(d, p.at, p.input)
      OBVIOUS
    <3>2. VerifySelection(d, p)
      BY <1>2, <3>1 DEF Checks
    <3>3. p.copied.intent = c[3].result /\ c[5].copied.intent = c[3].result
      <4>1. 6 \in 1 .. Len(c) /\ 5 \in 1 .. Len(c) /\ p = c[6]
        BY <1>1, <3>1 DEF p
      <4>2. QED
        BY <4>1, SlotsCarried DEF Slots
    <3>4. Source(d) = c[5]
      BY <1>2, <3>1
    <3>5. QED
      BY <3>2, <3>3, <3>4 DEF VerifySelection, BuildSelection
  <2>4. k = 7 => BuildPlan(d, p.at, p.input)
    BY <1>2, <1>4 DEF Checks, VerifyPlan, BuildPlan
  <2>5. /\ k = 8 => BuildFixtureResult(d, p.at, p.input)
        /\ k = 9 => BuildRehearsal(d, p.at, p.input)
    BY <1>2, <1>3 DEF Checks, VerifyFixtureResult, BuildFixtureResult, VerifyRehearsal,
      BuildRehearsal
  <2>6. /\ k = 10 => BuildLiveReadiness(d, p.at, p.input)
        /\ k = 11 => BuildRequest(d, p.at, p.input)
        /\ k = 12 => BuildDispatchReadiness(d, p.at, p.input)
        /\ k = 13 => BuildAllowlist(d, p.at, p.input)
    BY <1>2 DEF Checks, VerifyLiveReadiness, BuildLiveReadiness, VerifyRequest, BuildRequest,
      VerifyDispatchReadiness, BuildDispatchReadiness, VerifyAllowlist, BuildAllowlist
  <2>7. /\ k = 15 => BuildOperatorReview(d, p.at, p.input)
        /\ k = 16 => BuildPreDispatch(d, p.at, p.input)
    BY <1>2 DEF Checks, VerifyOperatorReview, BuildOperatorReview, VerifyPreDispatch,
      BuildPreDispatch
  <2>8. /\ k = 17 => BuildAuthority(d, p.at, p.input)
        /\ k = 18 => BuildApproval(d, p.at, p.input)
    BY <1>2 DEF Checks, VerifyAuthority, BuildAuthority, VerifyApproval, BuildApproval
  <2>9. /\ k = 19 => BuildFinalReadiness(d, p.at, p.input)
        /\ k = 20 => BuildGateReview(d, p.at, p.input)
    BY <1>2 DEF Checks, VerifyFinalReadiness, BuildFinalReadiness, VerifyGateReview,
      BuildGateReview
  <2>10. QED
    BY <2>1, <2>2, <2>3, <2>4, <2>5, <2>6, <2>7, <2>8, <2>9 DEF Guards
<1>6. Admits(d, p.at, p.input)
  BY <1>2, <1>5, AdmitsGuards
<1>7. QED
  BY <1>6 DEF d, p

\* Both parts of Replayable.
LEMMA ReplayableHolds ==
  ASSUME ChainInv
  PROVE  Replayable
<1>1. SUFFICES ASSUME Verified(chain) PROVE Replayable
  BY DEF Replayable
<1>2. Accepted(chain) /\ DOMAIN chain = 1 .. Len(chain)
  BY <1>1, SeqFacts DEF ChainInv, PacketsOK, Accepted
<1>3. QED
  BY <1>1, <1>2, DeterminedHolds, VerifiedIsAdmitted DEF Replayable

-----------------------------------------------------------------------------
(* Every chain that is built or changed by hand consists of packets *)

\* What a builder appends.
LEMMA BuildPackets ==
  ASSUME ChainInv, NEW k \in Stages, NEW at \in Times, NEW input \in Inputs(k), NEW result,
         k \in {17, 18} => result \in BOOLEAN,
         k \in {4, 5, 6, 7, 8, 10, 12} => result = None,
         Build(k, at, input, result)
  PROVE  ChainInv'
<1> DEFINE p == Packet(chain, at, input, result)
<1>1. Len(chain) = k - 1 /\ chain' = Append(chain, p)
  BY DEF Build
<1>2. IsSeq(chain) /\ Len(chain) \in Nat /\ \A j \in 1 .. Len(chain) : PacketOK(chain[j], j)
  BY SeqFacts DEF ChainInv, PacketsOK
<1>3. PacketOK(p, k)
  BY DEF PacketOK, Packet
<1> HIDE DEF p
<1>4. /\ IsSeq(chain') /\ Len(chain') = k
      /\ \A i \in 1 .. Len(chain) : chain'[i] = chain[i]
      /\ chain'[k] = p
  <2>1. (Len(chain) + 1) = k
    BY <1>1 DEF Stages
  <2>2. QED
    BY <1>1, <1>2, <2>1, SeqAppend
<1>5. \A j \in 1 .. k : j \in 1 .. Len(chain) \/ j = k
  BY <1>1 DEF Stages
<1>6. \A j \in 1 .. Len(chain') : PacketOK(chain'[j], j)
  BY <1>2, <1>3, <1>4, <1>5
<1>7. QED
  BY <1>4, <1>6 DEF ChainInv, PacketsOK, Stages

\* The time that a builder is given is one of Times.
LEMMA AtTimes ==
  ASSUME ChainInv
  PROVE  At \subseteq Times
<1>1. CASE chain = <<>> \/ Len(chain) + 1 \in Timed
  BY <1>1 DEF At
<1>2. CASE ~(chain = <<>> \/ Len(chain) + 1 \in Timed)
  <2>1. IsSeq(chain) /\ Len(chain) \in Nat
    BY SeqFacts DEF ChainInv, PacketsOK
  <2>2. Len(chain) # 0
    BY <1>2, <2>1, EmptySeq, SeqEqual
  <2>3. Len(chain) \in 1 .. Len(chain)
    BY <2>1, <2>2
  <2>4. PacketOK(chain[Len(chain)], Len(chain))
    BY <2>3 DEF ChainInv, PacketsOK
  <2>5. Source(chain).at \in Times
    BY <2>4 DEF PacketOK, Source
  <2>6. QED
    BY <1>2, <2>5 DEF At
<1>3. QED
  BY <1>1, <1>2

\* What each builder may be given.
LEMMA BuilderInputs ==
  /\ \A h \in DOMAIN Handoffs, e \in Times : [handoff |-> h, evaluated |-> e] \in Inputs(1)
  /\ \A k \in {2, 3, 4, 5, 7, 9, 10, 11, 12} : None \in Inputs(k)
  /\ Inputs(6) = DOMAIN Descriptors /\ Inputs(8) = FixtureInputs
  /\ Inputs(13) = Candidates /\ Inputs(14) = References /\ Inputs(15) = Decisions
  /\ Inputs(16) = Outcomes /\ Inputs(17) = Authorities /\ Inputs(18) = Approvals
  /\ Inputs(19) = Outcomes /\ Inputs(20) = Outcomes
<1>1. \A h \in DOMAIN Handoffs, e \in Times : [handoff |-> h, evaluated |-> e] \in Inputs(1)
  BY DEF Inputs
<1>2. \A k \in {2, 3, 4, 5, 7, 9, 10, 11, 12} : None \in Inputs(k)
  <2>1. None \in Inputs(2) /\ None \in Inputs(3) /\ None \in Inputs(4) /\ None \in Inputs(5)
    BY DEF Inputs
  <2>2. None \in Inputs(7) /\ None \in Inputs(9) /\ None \in Inputs(10)
    BY DEF Inputs
  <2>3. None \in Inputs(11) /\ None \in Inputs(12)
    BY DEF Inputs
  <2>4. QED
    BY <2>1, <2>2, <2>3
<1>3. Inputs(6) = DOMAIN Descriptors /\ Inputs(8) = FixtureInputs
  BY DEF Inputs
<1>4. Inputs(13) = Candidates /\ Inputs(14) = References /\ Inputs(15) = Decisions
  BY DEF Inputs
<1>5. Inputs(16) = Outcomes /\ Inputs(19) = Outcomes /\ Inputs(20) = Outcomes
  BY DEF Inputs
<1>6. Inputs(17) = Authorities /\ Inputs(18) = Approvals
  BY DEF Inputs
<1>7. QED
  BY <1>1, <1>2, <1>3, <1>4, <1>5, <1>6

Building ==
  \/ Eligibility \/ Readiness \/ Formation \/ PreBind \/ Preflight
  \/ Selection \/ Plan \/ FixtureResult \/ Rehearsal
  \/ LiveReadiness \/ Request \/ DispatchReadiness \/ Allowlist \/ Credential
  \/ OperatorReview \/ PreDispatch \/ Authority \/ Approval
  \/ FinalReadiness \/ GateReview

\* Every builder leaves a chain of packets.
LEMMA BuildersKeep ==
  ASSUME ChainInv, Building
  PROVE  ChainInv'
<1>1. At \subseteq Times
  BY AtTimes
<1> USE BuildPackets, BuilderInputs DEF Stages
<1>2. CASE Eligibility
  BY <1>1, <1>2 DEF Eligibility
<1>3. CASE Readiness
  BY <1>1, <1>3 DEF Readiness
<1>4. CASE Formation
  BY <1>1, <1>4 DEF Formation
<1>5. CASE PreBind
  BY <1>1, <1>5 DEF PreBind
<1>6. CASE Preflight
  BY <1>1, <1>6 DEF Preflight
<1>7. CASE Selection
  BY <1>1, <1>7 DEF Selection
<1>8. CASE Plan
  BY <1>1, <1>8 DEF Plan
<1>9. CASE FixtureResult
  BY <1>1, <1>9 DEF FixtureResult
<1>10. CASE Rehearsal
  BY <1>1, <1>10 DEF Rehearsal
<1>11. CASE LiveReadiness
  BY <1>1, <1>11 DEF LiveReadiness
<1>12. CASE Request
  BY <1>1, <1>12 DEF Request
<1>13. CASE DispatchReadiness
  BY <1>1, <1>13 DEF DispatchReadiness
<1>14. CASE Allowlist
  BY <1>1, <1>14 DEF Allowlist
<1>15. CASE Credential
  BY <1>1, <1>15 DEF Credential
<1>16. CASE OperatorReview
  BY <1>1, <1>16 DEF OperatorReview
<1>17. CASE PreDispatch
  BY <1>1, <1>17 DEF PreDispatch
<1>18. CASE Authority
  <2>1. PICK at \in At, b \in Authorities : Build(17, at, b, TRUE)
    BY <1>18 DEF Authority
  <2>2. at \in Times /\ b \in Inputs(17) /\ 17 \in Stages /\ TRUE \in BOOLEAN
        /\ 17 \notin {4, 5, 6, 7, 8, 10, 12}
    BY <1>1
  <2>3. QED
    BY <2>1, <2>2, BuildPackets, Zenon
<1>19. CASE Approval
  <2>1. PICK at \in At, b \in Approvals : Build(18, at, b, TRUE)
    BY <1>19 DEF Approval
  <2>2. at \in Times /\ b \in Inputs(18) /\ 18 \in Stages /\ TRUE \in BOOLEAN
        /\ 18 \notin {4, 5, 6, 7, 8, 10, 12}
    BY <1>1
  <2>3. QED
    BY <2>1, <2>2, BuildPackets, Zenon
<1>20. CASE FinalReadiness
  BY <1>1, <1>20 DEF FinalReadiness
<1>21. CASE GateReview
  BY <1>1, <1>21 DEF GateReview
<1>22. QED
  BY <1>2, <1>3, <1>4, <1>5, <1>6, <1>7, <1>8, <1>9, <1>10, <1>11, <1>12, <1>13,
     <1>14, <1>15, <1>16, <1>17, <1>18, <1>19, <1>20, <1>21 DEF Building

\* A packet that is made again is a packet of its stage.
LEMMA AgainPackets ==
  ASSUME NEW d, PacketsOK(d), NEW k \in Stages, Len(d) = k - 1, NEW p, PacketOK(p, k)
  PROVE  PacketsOK(Again(d, p)) /\ Len(Again(d, p)) = k
<1> DEFINE r == IF Len(d) = 8 THEN p.result ELSE Derived(d, p.input)
           q == Packet(d, p.at, p.input, r)
<1>1. IsSeq(d) /\ Len(d) \in Nat /\ Len(d) + 1 = k
  BY SeqFacts DEF PacketsOK, Stages
<1>2. k \in {17, 18} => r \in BOOLEAN
  <2>1. k \in {17, 18} => Derived(d, p.input) = TRUE
    BY DerivedAt
  <2>2. k \in {17, 18} => Len(d) # 8
    BY <1>1
  <2>3. k \in {17, 18} => r = Derived(d, p.input)
    BY <2>2
  <2> HIDE DEF r
  <2>4. QED
    BY <2>1, <2>3
<1>3. k \in {4, 5, 6, 7, 8, 10, 12} => r = None
  <2>1. k \in {4, 5, 6, 7, 8, 10, 12} => Derived(d, p.input) = None
    BY DerivedAt
  <2>2. QED
    BY <1>1, <2>1
<1> HIDE DEF r
<1>4. PacketOK(q, k)
  BY <1>2, <1>3 DEF PacketOK, Packet
<1>5. Again(d, p) = Append(d, q)
  BY DEF Again, r
<1> HIDE DEF q
<1>6. /\ IsSeq(Append(d, q)) /\ Len(Append(d, q)) = k
      /\ \A i \in 1 .. Len(d) : Append(d, q)[i] = d[i]
      /\ Append(d, q)[k] = q
  BY <1>1, SeqAppend
<1>7. \A i \in 1 .. k : i \in 1 .. Len(d) \/ i = k
  BY <1>1
<1>8. \A i \in 1 .. k : PacketOK(Append(d, q)[i], i)
  BY <1>4, <1>6, <1>7 DEF PacketsOK
<1>9. QED
  BY <1>5, <1>6, <1>8 DEF PacketsOK, Stages

\* The stage of the packet after the n-th of the b remade ones.
LEMMA StageAfter ==
  ASSUME NEW a \in Nat, NEW b \in Nat, NEW n \in Nat, a + b <= 20, n + 1 <= b
  PROVE  a + (n + 1) \in Stages /\ a + n = (a + (n + 1)) - 1
BY DEF Stages

\* Packets that are made again on a chain of packets make a longer one.
LEMMA RemadePackets ==
  ASSUME NEW c, PacketsOK(c), NEW Q, IsSeq(Q), Len(c) + Len(Q) <= 20,
         \A n \in 1 .. Len(Q) : PacketOK(Q[n], Len(c) + n)
  PROVE  PacketsOK(Remade(c, Q))
<1>1. Len(Q) \in Nat /\ Len(c) \in Nat
  BY SeqFacts DEF PacketsOK
<1>2. PICK f : /\ f[0] = c
               /\ \A n \in 1 .. Len(Q) : f[n] = Again(f[n - 1], Q[n])
               /\ Remade(c, Q) = f[Len(Q)]
  BY RemadeSteps
<1> DEFINE T == {n \in 0 .. Len(Q) : PacketsOK(f[n]) /\ Len(f[n]) = Len(c) + n}
<1>3. 0 \in T
  BY <1>1, <1>2
<1>4. ASSUME NEW n \in 0 .. Len(Q) - 1, n \in T
      PROVE  n + 1 \in T
  <2>1. n + 1 \in 1 .. Len(Q) /\ (n + 1) - 1 = n
    BY <1>1
  <2>2. Len(c) + (n + 1) \in Stages /\ Len(f[n]) = (Len(c) + (n + 1)) - 1
    <3>1. Len(f[n]) = Len(c) + n
      BY <1>4
    <3>2. n \in Nat /\ n + 1 <= Len(Q)
      BY <1>1
    <3>3. QED
      BY <1>1, <3>1, <3>2, StageAfter
  <2>3. PacketOK(Q[n + 1], Len(c) + (n + 1)) /\ PacketsOK(f[n])
    BY <1>4, <2>1
  <2>4. f[n + 1] = Again(f[n], Q[n + 1])
    BY <1>2, <2>1
  <2>5. PacketsOK(f[n + 1]) /\ Len(f[n + 1]) = Len(c) + (n + 1)
    BY <2>2, <2>3, <2>4, AgainPackets
  <2>6. QED
    BY <1>1, <2>1, <2>5
<1>5. \A n \in 0 .. Len(Q) : n \in T
  <2> HIDE DEF T
  <2>1. QED
    BY <1>1, <1>3, <1>4, InductionUpTo
<1>6. QED
  BY <1>1, <1>2, <1>5

\* What a packet of the k-th stage may be changed into.
LEMMA ResultTypes ==
  ASSUME NEW c, NEW k \in Stages, NEW r \in Results(c, k)
  PROVE  /\ k \in {17, 18} => r \in BOOLEAN
         /\ k \in {4, 5, 6, 7, 8, 10, 12} => r = None
<1>1. k = 17 => Results(c, k) = BOOLEAN
  BY DEF Results
<1>2. k = 18 => Results(c, k) = BOOLEAN
  BY DEF Results
<1>3. k = 4 => Results(c, k) = {None}
  BY DEF Results
<1>4. k = 5 => Results(c, k) = {None}
  BY DEF Results
<1>5. k = 6 => Results(c, k) = {None}
  BY DEF Results
<1>6. k = 7 => Results(c, k) = {None}
  BY DEF Results
<1>7. k = 8 => Results(c, k) = {None}
  BY DEF Results
<1>8. k = 10 => Results(c, k) = {None}
  BY DEF Results
<1>9. k = 12 => Results(c, k) = {None}
  BY DEF Results
<1>10. QED
  BY <1>1, <1>2, <1>3, <1>4, <1>5, <1>6, <1>7, <1>8, <1>9

\* A packet changed by hand is still one of its stage.
LEMMA ChangedPackets ==
  ASSUME ChainInv, NEW k \in 1 .. Len(chain), NEW q \in Changes(chain, k)
  PROVE  PacketOK(q, k)
<1> DEFINE p == chain[k]
           d == Prefix(chain, k - 1)
<1>1. IsSeq(chain) /\ Len(chain) \in Nat /\ Len(chain) <= 20 /\ PacketOK(p, k)
  BY SeqFacts DEF ChainInv, PacketsOK
<1>2. k \in Stages /\ k - 1 \in 0 .. Len(chain)
  BY <1>1 DEF Stages
<1>3. Len(d) = k - 1
  BY <1>1, <1>2, SeqPrefix
<1>4. \/ \E t \in Times : q = [p EXCEPT !.at = t]
      \/ \E i \in Inputs(k) : q = [p EXCEPT !.input = i]
      \/ \E i \in Inputs(k) : q = [p EXCEPT !.input = i, !.result = Derived(d, i)]
      \/ \E r \in Results(chain, k) : q = [p EXCEPT !.result = r]
      \/ \E y : q = [p EXCEPT !.copied = y]
  <2>1. \/ q \in {[p EXCEPT !.at = t] : t \in Times}
        \/ q \in {[p EXCEPT !.input = i] : i \in Inputs(k) \ {p.input}}
        \/ q \in {[p EXCEPT !.input = i, !.result = Derived(d, i)] : i \in Inputs(k) \ {p.input}}
        \/ q \in {[p EXCEPT !.result = r] : r \in Results(chain, k)}
        \/ q \in UNION {{[p EXCEPT !.copied = [@ EXCEPT ![s] = v]] : v \in Others(chain, s)} :
                         s \in DOMAIN p.copied}
    BY DEF Changes
  <2> HIDE DEF p, d
  <2>2. ASSUME q \in UNION {{[p EXCEPT !.copied = [@ EXCEPT ![s] = v]] : v \in Others(chain, s)} :
                            s \in DOMAIN p.copied}
        PROVE  \E y : q = [p EXCEPT !.copied = y]
    <3>1. PICK s \in DOMAIN p.copied :
            q \in {[p EXCEPT !.copied = [@ EXCEPT ![s] = v]] : v \in Others(chain, s)}
      BY <2>2
    <3>2. PICK v : q = [p EXCEPT !.copied = [@ EXCEPT ![s] = v]]
      BY <3>1
    <3>3. q = [p EXCEPT !.copied = [p.copied EXCEPT ![s] = v]]
      BY <3>2
    <3>4. QED
      BY <3>3
  <2>3. QED
    BY <2>1, <2>2
<1> HIDE DEF p, d
<1>5. CASE \E t \in Times : q = [p EXCEPT !.at = t]
  BY <1>1, <1>5 DEF PacketOK
<1>6. CASE \E i \in Inputs(k) : q = [p EXCEPT !.input = i]
  BY <1>1, <1>6 DEF PacketOK
<1>7. CASE \E i \in Inputs(k) : q = [p EXCEPT !.input = i, !.result = Derived(d, i)]
  <2>1. PICK i \in Inputs(k) : q = [p EXCEPT !.input = i, !.result = Derived(d, i)]
    BY <1>7
  <2>2. /\ k \in {17, 18} => Derived(d, i) \in BOOLEAN
        /\ k \in {4, 5, 6, 7, 8, 10, 12} => Derived(d, i) = None
    BY <1>2, <1>3, DerivedAt
  <2>3. QED
    BY <1>1, <2>1, <2>2 DEF PacketOK
<1>8. CASE \E r \in Results(chain, k) : q = [p EXCEPT !.result = r]
  <2>1. PICK r \in Results(chain, k) : q = [p EXCEPT !.result = r]
    BY <1>8
  <2>2. /\ k \in {17, 18} => r \in BOOLEAN
        /\ k \in {4, 5, 6, 7, 8, 10, 12} => r = None
    BY <1>2, ResultTypes
  <2>3. QED
    BY <1>1, <2>1, <2>2 DEF PacketOK
<1>9. CASE \E y : q = [p EXCEPT !.copied = y]
  BY <1>1, <1>9 DEF PacketOK
<1>10. QED
  BY <1>4, <1>5, <1>6, <1>7, <1>8, <1>9

\* A chain that was changed by hand consists of packets.
LEMMA EditPackets ==
  ASSUME ChainInv, Edit
  PROVE  ChainInv'
<1>1. IsSeq(chain) /\ Len(chain) \in Nat /\ Len(chain) <= 20 /\ DOMAIN chain = 1 .. Len(chain)
      /\ \A j \in 1 .. Len(chain) : PacketOK(chain[j], j)
  BY SeqFacts DEF ChainInv, PacketsOK
<1>2. PICK k \in 1 .. Len(chain) : \E p \in Changes(chain, k) :
        LET all == [chain EXCEPT ![k] = p]
            one == [j \in DOMAIN chain |-> IF j > k THEN [chain[j] EXCEPT !.sealed = FALSE]
                                           ELSE all[j]]
        IN chain' \in {one, all, Remade(Prefix(all, k), SubSeq(chain, k + 1, Len(chain)))}
  BY <1>1 DEF Edit
<1>2a. PICK p \in Changes(chain, k) :
        LET all == [chain EXCEPT ![k] = p]
            one == [j \in DOMAIN chain |-> IF j > k THEN [chain[j] EXCEPT !.sealed = FALSE]
                                           ELSE all[j]]
        IN chain' \in {one, all, Remade(Prefix(all, k), SubSeq(chain, k + 1, Len(chain)))}
  BY <1>2
<1> DEFINE all == [chain EXCEPT ![k] = p]
           one == [j \in DOMAIN chain |-> IF j > k THEN [chain[j] EXCEPT !.sealed = FALSE]
                                          ELSE all[j]]
           rest == SubSeq(chain, k + 1, Len(chain))
<1>3. PacketOK(p, k)
  BY ChangedPackets
<1>4. chain = [j \in 1 .. Len(chain) |-> chain[j]]
  BY <1>1 DEF IsSeq
<1>5. \A j \in 1 .. Len(chain) : all[j] = IF j = k THEN p ELSE chain[j]
  BY <1>1, <1>4
<1>6. PacketsOK(all) /\ Len(all) = Len(chain)
  <2>1. all = [j \in 1 .. Len(chain) |-> all[j]]
    BY <1>4
  <2>2. IsSeq(all) /\ Len(all) = Len(chain)
    <3> HIDE DEF all
    <3>1. QED
      BY <1>1, <2>1, SeqOfFunction
  <2> HIDE DEF all
  <2>3. \A j \in 1 .. Len(chain) : PacketOK(all[j], j)
    BY <1>1, <1>3, <1>5
  <2>4. QED
    BY <1>1, <2>2, <2>3 DEF PacketsOK
<1>7. PacketsOK(one)
  <2> HIDE DEF all
  <2>1. one = [j \in 1 .. Len(chain) |-> one[j]]
    BY <1>1
  <2>2. IsSeq(one) /\ Len(one) = Len(chain)
    <3> HIDE DEF one
    <3>1. QED
      BY <1>1, <2>1, SeqOfFunction
  <2>3. ASSUME NEW j \in 1 .. Len(chain)
        PROVE  PacketOK(one[j], j)
    <3>1. one[j] = IF j > k THEN [chain[j] EXCEPT !.sealed = FALSE] ELSE all[j]
      BY <1>1
    <3>2. PacketOK(chain[j], j) /\ PacketOK(all[j], j)
      BY <1>1, <1>6 DEF PacketsOK
    <3> HIDE DEF one
    <3>3. CASE j > k
      <4>1. one[j] = [chain[j] EXCEPT !.sealed = FALSE]
        BY <3>1, <3>3
      <4>2. QED
        BY <3>2, <4>1 DEF PacketOK
    <3>4. CASE ~(j > k)
      BY <3>1, <3>2, <3>4
    <3>5. QED
      BY <3>3, <3>4
  <2> HIDE DEF one
  <2>4. QED
    BY <1>1, <2>2, <2>3 DEF PacketsOK
<1>8. PacketsOK(Remade(Prefix(all, k), rest))
  <2> HIDE DEF all
  <2>1. k \in 0 .. Len(all) /\ k \in 0 .. Len(chain) /\ IsSeq(all)
    BY <1>1, <1>6 DEF PacketsOK
  <2>2. /\ IsSeq(Prefix(all, k)) /\ Len(Prefix(all, k)) = k
        /\ \A i \in 1 .. k : Prefix(all, k)[i] = all[i]
    BY <2>1, SeqPrefix
  <2>3. PacketsOK(Prefix(all, k))
    BY <1>1, <1>6, <2>2 DEF PacketsOK
  <2>4. /\ IsSeq(rest) /\ Len(rest) = Len(chain) - k
        /\ \A i \in 1 .. Len(chain) - k : rest[i] = chain[k + i]
    BY <1>1, <2>1, SeqSuffix
  <2> HIDE DEF rest
  <2>5. ASSUME NEW n \in 1 .. Len(rest)
        PROVE  PacketOK(rest[n], Len(Prefix(all, k)) + n)
    <3>1. k + n \in 1 .. Len(chain) /\ rest[n] = chain[k + n]
      BY <1>1, <2>1, <2>4
    <3>2. QED
      BY <1>1, <2>2, <3>1
  <2>6. Len(Prefix(all, k)) + Len(rest) <= 20
    BY <1>1, <2>2, <2>4
  <2>7. QED
    BY <2>3, <2>4, <2>5, <2>6, RemadePackets
<1>9. chain' \in {one, all, Remade(Prefix(all, k), rest)}
  BY <1>2a
<1> HIDE DEF one, all, rest
<1>10. QED
  BY <1>6, <1>7, <1>8, <1>9 DEF ChainInv

-----------------------------------------------------------------------------
(* What only the builders see to *)

\* A chain with one more packet keeps what its builders saw to.
LEMMA BuildKeeps ==
  ASSUME ChainInv, BuiltInv, NEW k \in Stages, NEW at, NEW input, NEW result,
         Build(k, at, input, result),
         k = 9 => \E f : result = RehearsalResult(chain, f)
  PROVE  BuiltInv'
<1> DEFINE p == Packet(chain, at, input, result)
<1>1. /\ Len(chain) = k - 1 /\ chain' = Append(chain, p) /\ edited' = edited
      /\ Verified(chain) /\ Admits(chain, at, input)
  BY DEF Build
<1>2. p.input = input /\ p.result = result
  BY DEF Packet
<1>3. IsSeq(chain) /\ Len(chain) \in Nat /\ Accepted(chain) /\ Len(chain) + 1 = k /\ k \in 1 .. 20
  BY <1>1, SeqFacts DEF ChainInv, PacketsOK, Accepted, Stages
<1> HIDE DEF p
<1>4. /\ Len(chain') = k /\ chain'[k] = p
      /\ \A i \in 1 .. k - 1 : chain'[i] = chain[i]
  BY <1>1, <1>3, SeqAppend
<1>5. CASE k < 9
  BY <1>3, <1>4, <1>5 DEF BuiltInv
<1>6. CASE k = 9
  <2>1. PICK f : result = RehearsalResult(chain, f)
    BY <1>6
  <2>2. 8 \in 1 .. Len(chain) /\ Source(chain) = chain[8] /\ chain'[3] = chain[3]
    BY <1>1, <1>4, <1>6 DEF Source
  <2>3. chain[8].copied.intent = chain[3].result
    BY <1>3, <2>2, SlotsCarried DEF Slots
  <2>4. /\ result.output.intent = chain[3].result
        /\ result.output.target = chain[3].result.fields.target
    BY <2>1, <2>2, <2>3 DEF RehearsalResult
  <2>5. chain'[9].result = result
    BY <1>2, <1>4, <1>6
  <2>6. RehearsalOf(chain')
    BY <2>2, <2>4, <2>5 DEF RehearsalOf
  <2>7. ~(Len(chain') >= 14)
    BY <1>4, <1>6
  <2>8. QED
    BY <2>6, <2>7 DEF BuiltInv
<1>7. CASE k > 9
  <2>1. chain'[9] = chain[9] /\ chain'[3] = chain[3] /\ Len(chain) >= 9 /\ chain'[6] = chain[6]
    BY <1>3, <1>4, <1>7
  <2>2. RehearsalOf(chain) => RehearsalOf(chain')
    BY <2>1 DEF RehearsalOf
  <2>3. CASE k < 14
    BY <1>1, <1>4, <2>1, <2>2, <2>3 DEF BuiltInv
  <2>4. CASE k = 14
    <3>1. BuildCredential(chain, at, input)
      BY <1>1, <1>3, <2>4 DEF Admits
    <3>2. 13 \in 1 .. Len(chain) /\ Source(chain) = chain[13] /\ chain'[13] = chain[13]
      BY <1>1, <1>4, <2>4 DEF Source
    <3>3. chain[13].copied.contract = chain[6].input
      BY <1>3, <3>2, SlotsCarried DEF Slots
    <3>4. /\ input.reference.contract = chain[6].input
          /\ input.reference.endpoint = chain[13].input.candidate.id
      BY <3>1, <3>2, <3>3 DEF BuildCredential
    <3>5. chain'[14].input = input
      BY <1>2, <1>4, <2>4
    <3>6. ReferenceOf(chain')
      BY <2>1, <3>2, <3>4, <3>5 DEF ReferenceOf
    <3>7. QED
      BY <1>1, <2>1, <2>2, <3>6 DEF BuiltInv
  <2>5. CASE k > 14
    <3>1. chain'[14] = chain[14] /\ chain'[13] = chain[13] /\ Len(chain) >= 14
      BY <1>3, <1>4, <2>5
    <3>2. ReferenceOf(chain) => ReferenceOf(chain')
      BY <2>1, <3>1 DEF ReferenceOf
    <3>3. QED
      BY <1>1, <2>1, <2>2, <3>1, <3>2 DEF BuiltInv
  <2>6. QED
    BY <1>3, <2>3, <2>4, <2>5
<1>8. QED
  BY <1>3, <1>5, <1>6, <1>7

\* Every builder is one of those.
LEMMA BuildingBuilds ==
  ASSUME Building
  PROVE  \E k \in Stages : \E at, input, result :
           /\ Build(k, at, input, result)
           /\ k = 9 => \E f : result = RehearsalResult(chain, f)
<1> USE DEF Stages
<1>1. CASE Eligibility
  BY <1>1 DEF Eligibility
<1>2. CASE Readiness
  BY <1>2 DEF Readiness
<1>3. CASE Formation
  BY <1>3 DEF Formation
<1>4. CASE PreBind
  BY <1>4 DEF PreBind
<1>5. CASE Preflight
  BY <1>5 DEF Preflight
<1>6. CASE Selection
  BY <1>6 DEF Selection
<1>7. CASE Plan
  BY <1>7 DEF Plan
<1>8. CASE FixtureResult
  BY <1>8 DEF FixtureResult
<1>9. CASE Rehearsal
  BY <1>9 DEF Rehearsal
<1>10. CASE LiveReadiness
  BY <1>10 DEF LiveReadiness
<1>11. CASE Request
  BY <1>11 DEF Request
<1>12. CASE DispatchReadiness
  BY <1>12 DEF DispatchReadiness
<1>13. CASE Allowlist
  BY <1>13 DEF Allowlist
<1>14. CASE Credential
  BY <1>14 DEF Credential
<1>15. CASE OperatorReview
  BY <1>15 DEF OperatorReview
<1>16. CASE PreDispatch
  BY <1>16 DEF PreDispatch
<1>17. CASE Authority
  <2>1. PICK at \in At, b \in Authorities : Build(17, at, b, TRUE)
    BY <1>17 DEF Authority
  <2>2. 17 \in Stages /\ 17 # 9
    OBVIOUS
  <2>3. QED
    BY <2>1, <2>2, Zenon
<1>18. CASE Approval
  <2>1. PICK at \in At, b \in Approvals : Build(18, at, b, TRUE)
    BY <1>18 DEF Approval
  <2>2. 18 \in Stages /\ 18 # 9
    OBVIOUS
  <2>3. QED
    BY <2>1, <2>2, Zenon
<1>19. CASE FinalReadiness
  BY <1>19 DEF FinalReadiness
<1>20. CASE GateReview
  BY <1>20 DEF GateReview
<1>21. QED
  BY <1>1, <1>2, <1>3, <1>4, <1>5, <1>6, <1>7, <1>8, <1>9, <1>10, <1>11, <1>12,
     <1>13, <1>14, <1>15, <1>16, <1>17, <1>18, <1>19, <1>20 DEF Building

-----------------------------------------------------------------------------
(* Theorems *)

\* Building, changing and making packets again keeps them packets.
LEMMA ChainInvariant == Spec => []ChainInv
<1>1. Init => ChainInv
  <2>1. \A k \in 1 .. 0 : FALSE
    OBVIOUS
  <2>2. QED
    BY <2>1, EmptySeq DEF Init, ChainInv, PacketsOK
<1>2. ChainInv /\ [Next]_vars => ChainInv'
  <2>1. SUFFICES ASSUME ChainInv, [Next]_vars PROVE ChainInv'
    OBVIOUS
  <2>2. CASE Building
    BY <2>1, <2>2, BuildersKeep
  <2>3. CASE Edit
    BY <2>1, <2>3, EditPackets
  <2>4. CASE UNCHANGED vars
    BY <2>1, <2>4 DEF vars, ChainInv
  <2>5. QED
    BY <2>1, <2>2, <2>3, <2>4 DEF Next, Building
<1>3. QED
  BY <1>1, <1>2, PTL DEF Spec

\* While nobody has changed a document, the rehearsal and the credential
\* reference are of this chain.
LEMMA BuiltInvariant == Spec => []BuiltInv
<1>1. Init => BuiltInv
  BY EmptySeq DEF Init, BuiltInv
<1>2. ChainInv /\ BuiltInv /\ [Next]_vars => BuiltInv'
  <2>1. SUFFICES ASSUME ChainInv, BuiltInv, [Next]_vars PROVE BuiltInv'
    OBVIOUS
  <2>2. CASE Building
    BY <2>1, <2>2, BuildingBuilds, BuildKeeps
  <2>3. CASE Edit
    BY <2>3 DEF Edit, BuiltInv
  <2>4. CASE UNCHANGED vars
    BY <2>1, <2>4 DEF vars, BuiltInv, RehearsalOf, ReferenceOf
  <2>5. QED
    BY <2>1, <2>2, <2>3, <2>4 DEF Next, Building
<1>3. QED
  BY <1>1, <1>2, ChainInvariant, PTL DEF Spec

\* Whatever was replaced, resealed or computed again: a chain that the verify
\* functions accept is about one operation, in what the handoff's own evidence,
\* the operator's review and the references of the linkages name; the rehearsal
\* and the credential reference are of that operation too while nobody has
\* changed a document. For all documents and references.
THEOREM ChainIsOneOperation == Spec => []OneOperation
<1>1. ChainInv /\ BuiltInv => OneOperation
  BY OneOperationHolds DEF ChainInv, PacketsOK
<1>2. QED
  BY <1>1, ChainInvariant, BuiltInvariant, PTL

\* No refusal and no expired evidence is passed over in a chain that the
\* verify functions accept.
THEOREM ChainRefusesNothing == Spec => []NothingRefused
<1>1. ChainInv => NothingRefused
  BY NothingRefusedHolds
<1>2. QED
  BY <1>1, ChainInvariant, PTL

\* A chain that the verify functions accept is the one its documents, its times
\* and the output its rehearsal states determine, and every builder but the
\* credential's would take those documents and times.
THEOREM ChainIsReplayable == Spec => []Replayable
<1>1. ChainInv => Replayable
  BY ReplayableHolds
<1>2. QED
  BY <1>1, ChainInvariant, PTL
=============================================================================
