--------------------------- MODULE ServicesProofs ---------------------------
(***************************************************************************)
(* The services that share no state with each other: confirmation codes,   *)
(* rate limiters and waking on the server, and the recovery of a tab's     *)
(* session; for any number of guesses, addresses, guessers, computers and  *)
(* sessions, and for queues of any length.                                 *)
(***************************************************************************)
EXTENDS EmailCodes, Limiter, Wake, Recovery, FiniteSetTheorems, TLAPS

(* Confirmation codes: the guesses of a window against the codes issued.    *)

GuessesFrom(t) == {i \in DOMAIN wrongAt : t <= wrongAt[i] /\ wrongAt[i] < t + CodeWindow}
IssuesFrom(t) == {u \in issuedAt : t <= u}

CodesTyped ==
    /\ clock \in Nat
    /\ code \in [expires : Nat, left : 0 .. CodeMaxAttempts]
    /\ issuedAt \subseteq Nat /\ IsFiniteSet(issuedAt) /\ (\A u \in issuedAt : u <= clock)
    /\ Cardinality(issuedAt) <= CodeMaxPerWindow
    /\ wrongAt \in Seq(Nat) /\ \A i \in DOMAIN wrongAt : wrongAt[i] <= clock

(* In a window that is still open the guesses made and the ones left belong *)
(* to the code in force when it began and the codes issued since.           *)
Covered(t) ==
    clock < t + CodeWindow =>
      Cardinality(GuessesFrom(t)) + code.left <= CodeMaxAttempts * (1 + Cardinality(IssuesFrom(t)))

WithinLimit(t) == Cardinality(GuessesFrom(t)) <= (CodeMaxPerWindow + 1) * CodeMaxAttempts

CodesInv ==
    /\ CodesTyped
    /\ \A t \in 0 .. clock : Covered(t) /\ WithinLimit(t)

LEMMA Times ==
    \A a, n \in Nat : a * (1 + n) \in Nat /\ a <= a * (1 + n) /\ a * (1 + (n + 1)) = a * (1 + n) + a
OBVIOUS

LEMMA TimesGrows ==
    \A a, n, m \in Nat : n <= m => a * (1 + n) <= (m + 1) * a
OBVIOUS

LEMMA GuessesFinite ==
    ASSUME CodesTyped
    PROVE  /\ \A t \in Nat : IsFiniteSet(GuessesFrom(t)) /\ Cardinality(GuessesFrom(t)) \in Nat
           /\ \A t \in Nat : IsFiniteSet(IssuesFrom(t)) /\ Cardinality(IssuesFrom(t)) \in Nat
           /\ \A t \in Nat : Cardinality(IssuesFrom(t)) <= CodeMaxPerWindow
<1>1. /\ IsFiniteSet(issuedAt) /\ Cardinality(issuedAt) <= CodeMaxPerWindow
      /\ DOMAIN wrongAt = 1 .. Len(wrongAt) /\ Len(wrongAt) \in Nat
      /\ CodeMaxPerWindow \in Nat
  BY EmailCodesAssumption DEF CodesTyped
<1>2. IsFiniteSet(DOMAIN wrongAt)
  BY <1>1, FS_Interval
<1>3. ASSUME NEW t \in Nat PROVE IsFiniteSet(GuessesFrom(t)) /\ Cardinality(GuessesFrom(t)) \in Nat
  <2>1. GuessesFrom(t) \subseteq DOMAIN wrongAt
    BY DEF GuessesFrom
  <2> QED
    BY <1>2, <2>1, FS_Subset, FS_CardinalityType
<1>4. ASSUME NEW t \in Nat
      PROVE  /\ IsFiniteSet(IssuesFrom(t)) /\ Cardinality(IssuesFrom(t)) \in Nat
             /\ Cardinality(IssuesFrom(t)) <= CodeMaxPerWindow
  <2>1. IssuesFrom(t) \subseteq issuedAt
    BY DEF IssuesFrom
  <2>2. IsFiniteSet(IssuesFrom(t)) /\ Cardinality(IssuesFrom(t)) <= Cardinality(issuedAt)
    BY <1>1, <2>1, FS_Subset
  <2>3. Cardinality(IssuesFrom(t)) \in Nat /\ Cardinality(issuedAt) \in Nat
    BY <1>1, <2>2, FS_CardinalityType
  <2> QED
    BY <1>1, <2>2, <2>3
<1> QED
  BY <1>3, <1>4

LEMMA CoveredIsWithin ==
    ASSUME CodesTyped, NEW t \in Nat, clock < t + CodeWindow, Covered(t)
    PROVE  WithinLimit(t)
<1> DEFINE g == Cardinality(GuessesFrom(t))
           n == Cardinality(IssuesFrom(t))
<1>1. /\ g \in Nat /\ n \in Nat /\ n <= CodeMaxPerWindow /\ code.left \in Nat
      /\ CodeMaxPerWindow \in Nat /\ CodeMaxAttempts \in Nat
  BY GuessesFinite, EmailCodesAssumption DEF CodesTyped
<1>2. g + code.left <= CodeMaxAttempts * (1 + n)
  BY DEF Covered
<1> HIDE DEF g, n
<1>3. CodeMaxAttempts * (1 + n) <= (CodeMaxPerWindow + 1) * CodeMaxAttempts
  BY <1>1, TimesGrows
<1>4. CodeMaxAttempts * (1 + n) \in Nat /\ (CodeMaxPerWindow + 1) * CodeMaxAttempts \in Nat
  BY <1>1
<1>5. g <= (CodeMaxPerWindow + 1) * CodeMaxAttempts
  BY <1>1, <1>2, <1>3, <1>4
<1> QED
  BY <1>5 DEF g, WithinLimit

LEMMA CodesStart ==
    CodesInit => CodesInv
<1> SUFFICES ASSUME CodesInit PROVE CodesInv
  OBVIOUS
<1>1. clock = 0 /\ code = NoCode /\ issuedAt = {} /\ wrongAt = <<>>
  BY DEF CodesInit
<1>2. CodesTyped
  BY <1>1, FS_EmptySet, EmailCodesAssumption DEF CodesTyped, NoCode
<1>3. ASSUME NEW t \in 0 .. clock PROVE Covered(t) /\ WithinLimit(t)
  <2>1. GuessesFrom(t) = {} /\ IssuesFrom(t) = {}
    BY <1>1 DEF GuessesFrom, IssuesFrom
  <2>2. Cardinality(GuessesFrom(t)) = 0 /\ Cardinality(IssuesFrom(t)) = 0 /\ code.left = 0
    BY <1>1, <2>1, FS_EmptySet DEF NoCode
  <2>3. CodeMaxAttempts \in Nat /\ CodeMaxPerWindow \in Nat
    BY EmailCodesAssumption
  <2>4. CodeMaxAttempts * (1 + 0) \in Nat /\ (CodeMaxPerWindow + 1) * CodeMaxAttempts \in Nat
    BY <2>3
  <2> QED
    BY <2>2, <2>4 DEF Covered, WithinLimit
<1> QED
  BY <1>2, <1>3 DEF CodesInv

(* What is let go of lies before every window that is still open.           *)
LEMMA KeptIs ==
    ASSUME CodesTyped
    PROVE  /\ Kept \subseteq issuedAt /\ IsFiniteSet(Kept)
           /\ Cardinality(Kept) \in Nat /\ Cardinality(Kept) <= CodeMaxPerWindow
           /\ \A t \in Nat : clock < t + CodeWindow => IssuesFrom(t) = {u \in Kept : t <= u}
<1>1. Kept \subseteq issuedAt
  BY DEF Kept
<1>2. IsFiniteSet(Kept) /\ Cardinality(Kept) <= Cardinality(issuedAt)
  BY <1>1, FS_Subset DEF CodesTyped
<1>3. Cardinality(Kept) \in Nat /\ Cardinality(issuedAt) \in Nat /\ CodeMaxPerWindow \in Nat
  BY <1>2, FS_CardinalityType, EmailCodesAssumption DEF CodesTyped
<1>4. ASSUME NEW t \in Nat, clock < t + CodeWindow PROVE IssuesFrom(t) = {u \in Kept : t <= u}
  <2>1. ASSUME NEW u \in issuedAt, t <= u PROVE clock - u < CodeWindow
    <3>1. u \in Nat /\ clock \in Nat /\ CodeWindow \in Nat
      BY EmailCodesAssumption DEF CodesTyped
    <3> QED
      BY <1>4, <2>1, <3>1
  <2> QED
    BY <2>1 DEF IssuesFrom, Kept
<1> QED
  BY <1>1, <1>2, <1>3, <1>4 DEF CodesTyped

LEMMA IssueKeeps ==
    ASSUME CodesInv, Issue
    PROVE  CodesInv'
<1>0. /\ CodesTyped /\ clock \in Nat /\ CodeTTL \in Nat /\ CodeWindow \in Nat
      /\ CodeMinInterval \in Nat \ {0} /\ CodeMaxPerWindow \in Nat \ {0} /\ CodeMaxAttempts \in Nat \ {0}
  BY EmailCodesAssumption DEF CodesInv, CodesTyped
<1>1. /\ issuedAt' = Kept \cup {clock} /\ clock' = clock /\ wrongAt' = wrongAt
      /\ code' = [expires |-> clock + CodeTTL, left |-> CodeMaxAttempts]
      /\ ~(Cardinality(Kept) >= CodeMaxPerWindow)
      /\ \A t \in Kept : ~(clock - t < CodeMinInterval)
  BY DEF Issue, TooFrequent, TooSoon
<1>2. /\ Kept \subseteq issuedAt /\ IsFiniteSet(Kept) /\ Cardinality(Kept) \in Nat
      /\ \A t \in Nat : clock < t + CodeWindow => IssuesFrom(t) = {u \in Kept : t <= u}
  BY <1>0, KeptIs
<1>3. clock \notin Kept
  BY <1>0, <1>1
<1>4. IsFiniteSet(issuedAt') /\ Cardinality(issuedAt') <= CodeMaxPerWindow
  <2>1. IsFiniteSet(Kept \cup {clock}) /\ Cardinality(Kept \cup {clock}) = Cardinality(Kept) + 1
    BY <1>2, <1>3, FS_AddElement
  <2> QED
    BY <1>0, <1>1, <1>2, <2>1
<1>5. CodesTyped'
  <2>1. code' \in [expires : Nat, left : 0 .. CodeMaxAttempts]
    BY <1>0, <1>1
  <2>2. issuedAt' \subseteq Nat /\ \A u \in issuedAt' : u <= clock
    BY <1>0, <1>1, <1>2 DEF CodesTyped
  <2> QED
    BY <1>0, <1>1, <1>4, <2>1, <2>2 DEF CodesTyped
<1>6. code'.left = CodeMaxAttempts
  BY <1>1
<1>7. ASSUME NEW t \in 0 .. clock PROVE (Covered(t) /\ WithinLimit(t))'
  <2>0. t \in Nat /\ t <= clock /\ Covered(t) /\ WithinLimit(t)
    BY <1>0 DEF CodesInv
  <2>1. GuessesFrom(t)' = GuessesFrom(t)
    BY <1>1 DEF GuessesFrom
  <2>2. WithinLimit(t)'
    BY <2>0, <2>1 DEF WithinLimit
  <2>3. ASSUME clock < t + CodeWindow PROVE Covered(t)'
    <3> DEFINE g == Cardinality(GuessesFrom(t))
               n == Cardinality(IssuesFrom(t))
    <3>1. IssuesFrom(t)' = IssuesFrom(t) \cup {clock} /\ clock \notin IssuesFrom(t)
      BY <1>1, <1>2, <1>3, <2>0, <2>3 DEF IssuesFrom
    <3>2. IsFiniteSet(IssuesFrom(t)) /\ n \in Nat /\ g \in Nat
      BY <1>0, <2>0, GuessesFinite
    <3>3. Cardinality(IssuesFrom(t)') = n + 1
      BY <3>1, <3>2, FS_AddElement
    <3>4. g + code.left <= CodeMaxAttempts * (1 + n) /\ code.left \in Nat
      BY <1>0, <2>0, <2>3 DEF Covered, CodesTyped
    <3>5. Cardinality(GuessesFrom(t)') = g
      BY <2>1
    <3> HIDE DEF g, n
    <3>6. /\ CodeMaxAttempts * (1 + n) \in Nat
          /\ CodeMaxAttempts * (1 + (n + 1)) = CodeMaxAttempts * (1 + n) + CodeMaxAttempts
      BY <1>0, <3>2, Times
    <3>7. g + CodeMaxAttempts <= CodeMaxAttempts * (1 + (n + 1))
      BY <1>0, <3>2, <3>4, <3>6
    <3> QED
      BY <1>6, <3>3, <3>5, <3>7 DEF Covered
  <2>4. ASSUME ~(clock < t + CodeWindow) PROVE Covered(t)'
    BY <1>1, <2>4 DEF Covered
  <2> QED
    BY <2>2, <2>3, <2>4
<1> QED
  BY <1>1, <1>5, <1>7 DEF CodesInv

(* The code is given up, or nothing happens to it.                          *)
LEMMA CodeGone ==
    ASSUME CodesInv, issuedAt' \in {issuedAt, Kept}, code' \in {code, NoCode}, UNCHANGED <<clock, wrongAt>>
    PROVE  CodesInv'
<1>0. CodesTyped /\ NoCode \in [expires : Nat, left : 0 .. CodeMaxAttempts] /\ NoCode.left = 0 /\ code.left \in Nat
  BY EmailCodesAssumption DEF CodesInv, CodesTyped, NoCode
<1>1. /\ issuedAt' \subseteq issuedAt /\ IsFiniteSet(issuedAt') /\ Cardinality(issuedAt') <= CodeMaxPerWindow
      /\ \A t \in Nat : clock < t + CodeWindow => IssuesFrom(t)' = IssuesFrom(t)
  BY <1>0, KeptIs DEF CodesTyped, IssuesFrom
<1>2. CodesTyped'
  BY <1>0, <1>1 DEF CodesTyped
<1>3. ASSUME NEW t \in 0 .. clock PROVE (Covered(t) /\ WithinLimit(t))'
  <2>0. t \in Nat /\ Covered(t) /\ WithinLimit(t)
    BY DEF CodesInv
  <2>1. GuessesFrom(t)' = GuessesFrom(t)
    BY DEF GuessesFrom
  <2>2. WithinLimit(t)'
    BY <2>0, <2>1 DEF WithinLimit
  <2>3. Covered(t)'
    <3>1. CASE clock < t + CodeWindow
      <4> DEFINE g == Cardinality(GuessesFrom(t))
                 n == Cardinality(IssuesFrom(t))
      <4>1. g + code.left <= CodeMaxAttempts * (1 + n) /\ g \in Nat /\ n \in Nat /\ CodeMaxAttempts \in Nat
        BY <1>0, <2>0, <3>1, GuessesFinite, EmailCodesAssumption DEF Covered
      <4>2. Cardinality(GuessesFrom(t)') = g /\ Cardinality(IssuesFrom(t)') = n
        BY <1>1, <2>0, <2>1, <3>1
      <4>3. code'.left \in Nat /\ code'.left <= code.left
        BY <1>0
      <4> HIDE DEF g, n
      <4>4. CodeMaxAttempts * (1 + n) \in Nat
        BY <4>1
      <4>5. g + code'.left <= CodeMaxAttempts * (1 + n)
        BY <1>0, <4>1, <4>3, <4>4
      <4> QED
        BY <4>2, <4>5 DEF Covered
    <3>2. CASE ~(clock < t + CodeWindow)
      BY <3>2 DEF Covered
    <3> QED
      BY <3>1, <3>2
  <2> QED
    BY <2>2, <2>3
<1> QED
  BY <1>2, <1>3 DEF CodesInv

LEMMA WrongKeeps ==
    ASSUME CodesInv, VerifyWrong
    PROVE  CodesInv'
<1>0. /\ CodesTyped /\ clock \in Nat /\ CodeWindow \in Nat /\ CodeMaxAttempts \in Nat
      /\ CodeMaxPerWindow \in Nat /\ wrongAt \in Seq(Nat) /\ code \in [expires : Nat, left : 0 .. CodeMaxAttempts]
  BY EmailCodesAssumption DEF CodesInv, CodesTyped
<1>1. /\ code.left > 0 /\ wrongAt' = Append(wrongAt, clock) /\ UNCHANGED <<clock, issuedAt>>
      /\ code' = IF code.left = 1 THEN NoCode ELSE [code EXCEPT !.left = @ - 1]
  BY DEF VerifyWrong
<1>2. /\ code' \in [expires : Nat, left : 0 .. CodeMaxAttempts] /\ code'.left = code.left - 1
      /\ code.left \in Nat
  BY <1>0, <1>1 DEF NoCode
<1>3. /\ DOMAIN wrongAt = 1 .. Len(wrongAt) /\ DOMAIN wrongAt' = 1 .. Len(wrongAt) + 1 /\ Len(wrongAt) \in Nat
      /\ wrongAt' \in Seq(Nat) /\ wrongAt'[Len(wrongAt) + 1] = clock
      /\ \A i \in 1 .. Len(wrongAt) : wrongAt'[i] = wrongAt[i]
  BY <1>0, <1>1
<1>4. CodesTyped'
  BY <1>0, <1>1, <1>2, <1>3 DEF CodesTyped
<1>5. ASSUME NEW t \in 0 .. clock PROVE (Covered(t) /\ WithinLimit(t))'
  <2>0. t \in Nat /\ t <= clock /\ Covered(t) /\ WithinLimit(t)
    BY <1>0 DEF CodesInv
  <2>1. IssuesFrom(t)' = IssuesFrom(t)
    BY <1>1 DEF IssuesFrom
  <2>2. CASE clock < t + CodeWindow
    <3> DEFINE g == Cardinality(GuessesFrom(t))
               n == Cardinality(IssuesFrom(t))
               k == Len(wrongAt) + 1
    <3>1. GuessesFrom(t)' = GuessesFrom(t) \cup {k} /\ k \notin GuessesFrom(t)
      BY <1>1, <1>3, <2>0, <2>2 DEF GuessesFrom
    <3>2. IsFiniteSet(GuessesFrom(t)) /\ n \in Nat /\ g \in Nat
      BY <1>0, <2>0, GuessesFinite
    <3>3. Cardinality(GuessesFrom(t)') = g + 1
      BY <3>1, <3>2, FS_AddElement
    <3>4. g + code.left <= CodeMaxAttempts * (1 + n)
      BY <2>0, <2>2 DEF Covered
    <3>5. Cardinality(IssuesFrom(t)') = n
      BY <2>1
    <3> HIDE DEF g, n
    <3>6. CodeMaxAttempts * (1 + n) \in Nat
      BY <1>0, <3>2
    <3>7. (g + 1) + code'.left <= CodeMaxAttempts * (1 + n)
      BY <1>1, <1>2, <3>2, <3>4, <3>6
    <3>8. Covered(t)'
      BY <3>3, <3>5, <3>7 DEF Covered
    <3>9. n <= CodeMaxPerWindow
      BY <1>0, <2>0, GuessesFinite DEF n
    <3>10. CodeMaxAttempts * (1 + n) <= (CodeMaxPerWindow + 1) * CodeMaxAttempts
      BY <1>0, <3>2, <3>9, TimesGrows
    <3>11. g + 1 <= (CodeMaxPerWindow + 1) * CodeMaxAttempts
      <4>1. (CodeMaxPerWindow + 1) * CodeMaxAttempts \in Nat /\ code'.left \in Nat
        BY <1>0, <1>2
      <4> QED
        BY <3>2, <3>6, <3>7, <3>10, <4>1
    <3>12. WithinLimit(t)'
      BY <3>3, <3>11 DEF WithinLimit
    <3> QED
      BY <3>8, <3>12
  <2>3. CASE ~(clock < t + CodeWindow)
    <3>1. GuessesFrom(t)' = GuessesFrom(t)
      BY <1>0, <1>1, <1>3, <2>0, <2>3 DEF GuessesFrom
    <3> QED
      BY <1>1, <2>0, <2>3, <3>1 DEF Covered, WithinLimit
  <2> QED
    BY <2>2, <2>3
<1> QED
  BY <1>1, <1>4, <1>5 DEF CodesInv

LEMMA ClockKeeps ==
    ASSUME CodesInv, Tick
    PROVE  CodesInv'
<1>0. /\ CodesTyped /\ clock \in Nat /\ CodeWindow \in Nat /\ CodeMaxAttempts \in Nat /\ CodeMaxPerWindow \in Nat
      /\ clock' = clock + 1 /\ UNCHANGED <<code, issuedAt, wrongAt>>
  BY EmailCodesAssumption DEF CodesInv, CodesTyped, Tick
<1>1. CodesTyped'
  <2>1. \A u \in issuedAt : u \in Nat /\ u <= clock
    BY <1>0 DEF CodesTyped
  <2>2. \A i \in DOMAIN wrongAt : wrongAt[i] \in Nat /\ wrongAt[i] <= clock
    BY <1>0 DEF CodesTyped
  <2> QED
    BY <1>0, <2>1, <2>2 DEF CodesTyped
<1>2. \A t : GuessesFrom(t)' = GuessesFrom(t) /\ IssuesFrom(t)' = IssuesFrom(t)
  BY <1>0 DEF GuessesFrom, IssuesFrom
<1>3. ASSUME NEW t \in 0 .. clock PROVE (Covered(t) /\ WithinLimit(t))'
  <2>1. Covered(t) /\ WithinLimit(t) /\ t \in Nat
    BY DEF CodesInv
  <2>2. clock + 1 < t + CodeWindow => clock < t + CodeWindow
    BY <1>0, <2>1
  <2> QED
    BY <1>0, <1>2, <2>1, <2>2 DEF Covered, WithinLimit
<1>4. ASSUME NEW t, t = clock + 1 PROVE (Covered(t) /\ WithinLimit(t))'
  <2>1. t \in Nat
    BY <1>0, <1>4
  <2>2. GuessesFrom(t) = {}
    BY <1>0, <1>4 DEF GuessesFrom, CodesTyped
  <2>3. Cardinality(GuessesFrom(t)) = 0
    BY <2>2, FS_EmptySet
  <2>4. Cardinality(IssuesFrom(t)) \in Nat /\ code.left \in Nat /\ code.left <= CodeMaxAttempts
    <3>1. code.left \in 0 .. CodeMaxAttempts
      BY <1>0 DEF CodesTyped
    <3>2. Cardinality(IssuesFrom(t)) \in Nat
      BY <1>0, <2>1, GuessesFinite
    <3> QED
      BY <1>0, <3>1, <3>2
  <2>5. CodeMaxAttempts <= CodeMaxAttempts * (1 + Cardinality(IssuesFrom(t)))
        /\ CodeMaxAttempts * (1 + Cardinality(IssuesFrom(t))) \in Nat
    BY <1>0, <2>4, Times
  <2>6. 0 <= (CodeMaxPerWindow + 1) * CodeMaxAttempts
    BY <1>0
  <2>7. 0 + code.left <= CodeMaxAttempts * (1 + Cardinality(IssuesFrom(t)))
    BY <1>0, <2>4, <2>5
  <2> QED
    BY <1>0, <1>2, <2>3, <2>6, <2>7 DEF Covered, WithinLimit
<1>5. \A t \in 0 .. clock + 1 : t \in 0 .. clock \/ t = clock + 1
  BY <1>0
<1> QED
  BY <1>0, <1>1, <1>3, <1>4, <1>5 DEF CodesInv

LEMMA CodesStepKeeps ==
    CodesInv /\ [CodesNext]_codeVars => CodesInv'
<1> SUFFICES ASSUME CodesInv, [CodesNext]_codeVars PROVE CodesInv'
  OBVIOUS
<1>1. CASE IssueRefused \/ VerifyRight \/ VerifyLate \/ UNCHANGED codeVars
  BY <1>1, CodeGone DEF IssueRefused, VerifyRight, VerifyLate, codeVars
<1> QED
  BY <1>1, IssueKeeps, WrongKeeps, ClockKeeps DEF CodesNext

(* Whatever the clock, the limits and the order of issues and guesses, an   *)
(* address sees no more wrong guesses in any window than the codes of the   *)
(* window allow and one code before it.                                     *)
THEOREM GuessesStayBounded ==
    CodesSpec => []GuessesBounded
<1>1. CodesInv => GuessesBounded
  BY DEF CodesInv, WithinLimit, GuessesFrom, GuessesBounded
<1> QED
  BY <1>1, CodesStart, CodesStepKeeps, PTL DEF CodesSpec
-----------------------------------------------------------------------------
(* Rate limits: what a bucket has paid out against the guesses it limits.   *)

(* W wrong guesses in e instants, T parts left in a bucket of B tokens of R *)
(* parts, n guessers: p of them have been let through and are yet to spend, *)
(* u of these have guessed already, a have spent and are yet to guess.      *)
(* There have been x spends of a whole token and y of one that was not      *)
(* whole any more.  The latter come in z batches: a batch is of guessers    *)
(* that were let through while there was a token, one of them found it, and *)
(* it leaves the bucket empty.                                              *)
Account(W, T, p, u, a, n, e, B, R) ==
    \E x, y, z \in Nat :
      /\ W + a <= x + y + u + n
      /\ R * x + T <= B * R + e
      /\ \/ y + p + z <= n * z /\ (z > 0 => R * z + T <= e + R)
         \/ /\ y + z <= n * z /\ R * z <= e
            /\ T >= R \/ p + 1 <= n \/ (x = 0 /\ y = 0 /\ z = 0)

LEMMA TimesNext ==
    \A a, b \in Nat : a * b \in Nat /\ a * (b + 1) = a * b + a /\ a * 0 = 0 /\ a * 1 = a
OBVIOUS

LEMMA TimesUp ==
    \A a, b, c \in Nat : b <= c => a * b <= a * c
OBVIOUS

(* A window begins: whatever is let through then may still be spent.        *)
LEMMA AccountOpens ==
    ASSUME NEW T \in Nat, NEW p \in Nat, NEW u \in Nat, NEW a \in Nat, NEW n \in Nat,
           NEW B \in Nat, NEW R \in Nat, T <= B * R, a <= n
    PROVE  Account(0, T, p, u, a, n, 0, B, R)
<1>1. R * 0 = 0 /\ n * 0 = 0 /\ B * R \in Nat
  BY TimesNext
<1>2. /\ 0 + a <= 0 + 0 + u + n
      /\ R * 0 + T <= B * R + 0
      /\ 0 + 0 <= n * 0 /\ R * 0 <= 0
  BY <1>1
<1> QED
  BY <1>2 DEF Account

LEMMA AccountTicks ==
    ASSUME NEW W \in Nat, NEW T \in Nat, NEW p \in Nat, NEW u \in Nat, NEW a \in Nat, NEW n \in Nat,
           NEW e \in Nat, NEW B \in Nat, NEW R \in Nat, NEW S \in Nat, S = T \/ S = T + 1,
           Account(W, T, p, u, a, n, e, B, R)
    PROVE  Account(W, S, p, u, a, n, e + 1, B, R)
<1>1. PICK x, y, z \in Nat :
      /\ W + a <= x + y + u + n
      /\ R * x + T <= B * R + e
      /\ \/ y + p + z <= n * z /\ (z > 0 => R * z + T <= e + R)
         \/ /\ y + z <= n * z /\ R * z <= e
            /\ T >= R \/ p + 1 <= n \/ (x = 0 /\ y = 0 /\ z = 0)
  BY DEF Account
<1>2. R * x \in Nat /\ B * R \in Nat /\ n * z \in Nat /\ R * z \in Nat
  BY TimesNext
<1>3. /\ W + a <= x + y + u + n
      /\ R * x + S <= B * R + (e + 1)
      /\ \/ y + p + z <= n * z /\ (z > 0 => R * z + S <= (e + 1) + R)
         \/ /\ y + z <= n * z /\ R * z <= e + 1
            /\ S >= R \/ p + 1 <= n \/ (x = 0 /\ y = 0 /\ z = 0)
  BY <1>1, <1>2
<1> QED
  BY <1>3 DEF Account

(* One more is let through, while there is a token.                         *)
LEMMA AccountChecks ==
    ASSUME NEW W \in Nat, NEW T \in Nat, NEW p \in Nat, NEW u \in Nat, NEW a \in Nat, NEW n \in Nat,
           NEW e \in Nat, NEW B \in Nat, NEW R \in Nat, T >= R,
           Account(W, T, p, u, a, n, e, B, R)
    PROVE  Account(W, T, p + 1, u, a, n, e, B, R)
<1>1. PICK x, y, z \in Nat :
      /\ W + a <= x + y + u + n
      /\ R * x + T <= B * R + e
      /\ \/ y + p + z <= n * z /\ (z > 0 => R * z + T <= e + R)
         \/ /\ y + z <= n * z /\ R * z <= e
            /\ T >= R \/ p + 1 <= n \/ (x = 0 /\ y = 0 /\ z = 0)
  BY DEF Account
<1>2. R * x \in Nat /\ B * R \in Nat /\ n * z \in Nat /\ R * z \in Nat /\ R * 0 = 0
  BY TimesNext
<1>3. R * z <= e
  BY <1>1, <1>2
<1>4. y + z <= n * z
  BY <1>1, <1>2
<1> QED
  BY <1>1, <1>3, <1>4 DEF Account

(* A guess, of one let through or of one that has spent; or none at all.    *)
LEMMA AccountGuesses ==
    ASSUME NEW W \in Nat, NEW T \in Nat, NEW p \in Nat, NEW u \in Nat, NEW a \in Nat, NEW n \in Nat,
           NEW e \in Nat, NEW B \in Nat, NEW R \in Nat,
           NEW V \in Nat, NEW q \in Nat, NEW v \in Nat, NEW b \in Nat,
           Account(W, T, p, u, a, n, e, B, R),
           q <= p, V + b + u <= W + a + v
    PROVE  Account(V, T, q, v, b, n, e, B, R)
<1>1. PICK x, y, z \in Nat :
      /\ W + a <= x + y + u + n
      /\ R * x + T <= B * R + e
      /\ \/ y + p + z <= n * z /\ (z > 0 => R * z + T <= e + R)
         \/ /\ y + z <= n * z /\ R * z <= e
            /\ T >= R \/ p + 1 <= n \/ (x = 0 /\ y = 0 /\ z = 0)
  BY DEF Account
<1>2. n * z \in Nat
  BY TimesNext
<1>3. V + b <= x + y + v + n
  BY <1>1
<1>4. y + p + z <= n * z => y + q + z <= n * z
  BY <1>2
<1>5. p + 1 <= n => q + 1 <= n
  OBVIOUS
<1> QED
  BY <1>1, <1>3, <1>4, <1>5 DEF Account

(* A spend: of a whole token, or of what there is.                          *)
LEMMA AccountSpends ==
    ASSUME NEW W \in Nat, NEW T \in Nat, NEW p \in Nat, NEW u \in Nat, NEW a \in Nat, NEW n \in Nat,
           NEW e \in Nat, NEW B \in Nat, NEW R \in Nat, B >= 1,
           NEW S \in Nat, NEW q \in Nat, NEW v \in Nat, NEW b \in Nat,
           Account(W, T, p, u, a, n, e, B, R),
           p = q + 1, p <= n, b + u = a + v + 1,
           (T >= R /\ S = T - R) \/ (T < R /\ S = 0)
    PROVE  Account(W, S, q, v, b, n, e, B, R)
<1>1. PICK x, y, z \in Nat :
      /\ W + a <= x + y + u + n
      /\ R * x + T <= B * R + e
      /\ \/ y + p + z <= n * z /\ (z > 0 => R * z + T <= e + R)
         \/ /\ y + z <= n * z /\ R * z <= e
            /\ T >= R \/ p + 1 <= n \/ (x = 0 /\ y = 0 /\ z = 0)
  BY DEF Account
<1>2. /\ R * x \in Nat /\ B * R \in Nat /\ n * z \in Nat /\ R * z \in Nat /\ R * 0 = 0 /\ n * 0 = 0
      /\ R * (x + 1) = R * x + R /\ n * (z + 1) = n * z + n /\ R * (z + 1) = R * z + R
      /\ R * 1 = R
  BY TimesNext
<1>3. CASE T >= R
  <2>1. W + b <= (x + 1) + y + v + n
    BY <1>1
  <2>2. R * (x + 1) + S <= B * R + e
    BY <1>1, <1>2, <1>3
  <2>3. y + z <= n * z /\ R * z <= e /\ q + 1 <= n
    BY <1>1, <1>2, <1>3
  <2> QED
    BY <2>1, <2>2, <2>3, x + 1 \in Nat DEF Account
<1>4. CASE T < R /\ y + p + z <= n * z /\ (z > 0 => R * z + T <= e + R)
  <2>1. W + b <= x + (y + 1) + v + n
    BY <1>1
  <2>2. R * x + S <= B * R + e
    BY <1>1, <1>2, <1>4
  <2>3. (y + 1) + q + z <= n * z /\ (z > 0 => R * z + S <= e + R)
    BY <1>2, <1>4
  <2> QED
    BY <2>1, <2>2, <2>3, y + 1 \in Nat DEF Account
<1>5. CASE T < R /\ y + z <= n * z /\ R * z <= e /\ p + 1 <= n
  <2>1. W + b <= x + (y + 1) + v + n
    BY <1>1
  <2>2. R * x + S <= B * R + e
    BY <1>1, <1>2, <1>5
  <2>3. (y + 1) + q + (z + 1) <= n * (z + 1) /\ R * (z + 1) + S <= e + R
    BY <1>2, <1>5
  <2> QED
    BY <2>1, <2>2, <2>3, y + 1 \in Nat, z + 1 \in Nat DEF Account
<1>6. CASE T < R /\ x = 0 /\ y = 0 /\ z = 0
  <2>1. W + b <= 1 + 0 + v + n
    BY <1>1, <1>6
  <2>2. R <= B * R
    <3>1. R * 1 <= R * B /\ R * B = B * R
      BY TimesUp
    <3> QED
      BY <1>2, <3>1
  <2>3. R * 1 + S <= B * R + e
    BY <1>2, <1>6, <2>2
  <2>4. 0 + 0 <= n * 0 /\ R * 0 <= e /\ q + 1 <= n
    BY <1>2
  <2> QED
    BY <2>1, <2>3, <2>4 DEF Account
<1> QED
  BY <1>1, <1>3, <1>4, <1>5, <1>6

(* What the account allows.                                                 *)
LEMMA AccountBounds ==
    ASSUME NEW W \in Nat, NEW T \in Nat, NEW p \in Nat, NEW u \in Nat, NEW a \in Nat, NEW n \in Nat \ {0},
           NEW e \in Nat, NEW B \in Nat \ {0}, NEW R \in Nat \ {0},
           Account(W, T, p, u, a, n, e, B, R), u <= p, p <= n
    PROVE  W <= B - 1 + n * (2 + e \div R)
<1>1. PICK x, y, z \in Nat :
      /\ W + a <= x + y + u + n
      /\ R * x + T <= B * R + e
      /\ \/ y + p + z <= n * z /\ (z > 0 => R * z + T <= e + R)
         \/ /\ y + z <= n * z /\ R * z <= e
            /\ T >= R \/ p + 1 <= n \/ (x = 0 /\ y = 0 /\ z = 0)
  BY DEF Account
<1> DEFINE d == e \div R
<1>2. d \in Nat /\ R * d <= e /\ e < R * d + R
  OBVIOUS
<1> HIDE DEF d
<1>3. /\ R * x \in Nat /\ B * R \in Nat /\ n * z \in Nat /\ R * z \in Nat /\ R * d \in Nat /\ n * d \in Nat
      /\ R * (d + 1) = R * d + R /\ n * (d + 1) = n * d + n
      /\ R * (d + 1 + 1) = R * (d + 1) + R /\ n * (d + 1 + 1) = n * (d + 1) + n
  BY <1>2, TimesNext
(* The whole tokens.                                                        *)
<1>4. x <= B + d /\ (T >= R => x + 1 <= B + d)
  <2>1. R * (B + d + 1) = B * R + R * d + R /\ R * (B + d) = B * R + R * d
    BY <1>2
  <2>2. B + d + 1 <= x => R * (B + d + 1) <= R * x
    BY <1>2, TimesUp
  <2>3. B + d <= x => R * (B + d) <= R * x
    BY <1>2, TimesUp
  <2>4. ~(B + d + 1 <= x)
    BY <1>1, <1>2, <1>3, <2>1, <2>2
  <2>5. T >= R => ~(B + d <= x)
    BY <1>1, <1>2, <1>3, <2>1, <2>3
  <2> QED
    BY <1>2, <2>4, <2>5
(* The batches.                                                             *)
<1>5. /\ R * z <= e => z <= d
      /\ R * z <= e + R => z <= d + 1
  <2>1. /\ d + 1 <= z => R * (d + 1) <= R * z
        /\ d + 1 + 1 <= z => R * (d + 1 + 1) <= R * z
    BY <1>2, TimesUp
  <2> QED
    BY <1>2, <1>3, <2>1
<1>6. \A k \in Nat : z <= k => n * z - z <= n * k - k
  <2>1. ASSUME NEW k \in Nat, z <= k PROVE n * z - z <= n * k - k
    <3>1. (n - 1) * z <= (n - 1) * k
      BY <2>1, TimesUp
    <3>2. (n - 1) * z = n * z - z /\ (n - 1) * k = n * k - k
      BY <2>1
    <3> QED
      BY <3>1, <3>2
  <2> QED
    BY <2>1
<1>7. n * (2 + d) = n * d + n + n
  BY <1>2
<1>8. CASE y + p + z <= n * z /\ (z > 0 => R * z + T <= e + R)
  <2>1. z <= d + 1
    BY <1>2, <1>3, <1>5, <1>8
  <2>2. n * z - z <= n * (d + 1) - (d + 1)
    BY <1>2, <1>6, <2>1
  <2>3. y + u <= n * d + n - (d + 1)
    BY <1>2, <1>3, <1>8, <2>2
  <2>4. W <= B + d + (n * d + n - (d + 1)) + n
    BY <1>1, <1>2, <1>3, <1>4, <2>3
  <2>5. W <= B - 1 + (n * d + n + n)
    BY <1>2, <1>3, <2>4
  <2> QED
    BY <1>7, <2>5 DEF d
<1>9. CASE y + z <= n * z /\ R * z <= e /\ (T >= R \/ p + 1 <= n \/ (x = 0 /\ y = 0 /\ z = 0))
  <2>1. n * z - z <= n * d - d
    BY <1>2, <1>5, <1>6, <1>9
  <2>2. y <= n * d - d
    BY <1>2, <1>3, <1>9, <2>1
  <2>3. 0 <= n * d
    BY <1>3
  <2>4. CASE T >= R
    BY <1>1, <1>2, <1>3, <1>4, <1>7, <2>2, <2>4 DEF d
  <2>5. CASE p + 1 <= n
    BY <1>1, <1>2, <1>3, <1>4, <1>7, <2>2, <2>5 DEF d
  <2>6. CASE x = 0 /\ y = 0
    BY <1>1, <1>2, <1>3, <1>7, <2>6 DEF d
  <2> QED
    BY <1>9, <2>4, <2>5, <2>6
<1> QED
  BY <1>1, <1>8, <1>9
-----------------------------------------------------------------------------
(* The guessers of a bucket that are in one of the stages P.                *)
Among(f, b, P) == {g \in Limits(b) : f[g] \in P}

Stages == {"idle", "join", "pin", "failed", "spent", "code", "wrongCode", "login", "argon2"}

(* Let through and yet to spend; of these, guessed already; spent and yet   *)
(* to guess.                                                                *)
OwingIn(b) == IF b = Everyone THEN {"pin", "failed", "spent"}
              ELSE {"join", "pin", "failed", "code", "login", "wrongCode"}
UnpaidIn(b) == IF b = Everyone THEN {"failed", "spent"} ELSE {"failed", "wrongCode"}
PrepaidIn(b) == IF b = Everyone THEN {} ELSE {"argon2"}

Owing(b) == Cardinality(Among(trying, b, OwingIn(b)))
Unpaid(b) == Cardinality(Among(trying, b, UnpaidIn(b)))
Prepaid(b) == Cardinality(Among(trying, b, PrepaidIn(b)))
Many(b) == Cardinality(Limits(b))

Paid(b) ==
    b \notin givenBack /\ since <= instant =>
        Account(wrong[b], TokensAt(b), Owing(b), Unpaid(b), Prepaid(b), Many(b),
                instant - since, Burst[b], Refill[b])

BucketTyped(b) ==
    /\ bucket[b] \in [parts : Nat, updated : Nat, tracked : BOOLEAN]
    /\ bucket[b].parts <= Full(b) /\ bucket[b].updated <= instant

LimTyped ==
    /\ limited \in {"pin", "login"} /\ instant \in Nat /\ since \in Nat
    /\ trying \in [Guesser -> Stages] /\ wrong \in [Buckets -> Nat] /\ givenBack \subseteq Ip
    /\ DOMAIN bucket = Buckets /\ \A b \in Buckets : BucketTyped(b)

Uncounted ==
    \A b \in Buckets : instant < since \/ Limits(b) = {} => wrong[b] = 0

LimInv == LimTyped /\ Uncounted /\ \A b \in Buckets : Paid(b)

USE LimiterAssumption DEF LimiterAssumption

LEMMA LeastOfTwo ==
    ASSUME NEW x \in Nat, NEW y \in Nat
    PROVE  Min({x, y}) = IF x <= y THEN x ELSE y
<1>1. \E m \in {x, y} : \A k \in {x, y} : m <= k
  OBVIOUS
<1> QED
  BY <1>1 DEF Min

LEMMA CountsAreNumbers ==
    ASSUME NEW f, NEW b, NEW P
    PROVE  /\ IsFiniteSet(Among(f, b, P)) /\ IsFiniteSet(Limits(b))
           /\ Cardinality(Among(f, b, P)) \in Nat
           /\ Many(b) \in Nat /\ Cardinality(Among(f, b, P)) <= Many(b)
<1>1. Limits(b) \subseteq Guesser /\ Among(f, b, P) \subseteq Limits(b)
  BY DEF Limits, Among
<1>2. IsFiniteSet(Limits(b))
  BY <1>1, FS_Subset
<1> QED
  BY <1>1, <1>2, FS_Subset, FS_CardinalityType DEF Many

(* Numbers of a typed state.                                                *)
LEMMA Numbers ==
    ASSUME LimTyped, NEW b \in Buckets
    PROVE  /\ Full(b) \in Nat /\ Burst[b] \in Nat \ {0} /\ Refill[b] \in Nat \ {0}
           /\ TokensAt(b) \in Nat /\ TokensAt(b) <= Full(b) /\ Full(b) = Burst[b] * Refill[b]
           /\ Owing(b) \in Nat /\ Unpaid(b) \in Nat /\ Prepaid(b) \in Nat /\ Many(b) \in Nat
           /\ Unpaid(b) <= Owing(b) /\ Owing(b) <= Many(b) /\ Prepaid(b) <= Many(b)
           /\ wrong[b] \in Nat /\ (since <= instant => instant - since \in Nat)
<1>1. Burst[b] \in Nat \ {0} /\ Refill[b] \in Nat \ {0}
  BY DEF Buckets
<1>2. Full(b) \in Nat /\ Full(b) = Burst[b] * Refill[b]
  BY <1>1, TimesNext DEF Full
<1>3. BucketTyped(b) /\ instant \in Nat
  BY DEF LimTyped
<1>4. bucket[b].parts \in Nat /\ bucket[b].updated \in Nat /\ bucket[b].updated <= instant
  BY <1>3 DEF BucketTyped
<1>5. TokensAt(b) \in Nat /\ TokensAt(b) <= Full(b)
  BY <1>2, <1>3, <1>4, LeastOfTwo DEF TokensAt
<1>6. Among(trying, b, UnpaidIn(b)) \subseteq Among(trying, b, OwingIn(b))
  BY DEF Among, UnpaidIn, OwingIn
<1>7. Unpaid(b) <= Owing(b)
  BY <1>6, CountsAreNumbers, FS_Subset DEF Unpaid, Owing
<1> QED
  BY <1>1, <1>2, <1>5, <1>7, CountsAreNumbers DEF Owing, Unpaid, Prepaid, LimTyped

LEMMA TokensFit ==
    ASSUME NEW b \in Buckets
    PROVE  LimTyped => TokensAt(b) <= Burst[b] * Refill[b]
  BY Numbers

LEMMA NumbersNext ==
    ASSUME NEW b \in Buckets
    PROVE  LimTyped' => /\ TokensAt(b)' \in Nat /\ Owing(b)' \in Nat /\ Unpaid(b)' \in Nat
                        /\ Prepaid(b)' \in Nat /\ wrong'[b] \in Nat
<1>1. LimTyped => /\ TokensAt(b) \in Nat /\ Owing(b) \in Nat /\ Unpaid(b) \in Nat
                  /\ Prepaid(b) \in Nat /\ wrong[b] \in Nat
  BY Numbers
<1>2. (LimTyped => /\ TokensAt(b) \in Nat /\ Owing(b) \in Nat /\ Unpaid(b) \in Nat
                   /\ Prepaid(b) \in Nat /\ wrong[b] \in Nat)'
  BY <1>1, PTL
<1> QED
  BY <1>2
-----------------------------------------------------------------------------
(* What a step may mean for a bucket: nothing, or a guess of one that owes  *)
(* it or has paid for it; one more is let through; a token is spent.        *)
Guesses(b) ==
    /\ TokensAt(b)' = TokensAt(b) /\ Owing(b)' <= Owing(b)
    /\ wrong'[b] + Prepaid(b)' + Unpaid(b) <= wrong[b] + Prepaid(b) + Unpaid(b)'

LetsThrough(b) ==
    /\ TokensAt(b) >= Refill[b]
    /\ TokensAt(b)' = TokensAt(b) /\ wrong'[b] = wrong[b] /\ Owing(b)' = Owing(b) + 1
    /\ Unpaid(b)' = Unpaid(b) /\ Prepaid(b)' = Prepaid(b)

Pays(b) ==
    /\ TokensAt(b)' = IF TokensAt(b) >= Refill[b] THEN TokensAt(b) - Refill[b] ELSE 0
    /\ wrong'[b] = wrong[b] /\ Owing(b) = Owing(b)' + 1
    /\ Prepaid(b)' + Unpaid(b) = Prepaid(b) + Unpaid(b)' + 1

LEMMA StepsPay ==
    ASSUME LimTyped, LimTyped', NEW b \in Buckets, Paid(b),
           since' = since, instant' = instant, givenBack \subseteq givenBack',
           b \notin givenBack' /\ since <= instant => Guesses(b) \/ LetsThrough(b) \/ Pays(b)
    PROVE  Paid(b)'
<1> SUFFICES ASSUME b \notin givenBack', since <= instant
             PROVE  Account(wrong'[b], TokensAt(b)', Owing(b)', Unpaid(b)', Prepaid(b)', Many(b),
                            instant - since, Burst[b], Refill[b])
  BY DEF Paid, Many, Limits
<1>1. Account(wrong[b], TokensAt(b), Owing(b), Unpaid(b), Prepaid(b), Many(b),
              instant - since, Burst[b], Refill[b])
  BY DEF Paid
<1>2. /\ Burst[b] \in Nat /\ Burst[b] >= 1 /\ Refill[b] \in Nat
      /\ TokensAt(b) \in Nat /\ Owing(b) \in Nat /\ Unpaid(b) \in Nat /\ Prepaid(b) \in Nat
      /\ Many(b) \in Nat /\ Owing(b) <= Many(b) /\ wrong[b] \in Nat /\ instant - since \in Nat
  BY Numbers
<1>3. /\ TokensAt(b)' \in Nat /\ Owing(b)' \in Nat /\ Unpaid(b)' \in Nat /\ Prepaid(b)' \in Nat
      /\ wrong'[b] \in Nat
  BY NumbersNext
<1>4. CASE Guesses(b)
  <2>1. /\ TokensAt(b)' = TokensAt(b) /\ Owing(b)' <= Owing(b)
        /\ wrong'[b] + Prepaid(b)' + Unpaid(b) <= wrong[b] + Prepaid(b) + Unpaid(b)'
    BY <1>4 DEF Guesses
  <2>2. Account(wrong'[b], TokensAt(b), Owing(b)', Unpaid(b)', Prepaid(b)', Many(b),
                instant - since, Burst[b], Refill[b])
    BY <1>1, <1>2, <1>3, <2>1, AccountGuesses
  <2> QED
    BY <2>1, <2>2
<1>5. CASE LetsThrough(b)
  <2>1. /\ TokensAt(b) >= Refill[b]
        /\ TokensAt(b)' = TokensAt(b) /\ wrong'[b] = wrong[b] /\ Owing(b)' = Owing(b) + 1
        /\ Unpaid(b)' = Unpaid(b) /\ Prepaid(b)' = Prepaid(b)
    BY <1>5 DEF LetsThrough
  <2>2. Account(wrong[b], TokensAt(b), Owing(b) + 1, Unpaid(b), Prepaid(b), Many(b),
                instant - since, Burst[b], Refill[b])
    BY <1>1, <1>2, <2>1, AccountChecks
  <2> QED
    BY <2>1, <2>2
<1>6. CASE Pays(b)
  <2>1. \/ TokensAt(b) >= Refill[b] /\ TokensAt(b)' = TokensAt(b) - Refill[b]
        \/ TokensAt(b) < Refill[b] /\ TokensAt(b)' = 0
    BY <1>2, <1>6 DEF Pays
  <2>2. /\ wrong'[b] = wrong[b] /\ Owing(b) = Owing(b)' + 1
        /\ Prepaid(b)' + Unpaid(b) = Prepaid(b) + Unpaid(b)' + 1
    BY <1>6 DEF Pays
  <2> QED
    BY <1>1, <1>2, <1>3, <2>1, <2>2, AccountSpends
<1> QED
  BY <1>4, <1>5, <1>6

Bit(s, P) == IF s \in P THEN 1 ELSE 0

LEMMA MovesCount ==
    ASSUME LimTyped, NEW b \in Buckets, NEW g \in Guesser, NEW from, NEW to, Goes(g, from, to)
    PROVE  /\ g \notin Limits(b) => Owing(b)' = Owing(b) /\ Unpaid(b)' = Unpaid(b) /\ Prepaid(b)' = Prepaid(b)
           /\ g \in Limits(b) =>
                /\ Owing(b)' + Bit(from, OwingIn(b)) = Owing(b) + Bit(to, OwingIn(b))
                /\ Unpaid(b)' + Bit(from, UnpaidIn(b)) = Unpaid(b) + Bit(to, UnpaidIn(b))
                /\ Prepaid(b)' + Bit(from, PrepaidIn(b)) = Prepaid(b) + Bit(to, PrepaidIn(b))
<1>1. DOMAIN trying = Guesser /\ trying[g] = from /\ trying' = [trying EXCEPT ![g] = to]
  BY DEF LimTyped, Goes
<1>0. ASSUME NEW P
      PROVE  /\ g \in Limits(b) /\ trying[g] \notin P /\ to \in P =>
                  Cardinality(Among(trying', b, P)) = Cardinality(Among(trying, b, P)) + 1
             /\ g \in Limits(b) /\ trying[g] \in P /\ to \notin P =>
                  Cardinality(Among(trying, b, P)) = Cardinality(Among(trying', b, P)) + 1
             /\ g \notin Limits(b) \/ (trying[g] \in P <=> to \in P) =>
                  Cardinality(Among(trying', b, P)) = Cardinality(Among(trying, b, P))
  <2>1. \A k \in Limits(b) : k \in Guesser /\ trying'[k] = IF k = g THEN to ELSE trying[k]
    BY <1>1 DEF Limits
  <2>2. ASSUME g \in Limits(b), trying[g] \notin P, to \in P
        PROVE  Cardinality(Among(trying', b, P)) = Cardinality(Among(trying, b, P)) + 1
    <3>1. /\ Among(trying', b, P) = Among(trying, b, P) \cup {g}
          /\ g \notin Among(trying, b, P)
      BY <2>1, <2>2 DEF Among
    <3> QED
      BY <3>1, CountsAreNumbers, FS_AddElement
  <2>3. ASSUME g \in Limits(b), trying[g] \in P, to \notin P
        PROVE  Cardinality(Among(trying, b, P)) = Cardinality(Among(trying', b, P)) + 1
    <3>1. /\ Among(trying, b, P) = Among(trying', b, P) \cup {g}
          /\ g \notin Among(trying', b, P)
      BY <2>1, <2>3 DEF Among
    <3> QED
      BY <3>1, CountsAreNumbers, FS_AddElement
  <2>4. ASSUME g \notin Limits(b) \/ (trying[g] \in P <=> to \in P)
        PROVE  Among(trying', b, P) = Among(trying, b, P)
    BY <2>1, <2>4 DEF Among
  <2> QED
    BY <2>2, <2>3, <2>4
<1>2. ASSUME NEW P
      PROVE  /\ g \notin Limits(b) => Cardinality(Among(trying', b, P)) = Cardinality(Among(trying, b, P))
             /\ g \in Limits(b) =>
                  Cardinality(Among(trying', b, P)) + Bit(from, P) = Cardinality(Among(trying, b, P)) + Bit(to, P)
  <2> DEFINE n == Cardinality(Among(trying, b, P))
             m == Cardinality(Among(trying', b, P))
  <2>1. n \in Nat /\ m \in Nat
    BY CountsAreNumbers
  <2>2. /\ g \in Limits(b) /\ from \notin P /\ to \in P => m = n + 1
        /\ g \in Limits(b) /\ from \in P /\ to \notin P => n = m + 1
        /\ g \notin Limits(b) \/ (from \in P <=> to \in P) => m = n
    BY <1>0, <1>1
  <2> HIDE DEF n, m
  <2>3. /\ g \notin Limits(b) => m = n
        /\ g \in Limits(b) => m + Bit(from, P) = n + Bit(to, P)
    BY <2>1, <2>2 DEF Bit
  <2> QED
    BY <2>3 DEF n, m
<1>3. /\ Owing(b)' = Cardinality(Among(trying', b, OwingIn(b)))
      /\ Unpaid(b)' = Cardinality(Among(trying', b, UnpaidIn(b)))
      /\ Prepaid(b)' = Cardinality(Among(trying', b, PrepaidIn(b)))
  BY DEF Owing, Unpaid, Prepaid, Among, Limits, OwingIn, UnpaidIn, PrepaidIn
<1> QED
  BY <1>2, <1>3 DEF Owing, Unpaid, Prepaid

LEMMA Spends ==
    ASSUME LimTyped, NEW c \in Buckets, Spend(c), instant' = instant
    PROVE  /\ TokensAt(c)' = IF TokensAt(c) >= Refill[c] THEN TokensAt(c) - Refill[c] ELSE 0
           /\ \A b \in Buckets \ {c} : TokensAt(b)' = TokensAt(b)
           /\ DOMAIN bucket' = Buckets /\ \A b \in Buckets : BucketTyped(b)'
<1> DEFINE left == IF TokensAt(c) >= Refill[c] THEN TokensAt(c) - Refill[c] ELSE 0
<1>1. TokensAt(c) \in Nat /\ TokensAt(c) <= Full(c) /\ Refill[c] \in Nat /\ Full(c) \in Nat
  BY Numbers
<1>2. left \in Nat /\ left <= Full(c)
  BY <1>1
<1>3. /\ DOMAIN bucket' = Buckets
      /\ bucket'[c] = [parts |-> left, updated |-> instant, tracked |-> TRUE]
      /\ bucket'[c] \in [parts : {left}, updated : {instant}, tracked : BOOLEAN]
      /\ \A b \in Buckets \ {c} :
           \/ bucket'[b] = bucket[b]
           \/ bucket'[b] = NoBucket /\ TokensAt(b) = Full(b)
  BY DEF Spend, Recovered
<1> HIDE DEF left
<1>4. instant \in Nat
  BY DEF LimTyped
<1>5. TokensAt(c)' = left
  <2>1. Full(c)' = Full(c)
    BY DEF Full
  <2>2. TokensAt(c)' = Min({left + (instant - instant), Full(c)})
    BY <1>3, <2>1 DEF TokensAt
  <2>3. left + (instant - instant) = left
    BY <1>2, <1>4
  <2> QED
    BY <1>1, <1>2, <2>2, <2>3, LeastOfTwo
<1>6. ASSUME NEW b \in Buckets \ {c} PROVE TokensAt(b)' = TokensAt(b)
  <2>1. bucket'[b] = bucket[b] => TokensAt(b)' = TokensAt(b)
    BY DEF TokensAt, Full
  <2>2. bucket'[b] = NoBucket => TokensAt(b)' = Full(b)
    BY DEF TokensAt, Full, NoBucket
  <2> QED
    BY <1>3, <2>1, <2>2
<1>7. ASSUME NEW b \in Buckets PROVE BucketTyped(b)'
  <2>1. BucketTyped(b) /\ Full(b)' = Full(b) /\ Full(b) \in Nat
    BY Numbers DEF LimTyped, Full
  <2>2. CASE b = c
    <3>1. left <= Full(b) /\ bucket'[b] \in [parts : {left}, updated : {instant}, tracked : BOOLEAN]
      BY <1>2, <1>3, <2>2
    <3> QED
      BY <1>2, <1>4, <2>1, <3>1 DEF BucketTyped
  <2>3. CASE bucket'[b] = bucket[b]
    BY <2>1, <2>3 DEF BucketTyped
  <2>4. CASE bucket'[b] = NoBucket
    BY <1>4, <2>1, <2>4 DEF BucketTyped, NoBucket
  <2> QED
    BY <1>3, <2>2, <2>3, <2>4
<1> QED
  BY <1>3, <1>5, <1>6, <1>7 DEF left

LEMMA Refunds ==
    ASSUME LimTyped, NEW c \in Buckets, Refund(c), instant' = instant
    PROVE  /\ \A b \in Buckets \ {c} : TokensAt(b)' = TokensAt(b)
           /\ DOMAIN bucket' = Buckets /\ \A b \in Buckets : BucketTyped(b)'
<1> DEFINE back == Min({TokensAt(c) + Refill[c], Full(c)})
<1>1. TokensAt(c) \in Nat /\ Refill[c] \in Nat /\ Full(c) \in Nat /\ instant \in Nat
  BY Numbers DEF LimTyped
<1>2. back \in Nat /\ back <= Full(c)
  BY <1>1, LeastOfTwo
<1>3. BucketTyped(c) /\ bucket[c] \in [parts : Nat, updated : Nat, tracked : BOOLEAN]
  BY DEF LimTyped, BucketTyped
<1>4. /\ DOMAIN bucket' = Buckets
      /\ \A b \in Buckets \ {c} : bucket'[b] = bucket[b]
      /\ \/ bucket'[c] = bucket[c]
         \/ /\ bucket'[c] \in [parts : {back}, updated : {instant}, tracked : BOOLEAN]
  BY <1>3 DEF Refund, LimTyped
<1> HIDE DEF back
<1>5. ASSUME NEW b \in Buckets \ {c} PROVE TokensAt(b)' = TokensAt(b)
  BY <1>4 DEF TokensAt, Full
<1>6. ASSUME NEW b \in Buckets PROVE BucketTyped(b)'
  <2>1. BucketTyped(b) /\ Full(b)' = Full(b) /\ Full(b) \in Nat
    BY Numbers DEF LimTyped, Full
  <2>2. CASE bucket'[b] = bucket[b]
    BY <2>1, <2>2 DEF BucketTyped
  <2>3. CASE b = c /\ bucket'[c] \in [parts : {back}, updated : {instant}, tracked : BOOLEAN]
    BY <1>1, <1>2, <2>1, <2>3 DEF BucketTyped
  <2> QED
    BY <1>4, <2>2, <2>3
<1> QED
  BY <1>4, <1>5, <1>6
-----------------------------------------------------------------------------
(* The handlers                                                             *)

(* What every step of a guesser keeps.                                      *)
LEMMA GuessersKeepTypes ==
    ASSUME LimInv, NEW g \in Guesser, NEW from, NEW to \in Stages, Goes(g, from, to),
           UNCHANGED <<guessVars, instant>>,
           bucket' = bucket \/ \E c \in Buckets : Spend(c) \/ Refund(c),
           wrong' = wrong \/ Guessed({IpOf[g]}) \/ Guessed({IpOf[g], Everyone}),
           givenBack' \subseteq Ip
    PROVE  LimTyped' /\ Uncounted'
<1>1. limited' = limited /\ since' = since /\ instant' = instant
  BY DEF guessVars
<1>2. LimTyped /\ Uncounted
  BY DEF LimInv
<1>3. trying' \in [Guesser -> Stages]
  BY <1>2 DEF LimTyped, Goes
<1>4. DOMAIN bucket' = Buckets /\ \A b \in Buckets : BucketTyped(b)'
  <2>1. CASE bucket' = bucket
    BY <1>1, <1>2, <2>1 DEF LimTyped, BucketTyped, Full
  <2>2. CASE \E c \in Buckets : Spend(c) \/ Refund(c)
    BY <1>1, <1>2, <2>2, Spends, Refunds
  <2> QED
    BY <2>1, <2>2
<1>5. /\ wrong' \in [Buckets -> Nat]
      /\ \A b \in Buckets : instant < since \/ Limits(b) = {} => wrong'[b] = wrong[b]
  <2>1. wrong \in [Buckets -> Nat] /\ instant \in Nat /\ since \in Nat
    BY <1>2 DEF LimTyped
  <2>2. \A b \in {IpOf[g], Everyone} : Limits(b) # {}
    BY DEF Limits
  <2> QED
    BY <2>1, <2>2 DEF Guessed
<1>6. Uncounted'
  BY <1>1, <1>2, <1>5 DEF Uncounted, Limits
<1> QED
  BY <1>1, <1>2, <1>3, <1>4, <1>5, <1>6 DEF LimTyped

(* A step of a guesser, for the buckets that limit it and the others.       *)
LEMMA GuessersPay ==
    ASSUME LimInv, NEW g \in Guesser, NEW from, NEW to, Goes(g, from, to),
           LimTyped', Uncounted', UNCHANGED <<guessVars, instant>>, givenBack \subseteq givenBack',
           \A b \in Buckets \ {IpOf[g], Everyone} :
               wrong'[b] = wrong[b] /\ TokensAt(b)' = TokensAt(b),
           \A b \in {IpOf[g], Everyone} :
               b \notin givenBack' /\ since <= instant => Guesses(b) \/ LetsThrough(b) \/ Pays(b)
    PROVE  LimInv'
<1>1. ASSUME NEW b \in Buckets PROVE Paid(b)'
  <2>1. LimTyped /\ Paid(b) /\ since' = since /\ instant' = instant
    BY DEF LimInv, guessVars
  <2>2. ASSUME b \notin {IpOf[g], Everyone} PROVE Guesses(b)
    <3>1. g \notin Limits(b)
      BY <2>2 DEF Limits
    <3>2. Owing(b)' = Owing(b) /\ Unpaid(b)' = Unpaid(b) /\ Prepaid(b)' = Prepaid(b)
      BY <2>1, <3>1, MovesCount
    <3>3. /\ Owing(b) \in Nat /\ Unpaid(b) \in Nat /\ Prepaid(b) \in Nat /\ wrong[b] \in Nat
      BY <2>1, Numbers
    <3> QED
      BY <2>2, <3>2, <3>3 DEF Guesses
  <2> QED
    BY <2>1, <2>2, StepsPay
<1> QED
  BY <1>1 DEF LimInv, Buckets

(* The same, stage by stage, for the two buckets of a guesser.              *)
OwesIp(s) == Bit(s, {"join", "pin", "failed", "code", "login", "wrongCode"})
GuessedIp(s) == Bit(s, {"failed", "wrongCode"})
SpentIp(s) == Bit(s, {"argon2"})
OwesAll(s) == Bit(s, {"pin", "failed", "spent"})
GuessedAll(s) == Bit(s, {"failed", "spent"})

LEMMA StagesCount ==
    /\ \A s \in {"idle", "spent", "argon2"} : OwesIp(s) = 0
    /\ \A s \in {"join", "pin", "failed", "code", "login", "wrongCode"} : OwesIp(s) = 1
    /\ \A s \in Stages \ {"failed", "wrongCode"} : GuessedIp(s) = 0
    /\ \A s \in {"failed", "wrongCode"} : GuessedIp(s) = 1
    /\ \A s \in Stages \ {"argon2"} : SpentIp(s) = 0
    /\ SpentIp("argon2") = 1
    /\ \A s \in Stages \ {"pin", "failed", "spent"} : OwesAll(s) = 0
    /\ \A s \in {"pin", "failed", "spent"} : OwesAll(s) = 1
    /\ \A s \in Stages \ {"failed", "spent"} : GuessedAll(s) = 0
    /\ \A s \in {"failed", "spent"} : GuessedAll(s) = 1
  BY DEF OwesIp, GuessedIp, SpentIp, OwesAll, GuessedAll, Bit, Stages

LEMMA BothMove ==
    ASSUME LimTyped, NEW g \in Guesser, NEW from, NEW to, Goes(g, from, to), NEW c, c = IpOf[g]
    PROVE  /\ c \in Buckets /\ Owing(c) \in Nat /\ Unpaid(c) \in Nat /\ Prepaid(c) \in Nat
           /\ Owing(c)' + OwesIp(from) = Owing(c) + OwesIp(to)
           /\ Unpaid(c)' + GuessedIp(from) = Unpaid(c) + GuessedIp(to)
           /\ Prepaid(c)' + SpentIp(from) = Prepaid(c) + SpentIp(to)
           /\ Owing(c)' \in Nat /\ Unpaid(c)' \in Nat /\ Prepaid(c)' \in Nat
           /\ Everyone \in Buckets
           /\ Owing(Everyone) \in Nat /\ Unpaid(Everyone) \in Nat /\ Prepaid(Everyone) \in Nat
           /\ Owing(Everyone)' + OwesAll(from) = Owing(Everyone) + OwesAll(to)
           /\ Unpaid(Everyone)' + GuessedAll(from) = Unpaid(Everyone) + GuessedAll(to)
           /\ Prepaid(Everyone)' = Prepaid(Everyone)
           /\ Owing(Everyone)' \in Nat /\ Unpaid(Everyone)' \in Nat
<1>1. c \in Buckets /\ Everyone \in Buckets /\ c # Everyone
  BY DEF Buckets
<1>2. g \in Limits(c) /\ g \in Limits(Everyone)
  BY DEF Limits
<1>3. /\ OwingIn(c) = {"join", "pin", "failed", "code", "login", "wrongCode"}
      /\ UnpaidIn(c) = {"failed", "wrongCode"} /\ PrepaidIn(c) = {"argon2"}
      /\ OwingIn(Everyone) = {"pin", "failed", "spent"}
      /\ UnpaidIn(Everyone) = {"failed", "spent"} /\ PrepaidIn(Everyone) = {}
  BY <1>1 DEF OwingIn, UnpaidIn, PrepaidIn
<1>4. /\ Owing(c) \in Nat /\ Unpaid(c) \in Nat /\ Prepaid(c) \in Nat
      /\ Owing(Everyone) \in Nat /\ Unpaid(Everyone) \in Nat /\ Prepaid(Everyone) \in Nat
  BY <1>1, Numbers
<1>5. ASSUME NEW b \in Buckets
      PROVE  Owing(b)' \in Nat /\ Unpaid(b)' \in Nat /\ Prepaid(b)' \in Nat
  <2>1. /\ Owing(b)' = Cardinality(Among(trying', b, OwingIn(b)))
        /\ Unpaid(b)' = Cardinality(Among(trying', b, UnpaidIn(b)))
        /\ Prepaid(b)' = Cardinality(Among(trying', b, PrepaidIn(b)))
    BY DEF Owing, Unpaid, Prepaid, Among, Limits, OwingIn, UnpaidIn, PrepaidIn
  <2> QED
    BY <2>1, CountsAreNumbers
<1>6. /\ Owing(c)' + Bit(from, OwingIn(c)) = Owing(c) + Bit(to, OwingIn(c))
      /\ Unpaid(c)' + Bit(from, UnpaidIn(c)) = Unpaid(c) + Bit(to, UnpaidIn(c))
      /\ Prepaid(c)' + Bit(from, PrepaidIn(c)) = Prepaid(c) + Bit(to, PrepaidIn(c))
  BY <1>1, <1>2, MovesCount
<1>7. /\ Owing(Everyone)' + Bit(from, OwingIn(Everyone)) = Owing(Everyone) + Bit(to, OwingIn(Everyone))
      /\ Unpaid(Everyone)' + Bit(from, UnpaidIn(Everyone)) = Unpaid(Everyone) + Bit(to, UnpaidIn(Everyone))
      /\ Prepaid(Everyone)' + Bit(from, PrepaidIn(Everyone)) = Prepaid(Everyone) + Bit(to, PrepaidIn(Everyone))
  BY <1>1, <1>2, MovesCount
<1>8. Bit(from, {}) = 0 /\ Bit(to, {}) = 0
  BY DEF Bit
<1>9. Prepaid(Everyone)' = Prepaid(Everyone)
  BY <1>1, <1>3, <1>4, <1>5, <1>7, <1>8
<1> QED
  BY <1>1, <1>3, <1>4, <1>5, <1>6, <1>7, <1>9 DEF OwesIp, OwesAll, GuessedIp, SpentIp, GuessedAll

(* JoinChecksIp, CodeChecks, LoginChecks.                                   *)
LEMMA ChecksPay ==
    ASSUME LimInv, NEW g \in Guesser, NEW to \in {"join", "code", "login"}, Goes(g, "idle", to),
           Check(IpOf[g]), UNCHANGED <<guessVars, instant, bucket, wrong, givenBack>>
    PROVE  LimInv'
<1> DEFINE c == IpOf[g]
<1>1. LimTyped /\ givenBack \subseteq Ip
  BY DEF LimInv, LimTyped
<1>2. LimTyped' /\ Uncounted'
  BY <1>1, GuessersKeepTypes DEF Stages
<1>3. \A b \in Buckets : wrong'[b] = wrong[b] /\ TokensAt(b)' = TokensAt(b)
  BY DEF TokensAt, Full
<1>4. /\ OwesIp("idle") = 0 /\ OwesIp(to) = 1
      /\ \A s \in {"idle", to} : GuessedIp(s) = 0 /\ SpentIp(s) = 0 /\ OwesAll(s) = 0 /\ GuessedAll(s) = 0
  BY StagesCount DEF Stages
<1>5. /\ c \in Buckets /\ Everyone \in Buckets
      /\ Owing(c)' = Owing(c) + 1 /\ Unpaid(c)' = Unpaid(c) /\ Prepaid(c)' = Prepaid(c)
      /\ Owing(Everyone)' = Owing(Everyone) /\ Unpaid(Everyone)' = Unpaid(Everyone)
      /\ Prepaid(Everyone)' = Prepaid(Everyone)
  BY <1>1, <1>4, BothMove
<1>6. LetsThrough(c) /\ Guesses(Everyone)
  BY <1>1, <1>3, <1>5, Numbers DEF LetsThrough, Guesses, Check
<1> QED
  BY <1>2, <1>3, <1>6, GuessersPay

(* JoinChecksAll, when there is a token.                                    *)
LEMMA SecondCheckPays ==
    ASSUME LimInv, NEW g \in Guesser, Goes(g, "join", "pin"),
           Check(Everyone), UNCHANGED <<guessVars, instant, bucket, wrong, givenBack>>
    PROVE  LimInv'
<1> DEFINE c == IpOf[g]
<1>1. LimTyped /\ givenBack \subseteq Ip
  BY DEF LimInv, LimTyped
<1>2. LimTyped' /\ Uncounted'
  BY <1>1, GuessersKeepTypes DEF Stages
<1>3. \A b \in Buckets : wrong'[b] = wrong[b] /\ TokensAt(b)' = TokensAt(b)
  BY DEF TokensAt, Full
<1>4. /\ OwesAll("join") = 0 /\ OwesAll("pin") = 1
      /\ \A s \in {"join", "pin"} : OwesIp(s) = 1 /\ GuessedIp(s) = 0 /\ SpentIp(s) = 0 /\ GuessedAll(s) = 0
  BY StagesCount DEF Stages
<1>5. /\ c \in Buckets /\ Everyone \in Buckets
      /\ Owing(c)' = Owing(c) /\ Unpaid(c)' = Unpaid(c) /\ Prepaid(c)' = Prepaid(c)
      /\ Owing(Everyone)' = Owing(Everyone) + 1 /\ Unpaid(Everyone)' = Unpaid(Everyone)
      /\ Prepaid(Everyone)' = Prepaid(Everyone)
  BY <1>1, <1>4, BothMove
<1>6. Guesses(c) /\ LetsThrough(Everyone)
  BY <1>1, <1>3, <1>5, Numbers DEF LetsThrough, Guesses, Check
<1> QED
  BY <1>2, <1>3, <1>6, GuessersPay

(* JoinChecksAll without a token, JoinSucceeds, CodeRight.                  *)
LEMMA LeavesPay ==
    ASSUME LimInv, NEW g \in Guesser, NEW from \in {"join", "pin", "code"}, Goes(g, from, "idle"),
           UNCHANGED <<guessVars, instant, bucket, wrong, givenBack>>
    PROVE  LimInv'
<1> DEFINE c == IpOf[g]
<1>1. LimTyped /\ givenBack \subseteq Ip
  BY DEF LimInv, LimTyped
<1>2. LimTyped' /\ Uncounted'
  BY <1>1, GuessersKeepTypes DEF Stages
<1>3. \A b \in Buckets : wrong'[b] = wrong[b] /\ TokensAt(b)' = TokensAt(b)
  BY DEF TokensAt, Full
<1>4. /\ OwesIp("idle") = 0 /\ OwesAll("idle") = 0 /\ OwesIp(from) = 1 /\ OwesAll(from) \in {0, 1}
      /\ \A s \in {from, "idle"} : GuessedIp(s) = 0 /\ SpentIp(s) = 0 /\ GuessedAll(s) = 0
  BY StagesCount DEF Stages
<1>5. /\ c \in Buckets /\ Everyone \in Buckets
      /\ Owing(c)' <= Owing(c) /\ Unpaid(c)' = Unpaid(c) /\ Prepaid(c)' = Prepaid(c)
      /\ Owing(Everyone)' <= Owing(Everyone) /\ Unpaid(Everyone)' = Unpaid(Everyone)
      /\ Prepaid(Everyone)' = Prepaid(Everyone)
  BY <1>1, <1>4, BothMove
<1>6. Guesses(c) /\ Guesses(Everyone)
  BY <1>1, <1>3, <1>5, Numbers DEF Guesses
<1> QED
  BY <1>2, <1>3, <1>6, GuessersPay

(* JoinFails: a wrong guess that both buckets are owed for.                 *)
LEMMA JoinFailsPays ==
    ASSUME LimInv, NEW g \in Guesser, JoinFails(g)
    PROVE  LimInv'
<1> DEFINE c == IpOf[g]
<1>1. LimTyped /\ givenBack \subseteq Ip
  BY DEF LimInv, LimTyped
<1>2. /\ Goes(g, "pin", "failed") /\ Guessed({c, Everyone})
      /\ UNCHANGED <<guessVars, instant>> /\ bucket' = bucket /\ givenBack' = givenBack
  BY DEF JoinFails
<1>3. LimTyped' /\ Uncounted'
  BY <1>1, <1>2, GuessersKeepTypes DEF Stages
<1>4. /\ \A b \in Buckets : TokensAt(b)' = TokensAt(b) /\ wrong'[b] \in {wrong[b], wrong[b] + 1}
      /\ \A b \in Buckets \ {c, Everyone} : wrong'[b] = wrong[b]
  BY <1>2 DEF TokensAt, Full, Guessed, guessVars
<1>5. /\ \A s \in {"pin", "failed"} : OwesIp(s) = 1 /\ OwesAll(s) = 1 /\ SpentIp(s) = 0
      /\ GuessedIp("pin") = 0 /\ GuessedAll("pin") = 0 /\ GuessedIp("failed") = 1 /\ GuessedAll("failed") = 1
  BY StagesCount DEF Stages
<1>6. /\ c \in Buckets /\ Everyone \in Buckets
      /\ Owing(c)' = Owing(c) /\ Unpaid(c)' = Unpaid(c) + 1 /\ Prepaid(c)' = Prepaid(c)
      /\ Owing(Everyone)' = Owing(Everyone) /\ Unpaid(Everyone)' = Unpaid(Everyone) + 1
      /\ Prepaid(Everyone)' = Prepaid(Everyone)
  BY <1>1, <1>2, <1>5, BothMove
<1>7. Guesses(c) /\ Guesses(Everyone)
  BY <1>1, <1>4, <1>6, Numbers DEF Guesses
<1> QED
  BY <1>2, <1>3, <1>4, <1>7, GuessersPay

(* CodeWrong owes for its guess, LoginWrong has paid for it.                *)
LEMMA WrongsPay ==
    ASSUME LimInv, NEW g \in Guesser, CodeWrong(g) \/ LoginWrong(g)
    PROVE  LimInv'
<1> DEFINE c == IpOf[g]
<1>1. LimTyped /\ givenBack \subseteq Ip
  BY DEF LimInv, LimTyped
<1>2. PICK from, to \in Stages :
      /\ <<from, to>> \in {<<"code", "wrongCode">>, <<"argon2", "idle">>}
      /\ Goes(g, from, to) /\ Guessed({c})
      /\ UNCHANGED <<guessVars, instant>> /\ bucket' = bucket /\ givenBack' = givenBack
  BY DEF CodeWrong, LoginWrong, Stages
<1>3. LimTyped' /\ Uncounted'
  BY <1>1, <1>2, GuessersKeepTypes
<1>4. /\ \A b \in Buckets : TokensAt(b)' = TokensAt(b) /\ wrong'[b] \in {wrong[b], wrong[b] + 1}
      /\ \A b \in Buckets \ {c} : wrong'[b] = wrong[b]
  BY <1>2 DEF TokensAt, Full, Guessed, guessVars
<1>5. /\ \A s \in {from, to} : OwesAll(s) = 0 /\ GuessedAll(s) = 0
      /\ OwesIp(from) = OwesIp(to) /\ OwesIp(to) \in {0, 1}
      /\ \/ GuessedIp(from) = 0 /\ GuessedIp(to) = 1 /\ SpentIp(from) = 0 /\ SpentIp(to) = 0
         \/ GuessedIp(from) = 0 /\ GuessedIp(to) = 0 /\ SpentIp(from) = 1 /\ SpentIp(to) = 0
  BY <1>2, StagesCount DEF Stages
<1>6. /\ c \in Buckets /\ Everyone \in Buckets /\ c # Everyone
      /\ Owing(c)' = Owing(c) /\ Unpaid(c) + Prepaid(c)' + 1 = Unpaid(c)' + Prepaid(c)
      /\ Owing(Everyone)' = Owing(Everyone) /\ Unpaid(Everyone)' = Unpaid(Everyone)
      /\ Prepaid(Everyone)' = Prepaid(Everyone)
  BY <1>1, <1>2, <1>5, BothMove
<1>7. Guesses(c) /\ Guesses(Everyone)
  <2>1. /\ Unpaid(c)' \in Nat /\ Prepaid(c)' \in Nat
    BY <1>1, <1>2, BothMove
  <2> QED
    BY <1>1, <1>4, <1>6, <2>1, Numbers DEF Guesses
<1> QED
  BY <1>2, <1>3, <1>4, <1>7, GuessersPay

(* JoinSpendsIp, CodeSpends, LoginSpends.                                   *)
LEMMA IpSpendsPay ==
    ASSUME LimInv, NEW g \in Guesser, JoinSpendsIp(g) \/ CodeSpends(g) \/ LoginSpends(g)
    PROVE  LimInv'
<1> DEFINE c == IpOf[g]
<1>1. LimTyped /\ givenBack \subseteq Ip
  BY DEF LimInv, LimTyped
<1>2. PICK from, to \in Stages :
      /\ <<from, to>> \in {<<"failed", "spent">>, <<"wrongCode", "idle">>, <<"login", "argon2">>}
      /\ Goes(g, from, to) /\ Spend(c)
      /\ UNCHANGED <<guessVars, instant>> /\ wrong' = wrong /\ givenBack' = givenBack
  BY DEF JoinSpendsIp, CodeSpends, LoginSpends, Stages
<1>3. c \in Buckets /\ Everyone \in Buckets /\ c # Everyone
  BY DEF Buckets
<1>4. LimTyped' /\ Uncounted'
  BY <1>1, <1>2, <1>3, GuessersKeepTypes
<1>5. /\ TokensAt(c)' = IF TokensAt(c) >= Refill[c] THEN TokensAt(c) - Refill[c] ELSE 0
      /\ \A b \in Buckets \ {c} : TokensAt(b)' = TokensAt(b)
  BY <1>1, <1>2, <1>3, Spends
<1>6. /\ OwesAll(from) = OwesAll(to) /\ OwesAll(to) \in {0, 1}
      /\ GuessedAll(from) = GuessedAll(to) /\ GuessedAll(to) \in {0, 1}
      /\ OwesIp(from) = 1 /\ OwesIp(to) = 0
      /\ \/ GuessedIp(from) = 1 /\ GuessedIp(to) = 0 /\ SpentIp(from) = 0 /\ SpentIp(to) = 0
         \/ GuessedIp(from) = 0 /\ GuessedIp(to) = 0 /\ SpentIp(from) = 0 /\ SpentIp(to) = 1
  BY <1>2, StagesCount DEF Stages
<1>7. /\ Owing(c) = Owing(c)' + 1 /\ Prepaid(c)' + Unpaid(c) = Prepaid(c) + Unpaid(c)' + 1
      /\ Owing(Everyone)' = Owing(Everyone) /\ Unpaid(Everyone)' = Unpaid(Everyone)
      /\ Prepaid(Everyone)' = Prepaid(Everyone)
  BY <1>1, <1>2, <1>6, BothMove
<1>8. Pays(c)
  BY <1>2, <1>5, <1>7 DEF Pays
<1>9. Guesses(Everyone)
  BY <1>1, <1>2, <1>3, <1>5, <1>7, Numbers DEF Guesses
<1> QED
  BY <1>2, <1>4, <1>5, <1>8, <1>9, GuessersPay

LEMMA AllSpendsPay ==
    ASSUME LimInv, NEW g \in Guesser, JoinSpendsAll(g)
    PROVE  LimInv'
<1> DEFINE c == IpOf[g]
<1>1. LimTyped /\ givenBack \subseteq Ip
  BY DEF LimInv, LimTyped
<1>2. /\ Goes(g, "spent", "idle") /\ Spend(Everyone)
      /\ UNCHANGED <<guessVars, instant>> /\ wrong' = wrong /\ givenBack' = givenBack
  BY DEF JoinSpendsAll
<1>3. c \in Buckets /\ Everyone \in Buckets /\ c # Everyone
  BY DEF Buckets
<1>4. LimTyped' /\ Uncounted'
  BY <1>1, <1>2, <1>3, GuessersKeepTypes DEF Stages
<1>5. /\ TokensAt(Everyone)' = IF TokensAt(Everyone) >= Refill[Everyone]
                               THEN TokensAt(Everyone) - Refill[Everyone] ELSE 0
      /\ \A b \in Buckets \ {Everyone} : TokensAt(b)' = TokensAt(b)
  BY <1>1, <1>2, <1>3, Spends
<1>6. /\ OwesAll("spent") = 1 /\ OwesAll("idle") = 0
      /\ GuessedAll("spent") = 1 /\ GuessedAll("idle") = 0
      /\ \A s \in {"spent", "idle"} : OwesIp(s) = 0 /\ GuessedIp(s) = 0 /\ SpentIp(s) = 0
  BY StagesCount DEF Stages
<1>7. /\ Owing(c)' = Owing(c) /\ Unpaid(c)' = Unpaid(c) /\ Prepaid(c)' = Prepaid(c)
      /\ Owing(Everyone) = Owing(Everyone)' + 1 /\ Unpaid(Everyone) = Unpaid(Everyone)' + 1
      /\ Prepaid(Everyone)' = Prepaid(Everyone)
      /\ Unpaid(Everyone)' \in Nat /\ Prepaid(Everyone) \in Nat
  BY <1>1, <1>2, <1>6, BothMove
<1>8. Pays(Everyone)
  BY <1>2, <1>5, <1>7 DEF Pays
<1>9. Guesses(c)
  BY <1>1, <1>2, <1>3, <1>5, <1>7, Numbers DEF Guesses
<1> QED
  BY <1>2, <1>4, <1>5, <1>8, <1>9, GuessersPay

(* LoginRight: its address is looked at no more.                            *)
LEMMA LoginRightPays ==
    ASSUME LimInv, NEW g \in Guesser, LoginRight(g)
    PROVE  LimInv'
<1> DEFINE c == IpOf[g]
<1>1. LimTyped /\ givenBack \subseteq Ip
  BY DEF LimInv, LimTyped
<1>2. /\ Goes(g, "argon2", "idle") /\ Refund(c)
      /\ UNCHANGED <<guessVars, instant>> /\ wrong' = wrong /\ givenBack' = givenBack \cup {c}
  BY DEF LoginRight
<1>3. c \in Buckets /\ Everyone \in Buckets /\ c # Everyone
  BY DEF Buckets
<1>4. LimTyped' /\ Uncounted'
  BY <1>1, <1>2, <1>3, GuessersKeepTypes DEF Stages
<1>5. \A b \in Buckets \ {c} : TokensAt(b)' = TokensAt(b)
  BY <1>1, <1>2, <1>3, Refunds
<1>6. OwesAll("argon2") = 0 /\ OwesAll("idle") = 0 /\ GuessedAll("argon2") = 0 /\ GuessedAll("idle") = 0
  BY StagesCount DEF Stages
<1>7. /\ Owing(Everyone)' = Owing(Everyone) /\ Unpaid(Everyone)' = Unpaid(Everyone)
      /\ Prepaid(Everyone)' = Prepaid(Everyone)
  BY <1>1, <1>2, <1>6, BothMove
<1>8. Guesses(Everyone)
  BY <1>1, <1>2, <1>3, <1>5, <1>7, Numbers DEF Guesses
<1> QED
  BY <1>2, <1>4, <1>5, <1>8, GuessersPay

LEMMA TicksPay ==
    ASSUME LimInv, LimTick
    PROVE  LimInv'
<1>1. /\ instant' = instant + 1 /\ limited' = limited /\ since' = since /\ bucket' = bucket
      /\ trying' = trying /\ wrong' = wrong /\ givenBack' = givenBack
  BY DEF LimTick, guessVars
<1>2. LimTyped /\ Uncounted /\ instant \in Nat /\ since \in Nat
  BY DEF LimInv, LimTyped
<1>3. \A b \in Buckets : BucketTyped(b)'
  BY <1>1, <1>2 DEF LimTyped, BucketTyped, Full
<1>4. LimTyped'
  BY <1>1, <1>2, <1>3 DEF LimTyped
<1>5. Uncounted'
  BY <1>1, <1>2 DEF Uncounted, Limits
<1>6. ASSUME NEW b \in Buckets PROVE Paid(b)'
  <2>1. /\ Owing(b)' = Owing(b) /\ Unpaid(b)' = Unpaid(b) /\ Prepaid(b)' = Prepaid(b)
    BY <1>1 DEF Owing, Unpaid, Prepaid, Among
  <2>2. TokensAt(b)' \in {TokensAt(b), TokensAt(b) + 1}
    <3>1. BucketTyped(b) /\ Full(b)' = Full(b) /\ Full(b) \in Nat
      BY <1>2, Numbers DEF LimTyped, Full
    <3>2. /\ bucket[b].parts \in Nat /\ bucket[b].updated \in Nat /\ bucket[b].updated <= instant
          /\ bucket[b].parts <= Full(b)
      BY <3>1 DEF BucketTyped
    <3> DEFINE m == bucket[b].parts + (instant - bucket[b].updated)
               k == bucket[b].parts + (instant + 1 - bucket[b].updated)
    <3>3. m \in Nat /\ k = m + 1
      BY <1>2, <3>2
    <3>4. TokensAt(b) = IF bucket[b].tracked THEN Min({m, Full(b)}) ELSE Full(b)
      BY DEF TokensAt
    <3>5. TokensAt(b)' = IF bucket[b].tracked THEN Min({k, Full(b)}) ELSE Full(b)
      <4>1. TokensAt(b)' = IF bucket'[b].tracked
                           THEN Min({bucket'[b].parts + (instant' - bucket'[b].updated), Full(b)})
                           ELSE Full(b)
        BY <3>1 DEF TokensAt
      <4>2. k = bucket'[b].parts + (instant' - bucket'[b].updated)
        BY <1>1, <1>2, <3>2
      <4> HIDE DEF k
      <4>3. TokensAt(b)' = IF bucket'[b].tracked THEN Min({k, Full(b)}) ELSE Full(b)
        BY <4>1, <4>2
      <4> QED
        BY <1>1, <4>3
    <3> HIDE DEF m, k
    <3> QED
      BY <3>1, <3>3, <3>4, <3>5, LeastOfTwo
  <2>3. /\ Burst[b] \in Nat /\ Refill[b] \in Nat
        /\ TokensAt(b) \in Nat /\ Owing(b) \in Nat /\ Unpaid(b) \in Nat /\ Prepaid(b) \in Nat
        /\ Many(b) \in Nat /\ Prepaid(b) <= Many(b) /\ wrong[b] \in Nat
        /\ TokensAt(b)' \in Nat /\ TokensAt(b)' <= Burst[b] * Refill[b]
    <3>1. TokensAt(b)' <= Burst[b] * Refill[b]
      <4>1. (LimTyped => TokensAt(b) <= Burst[b] * Refill[b])'
        BY PTL, TokensFit
      <4> QED
        BY <1>4, <4>1
    <3> QED
      BY <1>2, <2>2, <3>1, Numbers
  <2> DEFINE e == instant - since
             T == TokensAt(b)'
  <2>4. ASSUME b \notin givenBack, since <= instant
        PROVE  Account(wrong[b], T, Owing(b), Unpaid(b), Prepaid(b), Many(b),
                       e + 1, Burst[b], Refill[b])
    <3>1. Account(wrong[b], TokensAt(b), Owing(b), Unpaid(b), Prepaid(b), Many(b),
                  e, Burst[b], Refill[b])
      BY <2>4 DEF LimInv, Paid
    <3>2. e \in Nat /\ T \in Nat /\ (T = TokensAt(b) \/ T = TokensAt(b) + 1)
      BY <1>2, <2>2, <2>3, <2>4
    <3> HIDE DEF e, T
    <3> QED
      BY <2>3, <3>1, <3>2, AccountTicks
  <2>5. ASSUME instant + 1 = since
        PROVE  Account(wrong[b], T, Owing(b), Unpaid(b), Prepaid(b), Many(b), 0, Burst[b], Refill[b])
    <3>1. wrong[b] = 0 /\ T \in Nat /\ T <= Burst[b] * Refill[b]
      BY <1>2, <2>3, <2>5 DEF Uncounted
    <3> HIDE DEF T
    <3> QED
      BY <2>3, <3>1, AccountOpens
  <2>6. ASSUME b \notin givenBack, since <= instant + 1
        PROVE  Account(wrong[b], T, Owing(b), Unpaid(b), Prepaid(b), Many(b),
                       instant + 1 - since, Burst[b], Refill[b])
    <3>1. /\ since <= instant \/ instant + 1 = since
          /\ instant + 1 - since = e + 1
          /\ instant + 1 = since => instant + 1 - since = 0
      BY <1>2, <2>6
    <3> HIDE DEF e, T
    <3> QED
      BY <2>4, <2>5, <2>6, <3>1
  <2>7. /\ wrong'[b] = wrong[b]
        /\ instant' - since' = instant + 1 - since
        /\ b \notin givenBack' /\ since' <= instant' => b \notin givenBack /\ since <= instant + 1
    BY <1>1, <1>2
  <2>8. b \notin givenBack' /\ since' <= instant' =>
           Account(wrong'[b], T, Owing(b)', Unpaid(b)', Prepaid(b)', Many(b),
                   instant' - since', Burst[b], Refill[b])
    <3> HIDE DEF T
    <3> QED
      BY <2>1, <2>6, <2>7
  <2> QED
    BY <2>8 DEF Paid, Many, Limits
<1> QED
  BY <1>4, <1>5, <1>6 DEF LimInv, Buckets
-----------------------------------------------------------------------------
LEMMA LimStart ==
    ASSUME LimInit
    PROVE  LimInv
<1>1. \A b \in Buckets : Burst[b] \in Nat /\ Refill[b] \in Nat /\ Full(b) \in Nat /\ Full(b) = Burst[b] * Refill[b]
  BY TimesNext DEF Buckets, Full
<1>2. ASSUME NEW b \in Buckets PROVE BucketTyped(b) /\ bucket[b].updated = 0
  <2>1. CASE b = Everyone
    BY <1>1, <2>1 DEF LimInit, BucketTyped
  <2>2. CASE b # Everyone
    BY <1>1, <2>2 DEF LimInit, BucketTyped, NoBucket
  <2> QED
    BY <2>1, <2>2
<1>3. LimTyped
  BY <1>2 DEF LimInit, LimTyped, Stages
<1>4. Uncounted
  BY DEF LimInit, Uncounted
<1>5. ASSUME NEW b \in Buckets, since <= instant PROVE Paid(b)
  <2>1. wrong[b] = 0 /\ instant - since = 0
    BY <1>3, <1>5 DEF LimInit, LimTyped
  <2>2. Account(0, TokensAt(b), Owing(b), Unpaid(b), Prepaid(b), Many(b), 0, Burst[b], Refill[b])
    BY <1>1, <1>3, Numbers, AccountOpens
  <2> QED
    BY <2>1, <2>2 DEF Paid
<1> QED
  BY <1>3, <1>4, <1>5 DEF LimInv, Paid

LEMMA LimStep ==
    ASSUME LimInv, [LimNext]_limVars
    PROVE  LimInv'
<1>1. CASE LimTick
  BY <1>1, TicksPay
<1>2. ASSUME NEW g \in Guesser, JoinChecksIp(g) \/ CodeChecks(g) \/ LoginChecks(g) PROVE LimInv'
  BY <1>2, ChecksPay DEF JoinChecksIp, CodeChecks, LoginChecks
<1>3. ASSUME NEW g \in Guesser, JoinChecksAll(g) PROVE LimInv'
  <2>1. UNCHANGED <<guessVars, instant, bucket, wrong, givenBack>>
    BY <1>3 DEF JoinChecksAll
  <2>2. CASE Check(Everyone)
    BY <1>3, <2>1, <2>2, SecondCheckPays DEF JoinChecksAll
  <2>3. CASE ~Check(Everyone)
    BY <1>3, <2>1, <2>3, LeavesPay DEF JoinChecksAll
  <2> QED
    BY <2>2, <2>3
<1>4. ASSUME NEW g \in Guesser, JoinSucceeds(g) \/ CodeRight(g) PROVE LimInv'
  BY <1>4, LeavesPay DEF JoinSucceeds, CodeRight
<1>5. CASE UNCHANGED limVars
  <2>1. /\ instant' = instant /\ limited' = limited /\ since' = since /\ bucket' = bucket
        /\ trying' = trying /\ wrong' = wrong /\ givenBack' = givenBack
    BY <1>5 DEF limVars, guessVars
  <2>2. LimTyped' /\ Uncounted'
    BY <2>1 DEF LimInv, LimTyped, BucketTyped, Full, Uncounted, Limits
  <2>3. ASSUME NEW b \in Buckets PROVE Paid(b)'
    BY <2>1 DEF LimInv, Paid, TokensAt, Full, Owing, Unpaid, Prepaid, Among, Many, Limits
  <2> QED
    BY <2>2, <2>3 DEF LimInv, Buckets
<1> QED
  BY <1>1, <1>2, <1>3, <1>4, <1>5, JoinFailsPays, WrongsPay, IpSpendsPay, AllSpendsPay, LoginRightPays
  DEF LimNext

LEMMA PaidIsBounded ==
    ASSUME LimInv
    PROVE  GuessRateBounded
<1> SUFFICES ASSUME NEW b \in Buckets, b \notin givenBack, since <= instant
             PROVE  wrong[b] <= Burst[b] - 1 + Many(b) * (2 + (instant - since) \div Refill[b])
  BY DEF GuessRateBounded, Many
<1>1. LimTyped /\ Uncounted /\ Paid(b)
  BY DEF LimInv
<1>2. /\ Burst[b] \in Nat \ {0} /\ Refill[b] \in Nat \ {0} /\ TokensAt(b) \in Nat
      /\ Owing(b) \in Nat /\ Unpaid(b) \in Nat /\ Prepaid(b) \in Nat /\ Many(b) \in Nat
      /\ Unpaid(b) <= Owing(b) /\ Owing(b) <= Many(b) /\ wrong[b] \in Nat /\ instant - since \in Nat
  BY <1>1, Numbers
<1>3. CASE Limits(b) = {}
  <2>1. wrong[b] = 0 /\ Many(b) = 0
    BY <1>1, <1>3, FS_EmptySet DEF Uncounted, Many
  <2>2. (instant - since) \div Refill[b] \in Nat
    BY <1>2
  <2> QED
    BY <1>2, <2>1, <2>2
<1>4. CASE Limits(b) # {}
  <2>1. Many(b) \in Nat \ {0}
    BY <1>2, <1>4, CountsAreNumbers, FS_EmptySet DEF Many
  <2>2. Account(wrong[b], TokensAt(b), Owing(b), Unpaid(b), Prepaid(b), Many(b),
                instant - since, Burst[b], Refill[b])
    BY <1>1 DEF Paid
  <2> QED
    BY <1>2, <2>1, <2>2, AccountBounds
<1> QED
  BY <1>3, <1>4

(* The wrong guesses of any window are bounded by what its bucket holds and *)
(* gets back, times those who may guess together (ip_limit.rs, ws.rs).      *)
THEOREM GuessRateStaysBounded == LimSpec => []GuessRateBounded
<1>1. LimInit => LimInv
  BY LimStart
<1>2. LimInv /\ [LimNext]_limVars => LimInv'
  BY LimStep
<1>3. LimInv => GuessRateBounded
  BY PaidIsBounded
<1> QED
  BY <1>1, <1>2, <1>3, PTL DEF LimSpec

HIDE LimiterAssumption DEF LimiterAssumption
-----------------------------------------------------------------------------
(* Waking: how old an address may be that a client was promised.            *)

InPoll(r) == \E p \in Poller : polling[p].router = r /\ polling[p].at = "polled"

Waking == [what : Machine \cup {NotYet}, routers : SUBSET Router, sent : SUBSET Router, told : BOOLEAN]
RouterPoll == [router : Router \cup {NotYet}, at : {"idle", "known", "polled"}]

WakeTyped ==
    /\ wnow \in Nat /\ wakeRows \subseteq Router
    /\ polled \in [Router -> Nat \cup {NotYet}]
    /\ \A r \in Router : polled[r] # NotYet => polled[r] <= wnow
    /\ routerQueue \in [Router -> SUBSET [mac : Machine \cup {NotYet}, at : Nat]]
    /\ asking \in [Asker -> Waking]
    /\ polling \in [Poller -> RouterPoll]
    /\ \A p \in Poller : polling[p].at # "idle" => polling[p].router \in Router
    /\ promised \subseteq [router : Router, mac : Machine \cup {NotYet}, at : Nat]

(* What a router has queued is no older than its last poll, or a poll is    *)
(* just about to take it.                                                   *)
QueueIsNew(r) ==
    InPoll(r) \/ polled[r] = NotYet \/ \A e \in routerQueue[r] : polled[r] <= e.at

(* A router a handler counts on asked a moment ago, or was forgotten since  *)
(* the handler began, and what it has queued with it.                       *)
CountedOn(r) ==
    /\ 0 < RouterOnline
    /\ polled[r] = NotYet => \A e \in routerQueue[r] : e.at = wnow
    /\ polled[r] # NotYet => wnow - polled[r] < RouterOnline

Promising(a) ==
    /\ \A r \in asking[a].routers \cup asking[a].sent : CountedOn(r)
    /\ \A r \in asking[a].sent : \A e \in routerQueue[r] : e.at = wnow \/ wnow - e.at < RouterQueueTTL

(* The address of a promise is queued, at most RouterOnline before it was   *)
(* made -- while that still tells anything.                                 *)
Backed(q) ==
    /\ q.at <= wnow
    /\ wnow - q.at < RouterQueueTTL - RouterOnline =>
         \E e \in routerQueue[q.router] :
           /\ e.mac = q.mac
           /\ \/ q.at - e.at < RouterOnline \/ q.at <= e.at
              \/ InPoll(q.router) /\ q.at = wnow /\ wnow - e.at < RouterQueueTTL

WakeInv ==
    /\ WakeTyped
    /\ \A r \in Router : QueueIsNew(r)
    /\ \A a \in Asker : Promising(a)
    /\ \A q \in promised : Backed(q)

LEMMA WakeStarts ==
    WakeInit => WakeInv
<1> SUFFICES ASSUME WakeInit PROVE WakeInv
  OBVIOUS
<1>1. WakeTyped
  BY WakeAssumption DEF WakeInit, WakeTyped, Waking, NotAsking, RouterPoll, NotPolling
<1>2. \A r \in Router : QueueIsNew(r)
  BY DEF WakeInit, QueueIsNew
<1>3. \A a \in Asker : Promising(a)
  BY DEF WakeInit, Promising, NotAsking
<1>4. \A q \in promised : Backed(q)
  BY DEF WakeInit
<1> QED
  BY <1>1, <1>2, <1>3, <1>4 DEF WakeInv

(* Steps that concern neither clock, polls nor queues.                      *)
LEMMA WakeUntouched ==
    ASSUME WakeInv, UNCHANGED <<wnow, polled, routerQueue, promised>>,
           wakeRows' \subseteq Router,
           asking' \in [Asker -> Waking], polling' \in [Poller -> RouterPoll],
           \A p \in Poller : polling'[p].at # "idle" => polling'[p].router \in Router,
           \A p \in Poller : polling[p].at = "polled" => polling'[p] = polling[p],
           \A a \in Asker : Promising(a)'
    PROVE  WakeInv'
<1>1. WakeTyped'
  BY DEF WakeInv, WakeTyped
<1>2. \A r \in Router : InPoll(r) => InPoll(r)'
  BY DEF InPoll
<1>3. \A r \in Router : QueueIsNew(r)'
  BY <1>2 DEF WakeInv, QueueIsNew
<1>4. ASSUME NEW q \in promised' PROVE Backed(q)'
  <2>1. q \in promised /\ q.router \in Router /\ Backed(q)
    BY <1>4 DEF WakeInv, WakeTyped
  <2>2. InPoll(q.router) => InPoll(q.router)'
    BY <2>1 DEF InPoll
  <2> QED
    BY <2>1, <2>2 DEF Backed
<1> QED
  BY <1>1, <1>3, <1>4 DEF WakeInv

LEMMA AsksKeeps ==
    ASSUME WakeInv, NEW a \in Asker, NEW m \in Machine, Asks(a, m)
    PROVE  WakeInv'
<1> DEFINE t == [NotAsking EXCEPT !.what = m]
<1>1. t \in Waking /\ t.routers = {} /\ t.sent = {}
  BY DEF NotAsking, Waking
<1>2. asking' = [asking EXCEPT ![a] = t] /\ UNCHANGED <<wnow, polled, routerQueue, promised, polling>>
  BY DEF Asks
<1> HIDE DEF t
<1>3. asking \in [Asker -> Waking]
  BY DEF WakeInv, WakeTyped
<1>4. ASSUME NEW b \in Asker PROVE Promising(b)'
  BY <1>1, <1>2, <1>3 DEF WakeInv, Promising, CountedOn
<1>5. asking' \in [Asker -> Waking]
  BY <1>1, <1>2, <1>3
<1> QED
  BY <1>2, <1>4, <1>5, WakeUntouched DEF WakeInv, WakeTyped, Asks

LEMMA FindsKeeps ==
    ASSUME WakeInv, NEW a \in Asker, FindsRouters(a)
    PROVE  WakeInv'
<1> DEFINE found == RoutersFor(asking[a].what, wnow)
<1>0. WakeTyped /\ asking[a] \in Waking /\ asking \in [Asker -> Waking]
  BY DEF WakeInv, WakeTyped
<1>1. UNCHANGED <<wnow, wakeRows, polled, routerQueue, promised, polling>>
  BY DEF FindsRouters
<1>2. \A r \in found : r \in Router /\ CountedOn(r)
  <2>1. ASSUME NEW r \in found PROVE r \in Router /\ CountedOn(r)
    <3>1. r \in Router /\ polled[r] # NotYet /\ wnow - polled[r] < RouterOnline
      BY <1>0 DEF RoutersFor, Online, Fresh, WakeTyped
    <3>2. polled[r] \in Nat /\ polled[r] <= wnow /\ wnow \in Nat
      BY <1>0, <3>1 DEF WakeTyped
    <3>3. RouterOnline \in Nat
      BY WakeAssumption
    <3>4. 0 < RouterOnline
      BY <3>1, <3>2, <3>3
    <3> QED
      BY <3>1, <3>4 DEF CountedOn
  <2> QED
    BY <2>1
<1> HIDE DEF found
<1>3. PICK t \in Waking : /\ asking' = [asking EXCEPT ![a] = t]
                          /\ t.routers \subseteq found /\ t.sent \subseteq asking[a].sent
  <2>1. CASE asking' = [asking EXCEPT ![a] = NotAsking]
    <3>1. NotAsking \in Waking /\ NotAsking.routers = {} /\ NotAsking.sent = {}
      BY DEF NotAsking, Waking
    <3> QED
      BY <2>1, <3>1
  <2>2. CASE asking' = [asking EXCEPT ![a] = [@ EXCEPT !.told = TRUE, !.routers = found]]
    <3> DEFINE u == [asking[a] EXCEPT !.told = TRUE, !.routers = found]
    <3>1. found \in SUBSET Router
      BY <1>2
    <3>2. u \in Waking /\ u.routers = found /\ u.sent = asking[a].sent
      BY <1>0, <3>1 DEF Waking
    <3>3. asking' = [asking EXCEPT ![a] = u]
      BY <1>0, <2>2
    <3> HIDE DEF u
    <3> QED
      BY <3>2, <3>3
  <2> QED
    BY <2>1, <2>2 DEF FindsRouters, found
<1>4. asking' \in [Asker -> Waking] /\ asking'[a] = t /\ \A b \in Asker : b # a => asking'[b] = asking[b]
  BY <1>0, <1>3
<1>5. Promising(a)'
  BY <1>1, <1>2, <1>3, <1>4 DEF WakeInv, Promising, CountedOn
<1>6. ASSUME NEW b \in Asker, b # a PROVE Promising(b)'
  BY <1>1, <1>4, <1>6 DEF WakeInv, Promising, CountedOn
<1> QED
  BY <1>0, <1>1, <1>4, <1>5, <1>6, WakeUntouched DEF WakeTyped

LEMMA EnqueuesKeeps ==
    ASSUME WakeInv, NEW a \in Asker, NEW r \in Router, Enqueues(a, r)
    PROVE  WakeInv'
<1> DEFINE m == asking[a].what
           kept == Live(routerQueue[r], wnow)
           new == [mac |-> m, at |-> wnow]
           q == IF \E e \in kept : e.mac = m THEN kept ELSE kept \cup {new}
           t == [asking[a] EXCEPT !.routers = @ \ {r}, !.sent = @ \cup {r}]
<1>0. /\ WakeTyped /\ asking[a] \in Waking /\ asking \in [Asker -> Waking] /\ r \in asking[a].routers
      /\ routerQueue \in [Router -> SUBSET [mac : Machine \cup {NotYet}, at : Nat]]
      /\ wnow \in Nat /\ RouterQueueTTL \in Nat /\ RouterOnline \in Nat
  BY WakeAssumption DEF WakeInv, WakeTyped, Enqueues
<1>1. /\ UNCHANGED <<wnow, wakeRows, polled, promised, polling>>
      /\ routerQueue' = [routerQueue EXCEPT ![r] = q]
      /\ asking' = [asking EXCEPT ![a] = t]
  BY <1>0 DEF Enqueues
<1>2. /\ new \in [mac : Machine \cup {NotYet}, at : Nat] /\ new.mac = m /\ new.at = wnow
      /\ kept \in SUBSET [mac : Machine \cup {NotYet}, at : Nat]
      /\ \A e \in kept : e \in routerQueue[r] /\ wnow - e.at < RouterQueueTTL
      /\ \A e \in routerQueue[r] : wnow - e.at < RouterQueueTTL => e \in kept
  BY <1>0 DEF Live, Waking
<1>3. t \in Waking /\ t.routers \subseteq asking[a].routers /\ t.sent \subseteq asking[a].sent \cup {r}
  BY <1>0 DEF Waking
<1>4. /\ q \in SUBSET [mac : Machine \cup {NotYet}, at : Nat] /\ kept \subseteq q
      /\ \A e \in q : e \in kept \/ e.at = wnow
  BY <1>2
<1> HIDE DEF m, kept, new, q, t
<1>5. /\ routerQueue'[r] = q /\ \A s \in Router : s # r => routerQueue'[s] = routerQueue[s]
      /\ routerQueue' \in [Router -> SUBSET [mac : Machine \cup {NotYet}, at : Nat]]
      /\ asking'[a] = t /\ asking' \in [Asker -> Waking]
      /\ \A b \in Asker : b # a => asking'[b] = asking[b]
  BY <1>0, <1>1, <1>3, <1>4
<1>6. WakeTyped'
  BY <1>0, <1>1, <1>5 DEF WakeTyped
<1>7. ASSUME NEW s \in Router PROVE QueueIsNew(s)'
  <2>1. QueueIsNew(s) /\ (InPoll(s) => InPoll(s)')
    BY <1>1 DEF WakeInv, InPoll
  <2>2. CASE s # r
    BY <1>1, <1>5, <2>1, <2>2 DEF QueueIsNew
  <2>3. CASE s = r
    <3>1. polled[r] # NotYet => polled[r] <= wnow
      BY <1>0 DEF WakeTyped
    <3> QED
      BY <1>1, <1>2, <1>4, <1>5, <2>1, <2>3, <3>1 DEF QueueIsNew
  <2> QED
    BY <2>2, <2>3
<1>8. \A s \in Router : CountedOn(s) => CountedOn(s)'
  <2>1. ASSUME NEW s \in Router, CountedOn(s) PROVE CountedOn(s)'
    <3>1. CASE s # r
      BY <1>1, <1>5, <2>1, <3>1 DEF CountedOn
    <3>2. CASE s = r
      BY <1>1, <1>2, <1>4, <1>5, <2>1, <3>2 DEF CountedOn
    <3> QED
      BY <3>1, <3>2
  <2> QED
    BY <2>1
<1>9. ASSUME NEW b \in Asker PROVE Promising(b)'
  <2>1. Promising(b) /\ asking[b].routers \subseteq Router /\ asking[b].sent \subseteq Router
    BY <1>0 DEF WakeInv, Waking
  <2>2. /\ asking'[b].routers \subseteq asking[b].routers
        /\ \A s \in asking'[b].sent : s \in asking[b].sent \/ (b = a /\ s = r)
    BY <1>3, <1>5
  <2>3. \A s \in asking'[b].routers \cup asking'[b].sent : CountedOn(s)'
    BY <1>0, <1>8, <2>1, <2>2 DEF Promising
  <2>4. ASSUME NEW s \in asking'[b].sent, NEW e \in routerQueue'[s]
        PROVE  e.at = wnow \/ wnow - e.at < RouterQueueTTL
    <3>1. CASE s = r
      BY <1>2, <1>4, <1>5, <2>4, <3>1
    <3>2. CASE s # r
      BY <1>5, <2>1, <2>2, <2>4, <3>2 DEF Promising
    <3> QED
      BY <3>1, <3>2
  <2> QED
    BY <1>1, <2>3, <2>4 DEF Promising
<1>10. ASSUME NEW p \in promised' PROVE Backed(p)'
  <2>1. /\ p \in promised /\ p.router \in Router /\ Backed(p) /\ p.at \in Nat
        /\ InPoll(p.router) => InPoll(p.router)'
    BY <1>0, <1>1, <1>10 DEF WakeInv, WakeTyped, InPoll
  <2>2. CASE p.router # r
    BY <1>1, <1>5, <2>1, <2>2 DEF Backed
  <2>3. CASE p.router = r /\ wnow - p.at < RouterQueueTTL - RouterOnline
    <3>1. PICK e \in routerQueue[r] :
            /\ e.mac = p.mac
            /\ \/ p.at - e.at < RouterOnline \/ p.at <= e.at
               \/ InPoll(p.router) /\ p.at = wnow /\ wnow - e.at < RouterQueueTTL
      BY <2>1, <2>3 DEF Backed
    <3>2. e.at \in Nat /\ p.at \in Nat
      BY <1>0, <2>1
    <3>3. wnow - e.at < RouterQueueTTL
      BY <1>0, <2>3, <3>1, <3>2
    <3>4. e \in q
      BY <1>2, <1>4, <3>3
    <3>5. e \in routerQueue'[p.router] /\ p.at <= wnow
      BY <1>5, <2>1, <2>3, <3>4 DEF Backed
    <3> QED
      BY <1>1, <2>1, <3>1, <3>5 DEF Backed
  <2>4. CASE ~(wnow - p.at < RouterQueueTTL - RouterOnline)
    BY <1>1, <2>1, <2>4 DEF Backed
  <2> QED
    BY <2>2, <2>3, <2>4
<1> QED
  BY <1>6, <1>7, <1>9, <1>10 DEF WakeInv

LEMMA SentKeeps ==
    ASSUME WakeInv, NEW a \in Asker, WakeSent(a)
    PROVE  WakeInv'
<1> DEFINE more == {[router |-> r, mac |-> asking[a].what, at |-> wnow] :
                      r \in {r \in asking[a].sent : \E e \in routerQueue[r] : e.mac = asking[a].what}}
<1>0. /\ WakeTyped /\ asking[a] \in Waking /\ asking \in [Asker -> Waking]
      /\ routerQueue \in [Router -> SUBSET [mac : Machine \cup {NotYet}, at : Nat]]
      /\ wnow \in Nat /\ RouterQueueTTL \in Nat /\ RouterOnline \in Nat
  BY WakeAssumption DEF WakeInv, WakeTyped
<1>1. /\ UNCHANGED <<wnow, wakeRows, polled, routerQueue, polling>>
      /\ promised' = promised \cup more /\ asking' = [asking EXCEPT ![a] = NotAsking]
  BY DEF WakeSent
<1>2. \A p \in more : /\ p \in [router : Router, mac : Machine \cup {NotYet}, at : Nat]
                      /\ p.router \in asking[a].sent /\ p.at = wnow
                      /\ \E e \in routerQueue[p.router] : e.mac = p.mac
  <2>1. asking[a].what \in Machine \cup {NotYet} /\ asking[a].sent \subseteq Router
    BY <1>0 DEF Waking
  <2> QED
    BY <1>0, <2>1
<1> HIDE DEF more
<1>3. NotAsking \in Waking /\ NotAsking.routers = {} /\ NotAsking.sent = {}
  BY DEF NotAsking, Waking
<1>4. WakeTyped'
  BY <1>0, <1>1, <1>2, <1>3 DEF WakeTyped
<1>5. \A s \in Router : QueueIsNew(s)' /\ (InPoll(s) => InPoll(s)')
  BY <1>1 DEF WakeInv, QueueIsNew, InPoll
<1>6. ASSUME NEW b \in Asker PROVE Promising(b)'
  BY <1>0, <1>1, <1>3 DEF WakeInv, Promising, CountedOn
<1>7. ASSUME NEW p \in promised' PROVE Backed(p)'
  <2>1. CASE p \in promised
    <3>1. p.router \in Router /\ Backed(p) /\ (InPoll(p.router) => InPoll(p.router)')
      BY <1>0, <1>5, <2>1 DEF WakeInv, WakeTyped
    <3> QED
      BY <1>1, <3>1 DEF Backed
  <2>2. CASE p \in more
    <3>1. PICK e \in routerQueue[p.router] : e.mac = p.mac
      BY <1>2, <2>2
    <3>2. /\ p.router \in Router /\ p.at = wnow /\ p.router \in asking[a].sent
          /\ e.at \in Nat
      BY <1>0, <1>2, <2>2, <3>1
    <3>3. CountedOn(p.router) /\ (e.at = wnow \/ wnow - e.at < RouterQueueTTL)
      BY <3>1, <3>2 DEF WakeInv, Promising
    <3>4. QueueIsNew(p.router) /\ (polled[p.router] # NotYet => polled[p.router] \in Nat)
      BY <1>0, <3>2 DEF WakeInv, WakeTyped
    <3>5. \/ p.at - e.at < RouterOnline \/ p.at <= e.at
          \/ InPoll(p.router) /\ p.at = wnow /\ wnow - e.at < RouterQueueTTL
      <4>1. CASE InPoll(p.router)
        BY <1>0, <3>2, <3>3, <4>1
      <4>2. CASE polled[p.router] = NotYet
        BY <1>0, <3>1, <3>2, <3>3, <4>2 DEF CountedOn
      <4>3. CASE polled[p.router] # NotYet /\ polled[p.router] <= e.at
        <5>1. wnow - polled[p.router] < RouterOnline
          BY <3>3, <4>3 DEF CountedOn
        <5> QED
          BY <1>0, <3>2, <3>4, <4>3, <5>1
      <4> QED
        BY <3>1, <3>4, <4>1, <4>2, <4>3 DEF QueueIsNew
    <3>6. InPoll(p.router) => InPoll(p.router)'
      BY <1>5, <3>2
    <3> QED
      BY <1>0, <1>1, <3>1, <3>2, <3>5, <3>6 DEF Backed
  <2> QED
    BY <1>1, <1>7, <2>1, <2>2
<1> QED
  BY <1>4, <1>5, <1>6, <1>7 DEF WakeInv

LEMMA ForgetKeeps ==
    ASSUME WakeInv, NEW r \in Router, ForgetRouter(r)
    PROVE  WakeInv'
<1>0. /\ WakeTyped /\ polled \in [Router -> Nat \cup {NotYet}]
      /\ routerQueue \in [Router -> SUBSET [mac : Machine \cup {NotYet}, at : Nat]]
  BY DEF WakeInv, WakeTyped
<1>1. /\ UNCHANGED <<wnow, wakeRows, asking, polling>>
      /\ polled' = [polled EXCEPT ![r] = NotYet]
      /\ routerQueue' = [routerQueue EXCEPT ![r] = {}]
      /\ promised' = {q \in promised : q.router # r}
  BY DEF ForgetRouter
<1>2. /\ polled'[r] = NotYet /\ routerQueue'[r] = {}
      /\ \A s \in Router : s # r => polled'[s] = polled[s] /\ routerQueue'[s] = routerQueue[s]
      /\ \A s : InPoll(s) => InPoll(s)'
  BY <1>0, <1>1 DEF InPoll
<1>3. WakeTyped'
  BY <1>0, <1>1 DEF WakeTyped
<1>4. \A s \in Router : QueueIsNew(s)'
  BY <1>2 DEF WakeInv, QueueIsNew
<1>5. \A s \in Router : CountedOn(s) => CountedOn(s)'
  BY <1>1, <1>2 DEF CountedOn
<1>6. ASSUME NEW b \in Asker PROVE Promising(b)'
  <2>1. Promising(b) /\ asking[b].routers \subseteq Router /\ asking[b].sent \subseteq Router
    BY <1>0 DEF WakeInv, WakeTyped, Waking
  <2> QED
    BY <1>1, <1>2, <1>5, <2>1 DEF Promising
<1>7. ASSUME NEW p \in promised' PROVE Backed(p)'
  <2>1. /\ p \in promised /\ p.router # r /\ p.router \in Router /\ Backed(p)
        /\ InPoll(p.router) => InPoll(p.router)'
    BY <1>0, <1>1, <1>2, <1>7 DEF WakeInv, WakeTyped
  <2> QED
    BY <1>1, <1>2, <2>1 DEF Backed
<1> QED
  BY <1>3, <1>4, <1>6, <1>7 DEF WakeInv

LEMMA PolledKeeps ==
    ASSUME WakeInv, NEW p \in Poller, RouterPolled(p)
    PROVE  WakeInv'
<1> DEFINE r == polling[p].router
           t == [polling[p] EXCEPT !.at = "polled"]
<1>0. /\ WakeTyped /\ polled \in [Router -> Nat \cup {NotYet}] /\ polling[p] \in RouterPoll /\ r \in Router
      /\ polling \in [Poller -> RouterPoll] /\ wnow \in Nat /\ RouterOnline \in Nat
      /\ polling[p].at = "known"
  BY WakeAssumption DEF WakeInv, WakeTyped, RouterPolled
<1>1. /\ UNCHANGED <<wnow, wakeRows, asking, routerQueue, promised>>
      /\ polled' = [polled EXCEPT ![r] = wnow]
      /\ polling' = [polling EXCEPT ![p] = t]
  BY <1>0 DEF RouterPolled
<1>2. t \in RouterPoll /\ t.router = r /\ t.at = "polled"
  BY <1>0 DEF RouterPoll
<1> HIDE DEF r, t
<1>3. /\ polled'[r] = wnow /\ \A s \in Router : s # r => polled'[s] = polled[s]
      /\ polling'[p] = t /\ \A o \in Poller : o # p => polling'[o] = polling[o]
  BY <1>0, <1>1
<1>4. WakeTyped'
  BY <1>0, <1>1, <1>2, <1>3 DEF WakeTyped
<1>5. \A s : s = r \/ InPoll(s) => InPoll(s)'
  BY <1>0, <1>2, <1>3 DEF InPoll
<1>6. \A s \in Router : QueueIsNew(s)'
  <2>1. ASSUME NEW s \in Router PROVE QueueIsNew(s)'
    <3>1. CASE s = r
      BY <1>5, <3>1 DEF QueueIsNew
    <3>2. CASE s # r
      BY <1>1, <1>3, <1>5, <3>2 DEF WakeInv, QueueIsNew
    <3> QED
      BY <3>1, <3>2
  <2> QED
    BY <2>1
<1>7. wnow # NotYet /\ wnow - wnow = 0
  BY <1>0, WakeAssumption
<1>8. \A s \in Router : CountedOn(s) => CountedOn(s)'
  BY <1>1, <1>3, <1>7 DEF CountedOn
<1>9. ASSUME NEW b \in Asker PROVE Promising(b)'
  <2>1. Promising(b) /\ asking[b].routers \subseteq Router /\ asking[b].sent \subseteq Router
    BY <1>0 DEF WakeInv, WakeTyped, Waking
  <2> QED
    BY <1>1, <1>8, <2>1 DEF Promising
<1>10. ASSUME NEW q \in promised' PROVE Backed(q)'
  <2>1. q \in promised /\ q.router \in Router /\ Backed(q) /\ (InPoll(q.router) => InPoll(q.router)')
    BY <1>0, <1>1, <1>5, <1>10 DEF WakeInv, WakeTyped
  <2> QED
    BY <1>1, <2>1 DEF Backed
<1> QED
  BY <1>4, <1>6, <1>9, <1>10 DEF WakeInv

LEMMA DrainKeeps ==
    ASSUME WakeInv, NEW p \in Poller, DrainRouterWakes(p)
    PROVE  WakeInv'
<1> DEFINE r == polling[p].router
<1>0. /\ WakeTyped /\ r \in Router
      /\ routerQueue \in [Router -> SUBSET [mac : Machine \cup {NotYet}, at : Nat]]
      /\ polling \in [Poller -> RouterPoll]
  BY DEF WakeInv, WakeTyped, DrainRouterWakes
<1>1. /\ UNCHANGED <<wnow, wakeRows, asking, polled>>
      /\ routerQueue' = [routerQueue EXCEPT ![r] = {}]
      /\ promised' = {q \in promised : q.router # r}
      /\ polling' = [polling EXCEPT ![p] = NotPolling]
  BY DEF DrainRouterWakes
<1>2. NotPolling \in RouterPoll /\ NotPolling.at = "idle"
  BY DEF NotPolling, RouterPoll
<1>3. /\ routerQueue'[r] = {} /\ \A s \in Router : s # r => routerQueue'[s] = routerQueue[s]
      /\ \A o \in Poller : o # p => polling'[o] = polling[o]
      /\ polling'[p] = NotPolling
  BY <1>0, <1>1
<1>4. WakeTyped'
  BY <1>0, <1>1, <1>2, <1>3 DEF WakeTyped
<1>5. \A s : s # r /\ InPoll(s) => InPoll(s)'
  BY <1>3 DEF InPoll
<1>6. \A s \in Router : QueueIsNew(s)'
  BY <1>1, <1>3, <1>5 DEF WakeInv, QueueIsNew
<1>8. \A s \in Router : CountedOn(s) => CountedOn(s)'
  BY <1>1, <1>3 DEF CountedOn
<1>9. ASSUME NEW b \in Asker PROVE Promising(b)'
  <2>1. Promising(b) /\ asking[b].routers \subseteq Router /\ asking[b].sent \subseteq Router
    BY <1>0 DEF WakeInv, WakeTyped, Waking
  <2> QED
    BY <1>1, <1>3, <1>8, <2>1 DEF Promising
<1>10. ASSUME NEW q \in promised' PROVE Backed(q)'
  <2>1. /\ q \in promised /\ q.router \in Router /\ q.router # r /\ Backed(q)
        /\ InPoll(q.router) => InPoll(q.router)'
    BY <1>0, <1>1, <1>5, <1>10 DEF WakeInv, WakeTyped
  <2> QED
    BY <1>1, <1>3, <2>1 DEF Backed
<1> QED
  BY <1>4, <1>6, <1>9, <1>10 DEF WakeInv

(* Time passes between the handlers only.                                   *)
LEMMA TickKeeps ==
    ASSUME WakeInv, WakeTick
    PROVE  WakeInv'
<1>0. WakeTyped /\ wnow \in Nat /\ wnow' = wnow + 1 /\ RouterQueueTTL \in Nat /\ RouterOnline \in Nat
  BY WakeAssumption DEF WakeInv, WakeTyped, WakeTick
<1>1. /\ UNCHANGED <<wakeRows, polled, routerQueue, asking, polling, promised>>
      /\ \A a \in Asker : asking[a] = NotAsking
      /\ \A p \in Poller : polling[p] = NotPolling
  BY DEF WakeTick
<1>2. WakeTyped'
  <2>1. \A r \in Router : polled[r] # NotYet => polled[r] \in Nat /\ polled[r] <= wnow
    BY <1>0 DEF WakeTyped
  <2>2. \A r \in Router : polled[r] # NotYet => polled[r] <= wnow + 1
    BY <1>0, <2>1
  <2> QED
    BY <1>0, <1>1, <2>2 DEF WakeTyped
<1>3. \A r : ~InPoll(r)
  BY <1>1 DEF InPoll, NotPolling
<1>4. \A r \in Router : QueueIsNew(r)'
  BY <1>1, <1>3 DEF WakeInv, QueueIsNew
<1>5. \A a \in Asker : Promising(a)'
  BY <1>1 DEF Promising, NotAsking
<1>6. ASSUME NEW q \in promised' PROVE Backed(q)'
  <2>1. q \in promised /\ Backed(q) /\ q.at \in Nat /\ q.router \in Router
    BY <1>0, <1>1, <1>6 DEF WakeInv, WakeTyped
  <2>2. q.at <= wnow'
    BY <1>0, <2>1 DEF Backed
  <2>3. ASSUME wnow' - q.at < RouterQueueTTL - RouterOnline
        PROVE  \E e \in routerQueue[q.router] : e.mac = q.mac /\ (q.at - e.at < RouterOnline \/ q.at <= e.at)
    <3>1. wnow - q.at < RouterQueueTTL - RouterOnline
      BY <1>0, <2>1, <2>3
    <3> QED
      BY <1>3, <2>1, <3>1 DEF Backed
  <2> QED
    BY <1>1, <2>2, <2>3 DEF Backed
<1> QED
  BY <1>2, <1>4, <1>5, <1>6 DEF WakeInv

LEMMA WakeStepKeeps ==
    WakeInv /\ [WakeNext]_wakeVars => WakeInv'
<1> SUFFICES ASSUME WakeInv, [WakeNext]_wakeVars PROVE WakeInv'
  OBVIOUS
<1>0. WakeTyped
  BY DEF WakeInv
<1>1. CASE WakeTick
  BY <1>1, TickKeeps
<1>2. CASE \/ \E m \in Machine : PowersUp(m) \/ PowersDown(m)
           \/ \E r \in Router : ForgetRow(r)
           \/ UNCHANGED wakeVars
  <2>1. /\ UNCHANGED <<wnow, polled, routerQueue, asking, polling, promised>>
        /\ wakeRows' \subseteq wakeRows
    BY <1>2 DEF PowersUp, PowersDown, ForgetRow, wakeVars
  <2>2. \A a \in Asker : Promising(a)'
    BY <2>1 DEF WakeInv, Promising, CountedOn
  <2> QED
    BY <1>0, <2>1, <2>2, WakeUntouched DEF WakeTyped
<1>3. ASSUME NEW p \in Poller, NEW r \in Router, PollStarts(p, r) PROVE WakeInv'
  <2> DEFINE t == [router |-> r, at |-> "known"]
  <2>1. /\ UNCHANGED <<wnow, polled, routerQueue, asking, promised, wakeRows>>
        /\ polling' = [polling EXCEPT ![p] = t] /\ polling[p] = NotPolling
    BY <1>3 DEF PollStarts
  <2>2. t \in RouterPoll /\ t.router = r /\ NotPolling.at = "idle"
    BY DEF RouterPoll, NotPolling
  <2> HIDE DEF t
  <2>3. /\ polling' \in [Poller -> RouterPoll] /\ polling'[p] = t
        /\ \A o \in Poller : o # p => polling'[o] = polling[o]
    BY <1>0, <2>1, <2>2 DEF WakeTyped
  <2>4. \A a \in Asker : Promising(a)'
    BY <2>1 DEF WakeInv, Promising, CountedOn
  <2>5. /\ \A o \in Poller : polling'[o].at # "idle" => polling'[o].router \in Router
        /\ \A o \in Poller : polling[o].at = "polled" => polling'[o] = polling[o]
    BY <1>0, <2>1, <2>2, <2>3 DEF WakeTyped
  <2> QED
    BY <1>0, <2>1, <2>3, <2>4, <2>5, WakeUntouched DEF WakeTyped
<1> QED
  BY <1>1, <1>2, <1>3, AsksKeeps, FindsKeeps, EnqueuesKeeps, SentKeeps, ForgetKeeps, PolledKeeps, DrainKeeps
     DEF WakeNext

(* A router that comes within RouterQueueTTL - RouterOnline of a request is *)
(* handed every address a client was told would be sent, however requests,  *)
(* polls and forgetting interleave, for any devices, routers and times.     *)
THEOREM PromisesAreKept ==
    WakeSpec => PromiseIsKept
<1>1. ASSUME WakeInv, NEW p \in Poller, DrainRouterWakes(p), NEW q \in promised,
             q.router = polling[p].router, wnow - q.at < RouterQueueTTL - RouterOnline
      PROVE  q.mac \in taken'
  <2>1. /\ wnow \in Nat /\ q.at \in Nat /\ q.at <= wnow /\ RouterQueueTTL \in Nat /\ RouterOnline \in Nat
        /\ q.router \in Router
    BY <1>1, WakeAssumption DEF WakeInv, WakeTyped, Backed
  <2>2. PICK e \in routerQueue[q.router] :
          /\ e.mac = q.mac
          /\ \/ q.at - e.at < RouterOnline \/ q.at <= e.at
             \/ InPoll(q.router) /\ q.at = wnow /\ wnow - e.at < RouterQueueTTL
    BY <1>1 DEF WakeInv, Backed
  <2>3. e.at \in Nat
    BY <1>1, <2>1, <2>2 DEF WakeInv, WakeTyped
  <2>4. wnow - e.at < RouterQueueTTL
    BY <1>1, <2>1, <2>2, <2>3
  <2>5. e \in Live(routerQueue[polling[p].router], wnow)
    BY <1>1, <2>4 DEF Live
  <2> QED
    BY <1>1, <2>2, <2>5 DEF DrainRouterWakes
<1>2. WakeInv /\ [WakeNext]_wakeVars =>
        [\A p \in Poller : DrainRouterWakes(p) =>
           \A q \in promised :
             /\ q.router = polling[p].router
             /\ wnow - q.at < RouterQueueTTL - RouterOnline
             => q.mac \in taken']_wakeVars
  BY <1>1
<1> QED
  BY <1>2, WakeStarts, WakeStepKeeps, PTL DEF WakeSpec, PromiseIsKept
-----------------------------------------------------------------------------
(* Recovery of a session.                                                   *)

USE RecoveryAssumption DEF RecoveryAssumption

Device == Computer \cup {NoComputer}

TabTyped ==
    /\ sid \in Nat /\ deviceId \in Device
    /\ guard \in [waiting : BOOLEAN, expected : Device]
    /\ timers \subseteq {"grace", "retry", "response", "connect"}
    /\ recovering \in BOOLEAN /\ waiting \in BOOLEAN
    /\ attempt \in 0 .. MaxAttempts

(* What the guard waits for: nothing in a session, the lost device in a    *)
(* recovery.                                                               *)
GuardKnows ==
    /\ sid # 0 => ~guard.waiting
    /\ recovering /\ guard.waiting => guard.expected = deviceId

TabInv == TabTyped /\ NeverStalls /\ GuardKnows

ToServer == [t : {"client_auth"}] \cup [t : {"connect"}, device : Device]
            \cup [t : {"bye", "ice"}, sid : Nat]
ToTab == [t : {"authenticated"}] \cup [t : {"joined"}, sid : Nat, device : Computer]
         \cup [t : {"bye"}, sid : Nat, final : BOOLEAN]
         \cup [t : {"error"}, about : {"connect", "ice"}]

LinkTyped ==
    /\ connectionLost \in BOOLEAN /\ socket \in BOOLEAN
    /\ toServer \in Seq(ToServer) /\ toTab \in Seq(ToTab)
    /\ inSession \in Nat /\ issuedSid \in Nat

(* The first word of a connection that came back is `authenticated`: until *)
(* the tab hears it, nothing else can reach it.                            *)
GreetingFirst ==
    connectionLost =>
        \/ ~socket /\ toServer = <<>> /\ toTab = <<>> /\ inSession = 0
        \/ /\ socket /\ toTab = <<>> /\ inSession = 0
           /\ toServer # <<>> /\ Head(toServer).t = "client_auth"
        \/ socket /\ toTab # <<>> /\ Head(toTab).t = "authenticated"

LinkInv == LinkTyped /\ GreetingFirst /\ (~socket => connectionLost)

RecInv == TabInv /\ LinkInv
-----------------------------------------------------------------------------
(* Sequences                                                                *)
LEMMA Appending ==
    ASSUME NEW S, NEW s \in Seq(S), NEW r \in Seq(S)
    PROVE  /\ s \o r \in Seq(S)
           /\ s # <<>> => s \o r # <<>> /\ Head(s \o r) = Head(s)
           /\ s # <<>> => Head(s) \in S /\ Tail(s) \in Seq(S)
  OBVIOUS

LEMMA SendingKeepsLink ==
    ASSUME LinkInv, NEW msgs \in Seq(ToServer), TabSends(msgs),
           UNCHANGED <<connectionLost, socket, toTab, inSession, issuedSid>>
    PROVE  LinkInv'
<1>1. toServer' \in Seq(ToServer) /\ (~socket => toServer' = toServer)
  BY Appending DEF LinkInv, LinkTyped, TabSends
<1>2. toServer # <<>> => toServer' # <<>> /\ Head(toServer') = Head(toServer)
  BY Appending DEF LinkInv, LinkTyped, TabSends
<1> QED
  BY <1>1, <1>2 DEF LinkInv, LinkTyped, GreetingFirst

LEMMA TabMessages ==
    /\ <<>> \in Seq(ToServer) /\ <<>> \in Seq(ToTab)
    /\ \A s \in Nat : <<Bye(s)>> \in Seq(ToServer) /\ <<[t |-> "ice", sid |-> s]>> \in Seq(ToServer)
    /\ \A d \in Device : <<[t |-> "connect", device |-> d]>> \in Seq(ToServer)
    /\ <<[t |-> "client_auth"]>> \in Seq(ToServer)
<1>1. \A s \in Nat : Bye(s) \in ToServer /\ [t |-> "ice", sid |-> s] \in ToServer
  BY DEF Bye, ToServer
<1>2. \A d \in Device : [t |-> "connect", device |-> d] \in ToServer
  BY DEF ToServer
<1>3. [t |-> "client_auth"] \in ToServer
  BY DEF ToServer
<1> QED
  BY <1>1, <1>2, <1>3

LEMMA HeadOfTab ==
    ASSUME LinkTyped, toTab # <<>>
    PROVE  /\ Tail(toTab) \in Seq(ToTab) /\ Head(toTab) \in ToTab
           /\ Head(toTab).t = "joined" => Head(toTab).sid \in Nat /\ Head(toTab).device \in Computer
           /\ Head(toTab).t = "bye" => Head(toTab).sid \in Nat
<1>1. Tail(toTab) \in Seq(ToTab) /\ Head(toTab) \in ToTab
  BY Appending DEF LinkTyped
<1> QED
  BY <1>1 DEF ToTab
-----------------------------------------------------------------------------
(* Pieces of the handlers                                                   *)
LEMMA Requests ==
    /\ NoRequest \in [waiting : BOOLEAN, expected : Device] /\ ~NoRequest.waiting
    /\ \A d \in Device : [waiting |-> TRUE, expected |-> d] \in [waiting : BOOLEAN, expected : Device]
  BY DEF NoRequest, Device

LEMMA TeardownKeeps ==
    ASSUME Teardown
    PROVE  TabInv'
<1>1. /\ sid' = 0 /\ deviceId' = NoComputer /\ guard' = NoRequest /\ timers' = {}
      /\ recovering' = FALSE /\ attempt' = 0 /\ waiting' = FALSE
  BY DEF Teardown
<1>2. TabTyped'
  <2>1. NoComputer \in Device /\ 0 \in 0 .. MaxAttempts
    BY DEF Device
  <2>2. guard' \in [waiting : BOOLEAN, expected : Device]
    BY <1>1, Requests
  <2> QED
    BY <1>1, <2>1, <2>2 DEF TabTyped
<1>3. NeverStalls' /\ GuardKnows'
  BY <1>1 DEF NeverStalls, GuardKnows
<1> QED
  BY <1>2, <1>3 DEF TabInv

LEMMA ScheduleKeeps ==
    ASSUME TabInv, NEW failed \in 0 .. MaxAttempts, ScheduleAttempt(failed),
           deviceId \in Computer, ~waiting,
           failed # MaxAttempts => \/ guard' = NoRequest
                                   \/ guard' = guard /\ (guard.waiting => guard.expected = deviceId)
    PROVE  TabInv'
<1>1. CASE failed = MaxAttempts
  BY <1>1, TeardownKeeps DEF ScheduleAttempt
<1>2. CASE failed # MaxAttempts
  <2>1. /\ sid' = 0 /\ recovering' = TRUE /\ attempt' = failed + 1
        /\ timers' = (timers \ {"grace", "response"}) \cup {"retry"}
        /\ deviceId' = deviceId /\ waiting' = waiting
    BY <1>2 DEF ScheduleAttempt
  <2>2. guard' \in [waiting : BOOLEAN, expected : Device]
        /\ (guard'.waiting => guard'.expected = deviceId)
    BY <1>2, Requests DEF TabInv, TabTyped
  <2>3. TabTyped'
    BY <1>2, <2>1, <2>2 DEF TabInv, TabTyped
  <2>4. timers' \cap {"retry", "response"} = {"retry"} /\ "grace" \notin timers'
    BY <2>1
  <2>5. NeverStalls'
    BY <2>1, <2>4 DEF NeverStalls
  <2> QED
    BY <2>1, <2>2, <2>3, <2>5 DEF TabInv, GuardKnows
<1> QED
  BY <1>1, <1>2

LEMMA LosingKeepsTab ==
    ASSUME TabInv, sid # 0, SessionLost
    PROVE  TabInv'
<1>1. ~recovering /\ ~waiting /\ ~guard.waiting
  BY DEF TabInv, NeverStalls, GuardKnows
<1>2. deviceId = NoComputer => TabInv'
  BY TeardownKeeps DEF SessionLost
<1>3. ASSUME deviceId # NoComputer
      PROVE  TabInv'
  <2>1. deviceId \in Computer
    BY <1>3 DEF TabInv, TabTyped, Device
  <2>2. ScheduleAttempt(0) /\ guard' = guard
    BY <1>3 DEF SessionLost
  <2> QED
    BY <1>1, <2>1, <2>2, ScheduleKeeps
<1> QED
  BY <1>2, <1>3

LEMMA SessionLostKeeps ==
    ASSUME TabInv, LinkInv, sid # 0, SessionLost,
           UNCHANGED <<connectionLost, socket, toTab, inSession, issuedSid>>
    PROVE  RecInv'
<1>1. \E msgs \in Seq(ToServer) : TabSends(msgs)
  <2>1. sid \in Nat
    BY DEF TabInv, TabTyped
  <2> QED
    BY <2>1, TabMessages DEF SessionLost
<1>2. LinkInv'
  BY <1>1, SendingKeepsLink
<1> QED
  BY <1>2, LosingKeepsTab DEF RecInv

(* An attempt that is due arms the wait for its answer.                     *)
LEMMA AskingKeeps ==
    ASSUME TabInv, recovering, "response" \notin timers, AsksAgain,
           UNCHANGED <<sid, deviceId, recovering, attempt>>
    PROVE  TabInv'
<1>1. deviceId \in Computer /\ sid = 0
  BY DEF TabInv, NeverStalls
<1>2. timers' \cap {"retry", "response"} = {"response"} /\ "grace" \notin timers'
  BY <1>1 DEF AsksAgain, TabInv, NeverStalls
<1>3. guard' = [waiting |-> TRUE, expected |-> deviceId] /\ waiting' = FALSE
  BY DEF AsksAgain
<1>4. TabTyped'
  BY <1>1, <1>3, Requests DEF AsksAgain, TabInv, TabTyped
<1>5. NeverStalls'
  BY <1>1, <1>2, <1>3 DEF NeverStalls
<1> QED
  BY <1>1, <1>3, <1>4, <1>5 DEF TabInv, GuardKnows

LEMMA AskingSends ==
    ASSUME TabInv, AsksAgain
    PROVE  \E msgs \in Seq(ToServer) : TabSends(msgs)
  BY TabMessages DEF AsksAgain, TabInv, TabTyped
-----------------------------------------------------------------------------
(* The user and the peer connection                                         *)
LEMMA TabUnchanged ==
    ASSUME TabInv, UNCHANGED <<sid, deviceId, guard, timers, recovering, attempt, waiting>>,
           connectionLost => connectionLost'
    PROVE  TabInv'
  BY DEF TabInv, TabTyped, NeverStalls, GuardKnows

LEMMA LinkUnchanged ==
    ASSUME LinkInv, UNCHANGED <<connectionLost, netVars>>
    PROVE  LinkInv'
  BY DEF LinkInv, LinkTyped, GreetingFirst, netVars

(* Timers other than a recovery's may be set and lapse.                     *)
LEMMA OtherTimers ==
    ASSUME TabInv, UNCHANGED <<sid, deviceId, recovering, attempt, waiting>>,
           connectionLost => connectionLost',
           timers' \subseteq {"grace", "retry", "response", "connect"},
           timers' \cap {"retry", "response"} = timers \cap {"retry", "response"},
           "grace" \in timers' => sid # 0,
           \/ guard' = guard \/ guard' = NoRequest
    PROVE  TabInv'
<1>1. /\ guard' \in [waiting : BOOLEAN, expected : Device]
      /\ guard'.waiting => guard.waiting /\ guard'.expected = guard.expected
  BY Requests DEF TabInv, TabTyped
<1>2. TabTyped' /\ GuardKnows'
  BY <1>1 DEF TabInv, TabTyped, GuardKnows
<1>3. NeverStalls'
  BY DEF TabInv, NeverStalls
<1> QED
  BY <1>2, <1>3 DEF TabInv

LEMMA BeginSessionKeeps ==
    ASSUME RecInv, NEW d \in Device, BeginSession(d)
    PROVE  RecInv'
<1>1. guard' \in [waiting : BOOLEAN, expected : Device]
  BY Requests DEF BeginSession
<1>2. sid = 0 /\ ~recovering /\ UNCHANGED <<sid, deviceId, recovering, attempt, waiting>>
  BY DEF BeginSession
<1>3. /\ timers' \subseteq {"grace", "retry", "response", "connect"}
      /\ timers' \cap {"retry", "response"} = timers \cap {"retry", "response"}
      /\ "grace" \in timers' => "grace" \in timers
  BY DEF BeginSession, RecInv, TabInv, TabTyped
<1>4. TabInv'
  <2>1. TabTyped' /\ GuardKnows'
    BY <1>1, <1>2, <1>3 DEF RecInv, TabInv, TabTyped, GuardKnows
  <2>2. NeverStalls'
    BY <1>2, <1>3 DEF RecInv, TabInv, NeverStalls
  <2> QED
    BY <2>1, <2>2 DEF TabInv
<1>5. LinkInv'
  BY TabMessages, SendingKeepsLink DEF BeginSession, RecInv
<1> QED
  BY <1>4, <1>5 DEF RecInv

LEMMA DisconnectKeeps ==
    ASSUME RecInv, DisconnectButton
    PROVE  RecInv'
<1>1. TabInv'
  BY TeardownKeeps DEF DisconnectButton
<1>2. \E msgs \in Seq(ToServer) : TabSends(msgs)
  <2>1. sid \in Nat
    BY DEF RecInv, TabInv, TabTyped
  <2> QED
    BY <2>1, TabMessages DEF DisconnectButton
<1>3. LinkInv'
  BY <1>2, SendingKeepsLink DEF DisconnectButton, RecInv
<1> QED
  BY <1>1, <1>3 DEF RecInv

LEMMA PeerKeeps ==
    ASSUME RecInv, PeerReports
    PROVE  RecInv'
<1>1. sid \in Nat
  BY DEF RecInv, TabInv, TabTyped
<1>2. CASE Connected \/ Disconnected
  <2>1. sid # 0 /\ LinkInv'
    BY <1>2, LinkUnchanged DEF Connected, Disconnected, RecInv
  <2>2. TabInv'
    <3>1. /\ timers' \subseteq {"grace", "retry", "response", "connect"}
          /\ timers' \cap {"retry", "response"} = timers \cap {"retry", "response"}
      BY <1>2 DEF Connected, Disconnected, RecInv, TabInv, TabTyped
    <3> QED
      BY <1>2, <2>1, <3>1, OtherTimers DEF Connected, Disconnected, RecInv
  <2> QED
    BY <2>1, <2>2 DEF RecInv
<1>3. CASE PeerFails
  BY <1>3, SessionLostKeeps DEF PeerFails, RecInv
<1>4. CASE SendsIce
  <2>1. LinkInv'
    BY <1>1, <1>4, TabMessages, SendingKeepsLink DEF SendsIce, RecInv, tabVars
  <2>2. TabInv'
    BY <1>4, TabUnchanged DEF SendsIce, RecInv, tabVars
  <2> QED
    BY <2>1, <2>2 DEF RecInv
<1>5. CASE NegotiationFails
  <2>1. LinkInv'
    <3>1. CASE TabSends(<<Bye(sid)>>)
      BY <1>1, <1>5, <3>1, TabMessages, SendingKeepsLink DEF NegotiationFails, RecInv
    <3>2. CASE UNCHANGED toServer
      BY <1>5, <3>2, LinkUnchanged DEF NegotiationFails, RecInv, netVars
    <3> QED
      BY <1>5, <3>1, <3>2 DEF NegotiationFails
  <2> QED
    BY <1>5, <2>1, TeardownKeeps DEF NegotiationFails, RecInv
<1> QED
  BY <1>2, <1>3, <1>4, <1>5 DEF PeerReports
-----------------------------------------------------------------------------
(* The timers                                                               *)
LEMMA TimersKeep ==
    ASSUME RecInv, TimerFires
    PROVE  RecInv'
<1>1. CASE GraceEnds
  <2>1. sid # 0
    BY <1>1 DEF GraceEnds, RecInv, TabInv, NeverStalls
  <2> QED
    BY <1>1, <2>1, SessionLostKeeps DEF GraceEnds, RecInv
<1>2. CASE RetryFires
  <2>1. recovering /\ sid = 0 /\ deviceId \in Computer /\ "response" \notin timers /\ ~waiting
    BY <1>2 DEF RetryFires, RecInv, TabInv, NeverStalls
  <2>2. CASE connectionLost
    <3>1. /\ waiting' = TRUE /\ timers' = timers \ {"retry"} /\ UNCHANGED <<guard, toServer>>
          /\ UNCHANGED <<sid, deviceId, recovering, attempt, connectionLost>>
      BY <1>2, <2>2 DEF RetryFires, WaitsForSocket
    <3>2. timers' \cap {"retry", "response"} = {} /\ "grace" \notin timers'
      BY <2>1, <3>1 DEF RecInv, TabInv, NeverStalls
    <3>3. TabInv'
      <4>1. TabTyped' /\ GuardKnows'
        BY <3>1 DEF RecInv, TabInv, TabTyped, GuardKnows
      <4>2. NeverStalls'
        BY <2>1, <2>2, <3>1, <3>2 DEF NeverStalls
      <4> QED
        BY <4>1, <4>2 DEF TabInv
    <3>4. LinkInv'
      BY <1>2, <3>1, LinkUnchanged DEF RetryFires, RecInv, netVars
    <3> QED
      BY <3>3, <3>4 DEF RecInv
  <2>3. CASE ~connectionLost
    <3>1. AsksAgain /\ UNCHANGED <<sid, deviceId, recovering, attempt, connectionLost>>
      BY <1>2, <2>3 DEF RetryFires
    <3>2. TabInv'
      BY <2>1, <3>1, AskingKeeps DEF RecInv
    <3>3. LinkInv'
      BY <1>2, <3>1, AskingSends, SendingKeepsLink DEF RetryFires, RecInv
    <3> QED
      BY <3>2, <3>3 DEF RecInv
  <2> QED
    BY <2>2, <2>3
<1>3. CASE ResponseTimesOut
  <2>1. /\ recovering /\ deviceId \in Computer /\ ~waiting /\ attempt \in 0 .. MaxAttempts
        /\ guard.waiting => guard.expected = deviceId
    BY <1>3 DEF ResponseTimesOut, RecInv, TabInv, TabTyped, NeverStalls, GuardKnows
  <2>2. TabInv'
    BY <1>3, <2>1, ScheduleKeeps DEF ResponseTimesOut, RecInv
  <2>3. LinkInv'
    BY <1>3, LinkUnchanged DEF ResponseTimesOut, RecInv
  <2> QED
    BY <2>2, <2>3 DEF RecInv
<1>4. CASE ConnectTimesOut
  <2>1. TabInv'
    <3>1. /\ timers' \subseteq {"grace", "retry", "response", "connect"}
          /\ timers' \cap {"retry", "response"} = timers \cap {"retry", "response"}
          /\ "grace" \in timers' => sid # 0
      BY <1>4 DEF ConnectTimesOut, RecInv, TabInv, TabTyped, NeverStalls
    <3> QED
      BY <1>4, <3>1, OtherTimers DEF ConnectTimesOut, RecInv
  <2>2. LinkInv'
    BY <1>4, LinkUnchanged DEF ConnectTimesOut, RecInv
  <2> QED
    BY <2>1, <2>2 DEF RecInv
<1> QED
  BY <1>1, <1>2, <1>3, <1>4 DEF TimerFires
-----------------------------------------------------------------------------
(* What the server says                                                     *)
LEMMA TakingKeepsLink ==
    ASSUME LinkInv, socket, toTab # <<>>, ~connectionLost', toTab' = Tail(toTab),
           UNCHANGED <<socket, inSession, issuedSid>>,
           \/ toServer' = toServer
           \/ \E msgs \in Seq(ToServer) : TabSends(msgs),
           connectionLost' \in BOOLEAN
    PROVE  LinkInv'
<1>1. toServer' \in Seq(ToServer)
  <2>1. toServer \in Seq(ToServer)
    BY DEF LinkInv, LinkTyped
  <2>2. ASSUME NEW msgs \in Seq(ToServer), TabSends(msgs)
        PROVE  toServer' \in Seq(ToServer)
    BY <2>1, <2>2, Appending DEF TabSends
  <2> QED
    BY <2>1, <2>2
<1>2. toTab' \in Seq(ToTab)
  BY HeadOfTab DEF LinkInv
<1> QED
  BY <1>1, <1>2 DEF LinkInv, LinkTyped, GreetingFirst

(* Anything but the greeting finds the tab connected, so that it does not   *)
(* wait for the socket.                                                     *)
LEMMA HeardWhenConnected ==
    ASSUME RecInv, NEW t, TabTakes(t), t # "authenticated"
    PROVE  ~connectionLost /\ ~waiting
<1>1. ~connectionLost
  BY DEF TabTakes, RecInv, LinkInv, GreetingFirst
<1> QED
  BY <1>1 DEF RecInv, TabInv, TabTyped, NeverStalls

LEMMA AuthenticatedKeeps ==
    ASSUME RecInv, OnAuthenticated
    PROVE  RecInv'
<1>1. /\ UNCHANGED <<sid, deviceId, recovering, attempt>> /\ connectionLost' = FALSE
      /\ socket /\ toTab # <<>> /\ toTab' = Tail(toTab) /\ UNCHANGED <<socket, inSession, issuedSid>>
  BY DEF OnAuthenticated, TabTakes
<1>2. CASE recovering /\ waiting
  <2>1. AsksAgain
    BY <1>2 DEF OnAuthenticated
  <2>2. "response" \notin timers
    BY <1>2 DEF RecInv, TabInv, NeverStalls
  <2>3. TabInv'
    BY <1>1, <1>2, <2>1, <2>2, AskingKeeps DEF RecInv
  <2>4. LinkInv'
    BY <1>1, <2>1, AskingSends, TakingKeepsLink DEF RecInv
  <2> QED
    BY <2>3, <2>4 DEF RecInv
<1>3. CASE ~(recovering /\ waiting)
  <2>1. UNCHANGED <<guard, toServer, timers, waiting>>
    BY <1>3 DEF OnAuthenticated
  <2>2. ~waiting
    BY <1>3 DEF RecInv, TabInv, TabTyped, NeverStalls
  <2>3. TabTyped' /\ GuardKnows'
    BY <1>1, <2>1 DEF RecInv, TabInv, TabTyped, GuardKnows
  <2>4. NeverStalls'
    BY <1>1, <2>1, <2>2 DEF RecInv, TabInv, NeverStalls
  <2>5. LinkInv'
    BY <1>1, <2>1, TakingKeepsLink DEF RecInv
  <2> QED
    BY <2>3, <2>4, <2>5 DEF RecInv, TabInv
<1> QED
  BY <1>2, <1>3

LEMMA JoinedKeeps ==
    ASSUME RecInv, OnJoined
    PROVE  RecInv'
<1> DEFINE m == Head(toTab)
<1>1. /\ socket /\ toTab # <<>> /\ toTab' = Tail(toTab) /\ UNCHANGED <<socket, inSession, issuedSid>>
      /\ m.t = "joined" /\ UNCHANGED connectionLost
  BY DEF OnJoined, TabTakes
<1>2. ~connectionLost /\ ~waiting
  BY HeardWhenConnected DEF OnJoined
<1>3. m.sid \in Nat /\ m.device \in Computer
  BY <1>1, HeadOfTab DEF RecInv, LinkInv
<1>4. \/ toServer' = toServer
      \/ \E msgs \in Seq(ToServer) : TabSends(msgs)
  BY <1>3, TabMessages DEF OnJoined
<1>5. connectionLost' = FALSE /\ LinkInv'
  <2>1. connectionLost' = FALSE
    BY <1>1, <1>2 DEF RecInv, LinkInv, LinkTyped
  <2> QED
    BY <1>1, <1>4, <2>1, TakingKeepsLink DEF RecInv
<1>6. TabInv'
  <2>1. CASE Verdict(m.device) = "unexpected"
    <3>1. guard' = NoRequest /\ UNCHANGED <<sid, deviceId, timers, recovering, attempt, waiting>>
      BY <2>1 DEF OnJoined
    <3>2. /\ timers' \subseteq {"grace", "retry", "response", "connect"}
          /\ "grace" \in timers' => sid # 0
      BY <3>1 DEF RecInv, TabInv, TabTyped, NeverStalls
    <3> QED
      BY <1>1, <3>1, <3>2, OtherTimers DEF RecInv
  <2>2. CASE Verdict(m.device) = "mismatch" /\ recovering
    BY <2>2, TeardownKeeps DEF OnJoined
  <2>3. CASE Verdict(m.device) = "mismatch" /\ ~recovering
    <3>1. /\ guard' = NoRequest /\ timers' = timers \ {"connect"}
          /\ UNCHANGED <<sid, deviceId, recovering, attempt, waiting>>
      BY <2>3 DEF OnJoined
    <3>2. /\ timers' \subseteq {"grace", "retry", "response", "connect"}
          /\ timers' \cap {"retry", "response"} = timers \cap {"retry", "response"}
          /\ "grace" \in timers' => sid # 0
      BY <3>1 DEF RecInv, TabInv, TabTyped, NeverStalls
    <3> QED
      BY <1>1, <3>1, <3>2, OtherTimers DEF RecInv
  <2>4. CASE Verdict(m.device) = "accept"
    <3>1. /\ guard' = NoRequest /\ timers' = {} /\ sid' = m.sid /\ deviceId' = m.device
          /\ recovering' = FALSE /\ attempt' = 0 /\ waiting' = FALSE
      BY <2>4 DEF OnJoined
    <3>2. TabTyped'
      <4>1. 0 \in 0 .. MaxAttempts /\ deviceId' \in Device
        BY <1>3, <3>1 DEF Device
      <4>2. guard' \in [waiting : BOOLEAN, expected : Device]
        BY <3>1, Requests
      <4> QED
        BY <1>3, <3>1, <4>1, <4>2 DEF TabTyped
    <3>3. NeverStalls' /\ GuardKnows'
      BY <3>1, Requests DEF NeverStalls, GuardKnows
    <3> QED
      BY <3>2, <3>3 DEF TabInv
  <2> QED
    BY <2>1, <2>2, <2>3, <2>4 DEF Verdict
<1> QED
  BY <1>5, <1>6 DEF RecInv

LEMMA ByeKeeps ==
    ASSUME RecInv, OnBye
    PROVE  RecInv'
<1> DEFINE m == Head(toTab)
<1>1. /\ socket /\ toTab # <<>> /\ toTab' = Tail(toTab) /\ UNCHANGED <<socket, inSession, issuedSid>>
      /\ m.t = "bye" /\ UNCHANGED connectionLost
  BY DEF OnBye, TabTakes
<1>2. ~connectionLost /\ ~waiting /\ connectionLost' = FALSE
  BY HeardWhenConnected DEF OnBye, RecInv, LinkInv, LinkTyped
<1>3. CASE m.sid # sid
  <2>1. UNCHANGED <<sid, deviceId, guard, timers, recovering, attempt, waiting, toServer>>
    BY <1>3 DEF OnBye
  <2> QED
    BY <1>1, <1>2, <2>1, TabUnchanged, TakingKeepsLink DEF RecInv
<1>4. CASE m.sid = sid /\ ~m.final /\ "grace" \in timers
  <2>1. SessionLost /\ sid # 0 /\ ~recovering
    BY <1>4 DEF OnBye, RecInv, TabInv, NeverStalls
  <2>2. \E msgs \in Seq(ToServer) : TabSends(msgs)
    <3>1. sid \in Nat
      BY DEF RecInv, TabInv, TabTyped
    <3> QED
      BY <2>1, <3>1, TabMessages DEF SessionLost
  <2>3. TabInv'
    BY <2>1, LosingKeepsTab DEF RecInv
  <2> QED
    BY <1>1, <1>2, <2>2, <2>3, TakingKeepsLink DEF RecInv
<1>5. CASE m.sid = sid /\ (m.final \/ "grace" \notin timers)
  <2>1. Teardown /\ UNCHANGED toServer
    BY <1>5 DEF OnBye
  <2> QED
    BY <1>1, <1>2, <2>1, TeardownKeeps, TakingKeepsLink DEF RecInv
<1> QED
  BY <1>3, <1>4, <1>5 DEF OnBye

LEMMA ErrorKeeps ==
    ASSUME RecInv, OnError
    PROVE  RecInv'
<1>1. /\ socket /\ toTab # <<>> /\ toTab' = Tail(toTab) /\ UNCHANGED <<socket, inSession, issuedSid>>
      /\ UNCHANGED <<connectionLost, toServer>>
  BY DEF OnError, TabTakes
<1>2. ~connectionLost /\ ~waiting /\ connectionLost' = FALSE
  BY HeardWhenConnected DEF OnError, RecInv, LinkInv, LinkTyped
<1>3. LinkInv'
  BY <1>1, <1>2, TakingKeepsLink DEF RecInv
<1>4. TabInv'
  <2>1. CASE recovering
    <3>1. ScheduleAttempt(attempt) /\ guard' = NoRequest
      BY <2>1 DEF OnError
    <3>2. deviceId \in Computer /\ attempt \in 0 .. MaxAttempts
      BY <2>1 DEF RecInv, TabInv, TabTyped, NeverStalls
    <3> QED
      BY <1>2, <3>1, <3>2, ScheduleKeeps DEF RecInv
  <2>2. CASE ~recovering /\ sid = 0
    <3>1. /\ \/ guard' = guard \/ guard' = NoRequest
          /\ timers' = timers \/ timers' = timers \ {"connect"}
          /\ UNCHANGED <<sid, deviceId, recovering, attempt, waiting>>
      BY <2>2 DEF OnError
    <3>2. /\ timers' \subseteq {"grace", "retry", "response", "connect"}
          /\ timers' \cap {"retry", "response"} = timers \cap {"retry", "response"}
          /\ "grace" \in timers' => sid # 0
      BY <3>1 DEF RecInv, TabInv, TabTyped, NeverStalls
    <3> QED
      BY <1>1, <3>1, <3>2, OtherTimers DEF RecInv
  <2>3. CASE ~recovering /\ sid # 0
    BY <2>3, TeardownKeeps DEF OnError
  <2> QED
    BY <2>1, <2>2, <2>3
<1> QED
  BY <1>3, <1>4 DEF RecInv
-----------------------------------------------------------------------------
(* The socket and the server                                                *)
LEMMA SocketKeeps ==
    ASSUME RecInv, SocketCloses \/ ReconnectSignaling
    PROVE  RecInv'
<1>1. TabInv'
  BY TabUnchanged DEF SocketCloses, ReconnectSignaling, RecInv, tabVars
<1>2. CASE SocketCloses
  BY <1>1, <1>2, TabMessages DEF SocketCloses, RecInv, LinkInv, LinkTyped, GreetingFirst
<1>3. CASE ReconnectSignaling
  <2>1. /\ socket' = TRUE /\ toServer' = <<[t |-> "client_auth"]>>
        /\ UNCHANGED <<connectionLost, toTab, inSession, issuedSid>> /\ ~socket
    BY <1>3 DEF ReconnectSignaling, tabVars
  <2>2. toTab = <<>> /\ inSession = 0
    BY <2>1 DEF RecInv, LinkInv, GreetingFirst
  <2>3. toServer' \in Seq(ToServer) /\ toServer' # <<>> /\ Head(toServer').t = "client_auth"
    BY <2>1, TabMessages
  <2>4. LinkInv'
    BY <2>1, <2>2, <2>3 DEF RecInv, LinkInv, LinkTyped, GreetingFirst
  <2> QED
    BY <1>1, <2>4 DEF RecInv
<1> QED
  BY <1>1, <1>2, <1>3 DEF RecInv

(* The server takes a message from the front and answers at the back.       *)
LEMMA ServerKeepsLink ==
    ASSUME LinkInv, NEW t, NEW answers \in Seq(ToTab), ServerTakes(t, answers),
           inSession' \in Nat, issuedSid' \in Nat,
           connectionLost /\ t # "client_auth" => toTab # <<>>,
           t = "client_auth" => /\ inSession' = inSession
                                /\ answers = <<[t |-> "authenticated"]>>
    PROVE  LinkInv'
<1>1. /\ toServer # <<>> /\ Head(toServer).t = t /\ toServer' = Tail(toServer)
      /\ toTab' = toTab \o answers
      /\ UNCHANGED <<connectionLost, socket>>
  BY DEF ServerTakes, tabVars
<1>2. toServer' \in Seq(ToServer) /\ toTab' \in Seq(ToTab)
  BY <1>1, Appending DEF LinkInv, LinkTyped
<1>3. toTab # <<>> => toTab' # <<>> /\ Head(toTab') = Head(toTab)
  BY <1>1, Appending DEF LinkInv, LinkTyped
<1>4. toTab = <<>> /\ t = "client_auth" => toTab' # <<>> /\ Head(toTab').t = "authenticated"
  <2> SUFFICES ASSUME toTab = <<>>, t = "client_auth"
               PROVE  toTab' = <<[t |-> "authenticated"]>>
    OBVIOUS
  <2> QED
    BY <1>1
<1>5. GreetingFirst'
  <2> SUFFICES ASSUME connectionLost
               PROVE  GreetingFirst'
    BY <1>1 DEF GreetingFirst
  <2>1. CASE toTab # <<>>
    BY <1>1, <1>3, <2>1 DEF LinkInv, GreetingFirst
  <2>2. CASE toTab = <<>>
    <3>1. t = "client_auth" /\ Head(toServer).t = "client_auth"
      BY <1>1, <2>2
    <3>2. socket
      BY <1>1, <2>2, <3>1 DEF LinkInv, GreetingFirst
    <3> QED
      BY <1>1, <1>4, <2>2, <3>1, <3>2 DEF GreetingFirst
  <2> QED
    BY <2>1, <2>2
<1> QED
  BY <1>1, <1>2, <1>5 DEF LinkInv, LinkTyped

LEMMA Answers ==
    /\ <<[t |-> "authenticated"]>> \in Seq(ToTab)
    /\ \A a \in {"connect", "ice"} : <<[t |-> "error", about |-> a]>> \in Seq(ToTab)
    /\ \A s \in Nat, d \in Computer : <<[t |-> "joined", sid |-> s, device |-> d]>> \in Seq(ToTab)
    /\ \A s \in Nat, f \in BOOLEAN : [t |-> "bye", sid |-> s, final |-> f] \in ToTab
<1>1. [t |-> "authenticated"] \in ToTab
  BY DEF ToTab
<1>2. \A a \in {"connect", "ice"} : [t |-> "error", about |-> a] \in ToTab
  BY DEF ToTab
<1>3. \A s \in Nat, d \in Computer : [t |-> "joined", sid |-> s, device |-> d] \in ToTab
  BY DEF ToTab
<1>4. \A s \in Nat, f \in BOOLEAN : [t |-> "bye", sid |-> s, final |-> f] \in ToTab
  BY DEF ToTab
<1> QED
  BY <1>1, <1>2, <1>3, <1>4

LEMMA ServerKeeps ==
    ASSUME RecInv, ServerActs
    PROVE  RecInv'
<1>1. inSession \in Nat /\ issuedSid \in Nat
  BY DEF RecInv, LinkInv, LinkTyped
<1>2. ASSUME NEW t, NEW answers, ServerTakes(t, answers), t # "client_auth"
      PROVE  connectionLost => toTab # <<>>
  BY <1>2 DEF ServerTakes, RecInv, LinkInv, LinkTyped, GreetingFirst
<1>3. ASSUME NEW t, NEW answers, ServerTakes(t, answers)
      PROVE  TabInv'
  BY <1>3, TabUnchanged DEF ServerTakes, tabVars, RecInv
<1>4. CASE Authenticates
  <2>1. LinkInv'
    BY <1>1, <1>4, Answers, ServerKeepsLink DEF Authenticates, RecInv
  <2> QED
    BY <1>3, <1>4, <2>1 DEF Authenticates, RecInv
<1>5. CASE Refuses
  <2>1. LinkInv'
    BY <1>1, <1>2, <1>5, Answers, ServerKeepsLink DEF Refuses, RecInv
  <2> QED
    BY <1>3, <1>5, <2>1 DEF Refuses, RecInv
<1>6. CASE ServerHearsBye
  <2>1. LinkInv'
    BY <1>1, <1>2, <1>6, TabMessages, ServerKeepsLink DEF ServerHearsBye, RecInv
  <2> QED
    BY <1>3, <1>6, <2>1 DEF ServerHearsBye, RecInv
<1>7. CASE ServerHearsIce
  <2>1. PICK answers \in Seq(ToTab) : ServerTakes("ice", answers)
    BY <1>7, Answers, TabMessages DEF ServerHearsIce
  <2>2. LinkInv'
    BY <1>1, <1>2, <1>7, <2>1, ServerKeepsLink DEF ServerHearsIce, RecInv
  <2> QED
    BY <1>3, <2>1, <2>2 DEF RecInv
<1>8. ASSUME NEW d \in Computer, Connects(d)
      PROVE  RecInv'
  <2>1. issuedSid + 1 \in Nat /\ inSession' \in Nat /\ issuedSid' \in Nat
    BY <1>1, <1>8 DEF Connects
  <2>2. PICK answers \in Seq(ToTab) : ServerTakes("connect", answers)
    BY <1>8, <2>1, Answers DEF Connects
  <2>3. LinkInv'
    BY <1>2, <2>1, <2>2, ServerKeepsLink DEF RecInv
  <2> QED
    BY <1>3, <2>2, <2>3 DEF RecInv
<1> QED
  BY <1>4, <1>5, <1>6, <1>7, <1>8 DEF ServerActs

LEMMA HostKeeps ==
    ASSUME RecInv, HostUnregisters \/ \E final \in BOOLEAN : HostSaysBye(final)
    PROVE  RecInv'
<1>1. TabInv'
  <2>1. UNCHANGED tabVars
    BY DEF HostUnregisters, HostSaysBye
  <2> QED
    BY <2>1, TabUnchanged DEF RecInv, tabVars
<1>2. CASE HostUnregisters
  <2>1. LinkInv'
    BY <1>2 DEF HostUnregisters, tabVars, RecInv, LinkInv, LinkTyped, GreetingFirst
  <2> QED
    BY <1>1, <2>1 DEF RecInv
<1>3. ASSUME NEW final \in BOOLEAN, HostSaysBye(final)
      PROVE  RecInv'
  <2>1. /\ inSession # 0 /\ inSession' = 0 /\ UNCHANGED <<connectionLost, socket, toServer, issuedSid>>
        /\ toTab' = Append(toTab, [t |-> "bye", sid |-> inSession, final |-> final])
    BY <1>3 DEF HostSaysBye, tabVars
  <2>2. [t |-> "bye", sid |-> inSession, final |-> final] \in ToTab
    BY <1>3, Answers DEF RecInv, LinkInv, LinkTyped
  <2>3. /\ toTab' \in Seq(ToTab) /\ toTab' # <<>>
        /\ toTab # <<>> => Head(toTab') = Head(toTab)
    BY <2>1, <2>2 DEF RecInv, LinkInv, LinkTyped
  <2>4. connectionLost => socket /\ toTab # <<>> /\ Head(toTab).t = "authenticated"
    BY <2>1 DEF RecInv, LinkInv, GreetingFirst
  <2>5. LinkInv'
    BY <2>1, <2>3, <2>4 DEF RecInv, LinkInv, LinkTyped, GreetingFirst
  <2> QED
    BY <1>1, <2>5 DEF RecInv
<1> QED
  BY <1>2, <1>3
-----------------------------------------------------------------------------
LEMMA RecStarts ==
    ASSUME RecInit
    PROVE  RecInv
<1>1. TabInv
  <2>1. NoComputer \in Device /\ 0 \in 0 .. MaxAttempts
    BY DEF Device
  <2>2. TabTyped
    BY <2>1, Requests DEF RecInit, TabTyped
  <2> QED
    BY <2>2, Requests DEF RecInit, TabInv, NeverStalls, GuardKnows
<1>2. LinkInv
  BY TabMessages DEF RecInit, LinkInv, LinkTyped, GreetingFirst
<1> QED
  BY <1>1, <1>2 DEF RecInv

LEMMA RecStepKeeps ==
    ASSUME RecInv, [RecNext]_recVars
    PROVE  RecInv'
<1>1. CASE UNCHANGED recVars
  BY <1>1, TabUnchanged, LinkUnchanged DEF recVars, tabVars, RecInv
<1>2. ASSUME NEW d \in Computer \cup {NoComputer}, BeginSession(d)
      PROVE  RecInv'
  BY <1>2, BeginSessionKeeps DEF Device
<1>3. CASE TabHears
  BY <1>3, AuthenticatedKeeps, JoinedKeeps, ByeKeeps, ErrorKeeps DEF TabHears
<1> QED
  BY <1>1, <1>2, <1>3, DisconnectKeeps, PeerKeeps, TimersKeep, SocketKeeps, ServerKeeps, HostKeeps
  DEF RecNext

THEOREM RecInvariant == RecSpec => []RecInv
<1>1. RecInit => RecInv
  BY RecStarts
<1>2. RecInv /\ [RecNext]_recVars => RecInv'
  BY RecStepKeeps
<1> QED
  BY <1>1, <1>2, PTL DEF RecSpec

(* A recovery never comes to a halt without anything that will take it on, *)
(* and leaves nothing behind that could act on another session             *)
(* (sessionRecovery.ts:24).                                                *)
THEOREM RecoveryNeverStalls == RecSpec => []NeverStalls
<1>1. RecInv => NeverStalls
  BY DEF RecInv, TabInv
<1> QED
  BY <1>1, RecInvariant, PTL

(* Whatever is answered late, a recovery only ends in a session with the   *)
(* device that was lost (connectGuard.ts:1).                               *)
THEOREM RecoveryFindsItsDevice == RecSpec => RecoversSameDevice
<1> SUFFICES ASSUME RecInv, [RecNext]_recVars, recovering, sid' # 0
             PROVE  deviceId' = deviceId
  <2>1. RecInv /\ [RecNext]_recVars => [recovering /\ sid' # 0 => deviceId' = deviceId]_recVars
    OBVIOUS
  <2> QED
    BY <2>1, RecInvariant, PTL DEF RecSpec, RecoversSameDevice
<1>1. sid = 0 /\ deviceId \in Computer /\ (guard.waiting => guard.expected = deviceId)
  BY DEF RecInv, TabInv, NeverStalls, GuardKnows
<1>2. sid' # sid
  BY <1>1
<1>3. OnJoined
  <2>1. ~(UNCHANGED recVars) /\ ~(\E d \in Computer \cup {NoComputer} : BeginSession(d))
    BY <1>2 DEF recVars, tabVars, BeginSession
  <2>2. ~DisconnectButton /\ ~PeerReports
    BY <1>1 DEF DisconnectButton, Teardown, PeerReports, Connected, Disconnected, PeerFails,
                SendsIce, NegotiationFails
  <2>3. ~TimerFires
    BY <1>1 DEF TimerFires, GraceEnds, SessionLost, ScheduleAttempt, Teardown, RetryFires,
                ResponseTimesOut, ConnectTimesOut
  <2>4. ~OnAuthenticated /\ ~OnBye /\ ~OnError
    BY <1>1, <1>2 DEF OnAuthenticated, OnBye, OnError, SessionLost, ScheduleAttempt, Teardown
  <2>5. ~SocketCloses /\ ~ReconnectSignaling /\ ~ServerActs /\ ~HostUnregisters
        /\ ~(\E final \in BOOLEAN : HostSaysBye(final))
    BY <1>2 DEF SocketCloses, ReconnectSignaling, ServerActs, Authenticates, Refuses, ServerHearsBye,
                ServerHearsIce, Connects, ServerTakes, HostUnregisters, HostSaysBye, tabVars
  <2> QED
    BY <2>1, <2>2, <2>3, <2>4, <2>5 DEF RecNext, TabHears
<1>4. /\ Verdict(Head(toTab).device) = "accept" /\ deviceId' = Head(toTab).device
  BY <1>1, <1>2, <1>3 DEF OnJoined, Teardown
<1>5. guard.waiting /\ guard.expected \in {NoComputer, Head(toTab).device}
  BY <1>4 DEF Verdict
<1> QED
  BY <1>1, <1>4, <1>5
=============================================================================
