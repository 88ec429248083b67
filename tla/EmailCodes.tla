----------------------------- MODULE EmailCodes -----------------------------
(***************************************************************************)
(* The confirmation codes of accounts.rs, for one address: addresses share *)
(* nothing but the map.  Time is a clock of whole steps; a code of ten     *)
(* minutes and a window of an hour are a few steps.  A typed code is the   *)
(* one in force or it is not, a replaced code is not.  No two codes are    *)
(* issued at one instant, so the queue of issues is a set of instants.     *)
(***************************************************************************)
EXTENDS Naturals, Sequences, FiniteSets

CONSTANTS CodeTTL, CodeMinInterval, CodeWindow,   \* in steps of the clock
          CodeMaxPerWindow, CodeMaxAttempts,
          MaxClock                                \* bound: the last instant

ASSUME EmailCodesAssumption ==
    /\ CodeTTL \in Nat \ {0} /\ CodeMinInterval \in Nat \ {0} /\ CodeWindow \in Nat
    /\ CodeMaxPerWindow \in Nat \ {0} /\ CodeMaxAttempts \in Nat \ {0}
    /\ MaxClock \in Nat

VARIABLES
    clock,
    code,       \* CodeEntry.active: [expires, left] of the code in force, or NoCode
    issuedAt,   \* CodeEntry.issued: when codes were issued
    \* what the properties remember:
    wrongAt     \* when wrong codes were compared with one in force

codeVars == <<clock, code, issuedAt, wrongAt>>

NoCode == [expires |-> 0, left |-> 0]

CodesInit ==
    /\ clock = 0 /\ code = NoCode /\ issuedAt = {}
    /\ wrongAt = <<>>

(* issue_at first lets go of what is over.                                 *)
Kept == {t \in issuedAt : clock - t < CodeWindow}
InForce == code # NoCode /\ clock < code.expires

TooSoon == \E t \in Kept : clock - t < CodeMinInterval

TooFrequent_NoWindow == TooSoon

TooFrequent == TooSoon \/ Cardinality(Kept) >= CodeMaxPerWindow

Issue ==
    /\ ~TooFrequent
    /\ issuedAt' = Kept \cup {clock}
    /\ code' = [expires |-> clock + CodeTTL, left |-> CodeMaxAttempts]
    /\ UNCHANGED <<clock, wrongAt>>

IssueRefused ==
    /\ TooFrequent
    /\ issuedAt' = Kept
    /\ code' = IF InForce THEN code ELSE NoCode
    /\ UNCHANGED <<clock, wrongAt>>

VerifyRight ==
    /\ InForce /\ code.left > 0
    /\ code' = NoCode
    /\ UNCHANGED <<clock, issuedAt, wrongAt>>

VerifyWrong ==
    /\ InForce /\ code.left > 0
    /\ code' = IF code.left = 1 THEN NoCode ELSE [code EXCEPT !.left = @ - 1]
    /\ wrongAt' = Append(wrongAt, clock)
    /\ UNCHANGED <<clock, issuedAt>>

VerifyLate ==
    /\ code # NoCode /\ ~InForce
    /\ code' = NoCode
    /\ UNCHANGED <<clock, issuedAt, wrongAt>>

Tick ==
    /\ clock < MaxClock
    /\ clock' = clock + 1
    /\ UNCHANGED <<code, issuedAt, wrongAt>>

CodesNext == Issue \/ IssueRefused \/ VerifyRight \/ VerifyWrong \/ VerifyLate \/ Tick

CodesSpec == CodesInit /\ [][CodesNext]_codeVars
-----------------------------------------------------------------------------
(* However issues, guesses, expiry and the window interleave, an address   *)
(* sees no more wrong guesses in any window than the codes of the window   *)
(* allow, and those of one code that was in force when it began            *)
(* (accounts.rs:24).                                                       *)
GuessesBounded ==
    \A t \in 0..clock :
      Cardinality({i \in DOMAIN wrongAt : t <= wrongAt[i] /\ wrongAt[i] < t + CodeWindow})
      <= (CodeMaxPerWindow + 1) * CodeMaxAttempts
=============================================================================
