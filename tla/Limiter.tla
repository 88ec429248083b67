------------------------------ MODULE Limiter ------------------------------
(***************************************************************************)
(* The token buckets of ip_limit.rs and the handlers of ws.rs that use     *)
(* them.  A bucket belongs to an address or, GlobalLimiter, to Everyone.   *)
(* Each method holds the mutex once, and a handler calls them one at a     *)
(* time: a limiter is checked, the attempt is made, and only then is a     *)
(* token spent (PIN), or it is spent before the attempt and given back if  *)
(* the attempt was right (password).  pin_limiter and login_limiter share  *)
(* nothing, so what happens is looked at for one of them.                  *)
(*                                                                         *)
(* Tokens are fractions: one token is Refill parts, and one part comes     *)
(* back with every step of the clock.                                      *)
(***************************************************************************)
EXTENDS Naturals, FiniteSets, FiniteSetsExt

CONSTANTS Ip, Everyone, Guesser,
          IpOf,                   \* [Guesser -> Ip], bucket_key of the address
          Burst, Refill,          \* [Ip \cup {Everyone} -> Nat]
          GcThreshold,            \* GC_THRESHOLD
          LimiterSpan             \* bound: the last instant

ASSUME LimiterAssumption ==
    /\ IpOf \in [Guesser -> Ip] /\ IsFiniteSet(Guesser) /\ Everyone \notin Ip
    /\ Burst \in [Ip \cup {Everyone} -> Nat \ {0}]
    /\ Refill \in [Ip \cup {Everyone} -> Nat \ {0}]
    /\ GcThreshold \in Nat /\ LimiterSpan \in Nat

VARIABLES
    limited,    \* "pin": pin_limiter and pin_global_limiter, "login": login_limiter
    instant,
    bucket,     \* [parts, updated] of an address, or NoBucket
    trying,     \* where the attempt of a guesser is
    \* what the properties remember:
    since,      \* the first instant of the window that is looked at, any
    wrong,      \* wrong[b]: wrong guesses that b limits, from then on
    givenBack   \* the addresses that were ever given a token back

guessVars == <<since, limited>>
limVars == <<instant, bucket, trying, wrong, givenBack, guessVars>>

Buckets == Ip \cup {Everyone}
NoBucket == [parts |-> 0, updated |-> 0, tracked |-> FALSE]
Full(b) == Burst[b] * Refill[b]

LimInit ==
    /\ limited \in {"pin", "login"}
    /\ instant = 0
    /\ bucket = [b \in Buckets |->
                   IF b = Everyone THEN [parts |-> Full(b), updated |-> 0, tracked |-> TRUE]
                   ELSE NoBucket]
    /\ trying = [g \in Guesser |-> "idle"]
    /\ since \in 0..LimiterSpan
    /\ wrong = [b \in Buckets |-> 0]
    /\ givenBack = {}
-----------------------------------------------------------------------------
(* Bucket::tokens_at                                                       *)
TokensAt(b) ==
    IF bucket[b].tracked
    THEN Min({bucket[b].parts + (instant - bucket[b].updated), Full(b)})
    ELSE Full(b)

(* check_at: an address without a bucket has tokens.                       *)
Check(b) == TokensAt(b) >= Refill[b]

(* spend_at: full buckets are dropped first when there are too many; the   *)
(* tokens never fall below none.                                           *)
Recovered == {b \in Ip : bucket[b].tracked /\ TokensAt(b) = Full(b)}
Crowded == Cardinality({b \in Ip : bucket[b].tracked}) > GcThreshold

Spend_Free(b) == bucket' = [bucket EXCEPT ![b].tracked = TRUE]

Spend(b) ==
    LET left == IF TokensAt(b) >= Refill[b] THEN TokensAt(b) - Refill[b] ELSE 0
    IN bucket' = [a \in Buckets |->
                    IF a = b THEN [parts |-> left, updated |-> instant, tracked |-> TRUE]
                    ELSE IF b # Everyone /\ Crowded /\ a \in Recovered THEN NoBucket
                    ELSE bucket[a]]

(* refund_at: never above the burst, and nothing for an unknown address.   *)
Refund(b) ==
    bucket' = IF bucket[b].tracked
              THEN [bucket EXCEPT ![b].parts = Min({TokensAt(b) + Refill[b], Full(b)}),
                                  ![b].updated = instant]
              ELSE bucket
-----------------------------------------------------------------------------
(* The handlers *)

Goes(g, from, to) == trying[g] = from /\ trying' = [trying EXCEPT ![g] = to]

Guessed(bs) ==
    wrong' = [b \in Buckets |-> IF b \in bs \ givenBack /\ since <= instant
                                THEN wrong[b] + 1 ELSE wrong[b]]

(* Join checks the address, then the whole server, and tries the PIN; only *)
(* a wrong one spends, in both buckets, one after the other.               *)
JoinChecksIp(g) ==
    /\ limited = "pin" /\ Goes(g, "idle", "join") /\ Check(IpOf[g])
    /\ UNCHANGED <<guessVars, instant, bucket, wrong, givenBack>>

JoinChecksAll(g) ==
    /\ Goes(g, "join", IF Check(Everyone) THEN "pin" ELSE "idle")
    /\ UNCHANGED <<guessVars, instant, bucket, wrong, givenBack>>

JoinFails(g) ==
    /\ Goes(g, "pin", "failed") /\ Guessed({IpOf[g], Everyone})
    /\ UNCHANGED <<guessVars, instant, bucket, givenBack>>

JoinSucceeds(g) ==
    /\ Goes(g, "pin", "idle")
    /\ UNCHANGED <<guessVars, instant, bucket, wrong, givenBack>>

JoinSpendsIp(g) ==
    /\ Goes(g, "failed", "spent") /\ Spend(IpOf[g])
    /\ UNCHANGED <<guessVars, instant, wrong, givenBack>>

JoinSpendsAll(g) ==
    /\ Goes(g, "spent", "idle") /\ Spend(Everyone)
    /\ UNCHANGED <<guessVars, instant, wrong, givenBack>>

(* EmailCodeConfirm: one bucket, spent by a wrong code.                    *)
CodeChecks(g) ==
    /\ limited = "login" /\ Goes(g, "idle", "code") /\ Check(IpOf[g])
    /\ UNCHANGED <<guessVars, instant, bucket, wrong, givenBack>>

CodeRight(g) ==
    /\ Goes(g, "code", "idle")
    /\ UNCHANGED <<guessVars, instant, bucket, wrong, givenBack>>

CodeWrong(g) ==
    /\ Goes(g, "code", "wrongCode") /\ Guessed({IpOf[g]})
    /\ UNCHANGED <<guessVars, instant, bucket, givenBack>>

CodeSpends(g) ==
    /\ Goes(g, "wrongCode", "idle") /\ Spend(IpOf[g])
    /\ UNCHANGED <<guessVars, instant, wrong, givenBack>>

(* PasswordLogin, EmailChange: spent before argon2, given back after it.   *)
LoginChecks(g) ==
    /\ limited = "login" /\ Goes(g, "idle", "login") /\ Check(IpOf[g])
    /\ UNCHANGED <<guessVars, instant, bucket, wrong, givenBack>>

LoginSpends(g) ==
    /\ Goes(g, "login", "argon2") /\ Spend(IpOf[g])
    /\ UNCHANGED <<guessVars, instant, wrong, givenBack>>

LoginWrong(g) ==
    /\ Goes(g, "argon2", "idle") /\ Guessed({IpOf[g]})
    /\ UNCHANGED <<guessVars, instant, bucket, givenBack>>

LoginRight(g) ==
    /\ Goes(g, "argon2", "idle") /\ Refund(IpOf[g])
    /\ givenBack' = givenBack \cup {IpOf[g]}
    /\ UNCHANGED <<guessVars, instant, wrong>>

LimTick ==
    /\ instant < LimiterSpan
    /\ instant' = instant + 1
    /\ UNCHANGED <<guessVars, bucket, trying, wrong, givenBack>>

LimNext ==
    \/ LimTick
    \/ \E g \in Guesser :
         \/ JoinChecksIp(g) \/ JoinChecksAll(g) \/ JoinFails(g) \/ JoinSucceeds(g)
         \/ JoinSpendsIp(g) \/ JoinSpendsAll(g)
         \/ CodeChecks(g) \/ CodeRight(g) \/ CodeWrong(g) \/ CodeSpends(g)
         \/ LoginChecks(g) \/ LoginSpends(g) \/ LoginWrong(g) \/ LoginRight(g)

LimSpec == LimInit /\ [][LimNext]_limVars
-----------------------------------------------------------------------------
Limits(b) == {g \in Guesser : b = Everyone \/ IpOf[g] = b}

(* A check and its spend are apart and spending stops at nothing: the      *)
(* connections of an address that check together get as many guesses out   *)
(* of its last token as there are of them, and again whenever a token has  *)
(* come back.  They never get more, unless a right password gave tokens    *)
(* back meanwhile (ws.rs:2540, ip_limit.rs:98).                            *)
GuessRateBounded ==
    \A b \in Buckets \ givenBack :
      since <= instant =>
        wrong[b] <= Burst[b] - 1
                    + Cardinality(Limits(b)) * (2 + (instant - since) \div Refill[b])
=============================================================================
