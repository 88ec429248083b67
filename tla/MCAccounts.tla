---------------------------- MODULE MCAccounts ----------------------------
(* Accounts for TLC: owners, tokens, mailboxes, passwords, passkeys and     *)
(* connections are interchangeable.                                         *)
EXTENDS Accounts, TLC

AccSymmetry ==
    Permutations(Owner) \cup Permutations(Token) \cup Permutations(Email)
        \cup Permutations(Password) \cup Permutations(Key) \cup Permutations(Conn)
=============================================================================
