----------------------------- MODULE MCAccounts -----------------------------
(* Accounts with a few people, organisations and requests.                 *)
EXTENDS Accounts, TLC

(* People sign up with any username that is free: their own email, a        *)
(* nickname or the email of somebody else.                                 *)
AllNames == Emails \X Usernames

(* ...and with their own email or a nickname only.                         *)
OwnNames == {c \in AllNames : c[2] \in Nicknames \cup {c[1]}}

Symmetry == Permutations(Emails) \cup Permutations(Slugs)
                \cup Permutations(Passwords) \cup Permutations(Requests)
=============================================================================
