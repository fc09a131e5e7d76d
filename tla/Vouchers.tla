------------------------------- MODULE Vouchers -------------------------------
(***************************************************************************)
(* Single use: a code is offered once, spent at most once, and buys at most *)
(* one token, after it is spent.  Sessions implements this for paste codes  *)
(* and anonymous challenges (ImplementsVouchers there).                     *)
(***************************************************************************)
CONSTANTS Codes, Tokens

VARIABLES
  offered,  \* codes handed out
  spent,    \* codes exchanged
  bought    \* the tokens each code has bought

vars == <<offered, spent, bought>>

Init == offered = {} /\ spent = {} /\ bought = [c \in Codes |-> {}]

Offer(c) == c \notin offered /\ offered' = offered \cup {c} /\ UNCHANGED <<spent, bought>>

Spend(c) == c \in offered \ spent /\ spent' = spent \cup {c} /\ UNCHANGED <<offered, bought>>

Buy(c, token) ==
  /\ c \in spent /\ bought[c] = {}
  /\ bought' = [bought EXCEPT ![c] = {token}]
  /\ UNCHANGED <<offered, spent>>

Next == \E c \in Codes : Offer(c) \/ Spend(c) \/ \E token \in Tokens : Buy(c, token)

Spec == Init /\ [][Next]_vars
=============================================================================
