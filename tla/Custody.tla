------------------------------ MODULE Custody ------------------------------
(***************************************************************************)
(* What the wallet and escrow code promises about money, without payments, *)
(* ledger accounts, disputes or races.  A business deposits money into its *)
(* wallet; funding a collaboration moves part of the wallet into custody;  *)
(* money in custody is returned to the wallet it came from or, in one      *)
(* settlement that empties custody, paid out.  Escrow implements this.     *)
(***************************************************************************)
EXTENDS Integers

CONSTANTS
  User,     \* the businesses that own a wallet
  Collab,   \* collaborations
  Owner     \* the business of each collaboration

VARIABLES
  wallet,   \* spendable balance of each business
  held,     \* money of each collaboration in custody
  paid,     \* money paid out to the creator and to the platform
  returned  \* money given back to the business

vars == <<wallet, held, paid, returned>>

TypeOK ==
  /\ wallet   \in [User -> Nat]
  /\ held     \in [Collab -> Nat]
  /\ paid     \in [Collab -> Nat]
  /\ returned \in [Collab -> Nat]

Init ==
  /\ wallet   = [u \in User |-> 0]
  /\ held     = [c \in Collab |-> 0]
  /\ paid     = [c \in Collab |-> 0]
  /\ returned = [c \in Collab |-> 0]

(* Each step is a relation between a state and its successor: the amount   *)
(* is whatever the successor holds, any natural number the step allows.    *)
Deposit(u) ==
  /\ wallet' = [wallet EXCEPT ![u] = wallet'[u]]
  /\ wallet'[u] > wallet[u]
  /\ UNCHANGED <<held, paid, returned>>

(* A collaboration is funded once, out of its own business's wallet. *)
Fund(c) ==
  LET x == held'[c] IN
  /\ held[c] = 0 /\ paid[c] = 0 /\ returned[c] = 0
  /\ x \in 1 .. wallet[Owner[c]]
  /\ wallet' = [wallet EXCEPT ![Owner[c]] = @ - x]
  /\ held' = [held EXCEPT ![c] = x]
  /\ UNCHANGED <<paid, returned>>

(* Part or all of what is in custody goes back to the wallet. *)
Return(c) ==
  LET x == held[c] - held'[c] IN
  /\ x \in 1 .. held[c]
  /\ wallet' = [wallet EXCEPT ![Owner[c]] = @ + x]
  /\ held' = [held EXCEPT ![c] = @ - x]
  /\ returned' = [returned EXCEPT ![c] = @ + x]
  /\ UNCHANGED paid

(* Custody is emptied: some of it goes back to the business, the rest is   *)
(* paid out.  Nothing is ever paid twice, because nothing is left.         *)
Settle(c) ==
  LET back == held[c] - paid'[c] IN
  /\ held[c] > 0 /\ paid[c] = 0
  /\ back \in 0 .. held[c]
  /\ wallet' = [wallet EXCEPT ![Owner[c]] = @ + back]
  /\ held' = [held EXCEPT ![c] = 0]
  /\ paid' = [paid EXCEPT ![c] = held[c] - back]
  /\ returned' = [returned EXCEPT ![c] = @ + back]

Next ==
  \/ \E u \in User : Deposit(u)
  \/ \E c \in Collab : Fund(c) \/ Return(c) \/ Settle(c)

Spec == Init /\ [][Next]_vars
=============================================================================
