---------------------------- MODULE FinanceRules ----------------------------
(***************************************************************************)
(* The money arithmetic of backend/src/modules/payments/finance.rules.js   *)
(* and of calculateDisputeAward in disputes/dispute.service.js.            *)
(* Every amount is a whole number of hundredths of the currency, the unit  *)
(* to which roundMoney and the Decimal(18, 2) columns round.               *)
(***************************************************************************)
EXTENDS Integers

(* Math.round(n / d): the nearest integer, a half going up. *)
RoundHalfUp(n, d) == (2 * n + d) \div (2 * d)

(* What funding a collaboration costs the business (payable), and how it   *)
(* is divided between the creator and the platform.                        *)
CollaborationFinance(terms, rate, barterFee) ==
  IF terms.kind = "BARTER"
    THEN [payable |-> barterFee, creator |-> 0, fee |-> barterFee]
    ELSE LET commission == RoundHalfUp(terms.cash * rate, 100)
         IN  [payable |-> terms.cash,
              creator |-> terms.cash - commission,
              fee     |-> commission]

(* The terms calculateCollaborationFinance accepts. *)
AcceptedTerms(terms) ==
  IF terms.kind = "BARTER" THEN terms.cash = 0 ELSE terms.cash > 0

(* Mutant: a refund is taken from the creator's part first. *)
CreatorPaysRefund(creator, amount, remaining) == amount

(* The creator's part of a refund of amount out of remaining; the rest of  *)
(* the refund is taken from the platform's pending revenue.                *)
RefundCreatorShare(creator, amount, remaining) ==
  IF amount = remaining THEN creator
                        ELSE RoundHalfUp(creator * amount, remaining)

(* The division of total, of which fee was the platform's, when an award   *)
(* gives percent of it to the creator's side.                              *)
DisputeAward(total, fee, percent) ==
  LET gross       == RoundHalfUp(total * percent, 100)
      platformFee == RoundHalfUp(gross * fee, total)
  IN  [creator  |-> gross - platformFee,
       fee      |-> platformFee,
       business |-> total - gross]
=============================================================================
