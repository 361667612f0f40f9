------------------------------- MODULE Reviews -------------------------------
(* What the two parties of one completed collaboration say about it: mutual   *)
(* reviews, hidden until both exist or 14 days have passed, and the consent   *)
(* of both to show the work in the Showcase.                                  *)
(*                                                                            *)
(* Every handler decides on a read made before its READ COMMITTED             *)
(* transaction; the transaction checks nothing again, and only the unique     *)
(* keys of Review, ShowcaseConsent and ShowcasePost stand in its way.         *)
EXTENDS FiniteSets

CONSTANTS
  Party,          \* the business and the creator
  ReviewRequest   \* concurrent requests

ASSUME ReviewsAssumption == IsFiniteSet(Party)

VARIABLES
  completed,      \* the collaboration is COMPLETED
  windowPassed,   \* its completedAt is 14 days ago
  reviews,        \* [Party -> ReviewState]: by reviewer
  consent,        \* [Party -> Decision]
  showcased,      \* the ShowcasePost exists
  reviewCall,     \* [ReviewRequest -> ReviewCall]
  sweep,          \* SUBSET Party: reviews a running sweep will reveal
  everPassed,     \* history: the window has passed once
  everApproved    \* history: parties that have approved the Showcase

reviewVars == <<completed, windowPassed, reviews, consent, showcased, reviewCall,
                sweep, everPassed, everApproved>>

ReviewState == {"NONE", "HIDDEN", "PUBLISHED"}
Decision    == {"NONE", "APPROVED", "DECLINED"}
ReviewStep  == {"submit", "submitMutual", "approve", "publish", "decline"}
ReviewCall  == {{}} \cup {{[party |-> p, step |-> s]} : p \in Party, s \in ReviewStep}

ReviewsTypeOK ==
  /\ completed \in BOOLEAN /\ windowPassed \in BOOLEAN /\ showcased \in BOOLEAN
  /\ reviews \in [Party -> ReviewState]
  /\ consent \in [Party -> Decision]
  /\ reviewCall \in [ReviewRequest -> ReviewCall]
  /\ sweep \subseteq Party /\ everPassed \in BOOLEAN
  /\ everApproved \subseteq Party

ReviewsInit ==
  /\ completed = FALSE /\ windowPassed = FALSE /\ showcased = FALSE
  /\ reviews = [p \in Party |-> "NONE"]
  /\ consent = [p \in Party |-> "NONE"]
  /\ reviewCall = [r \in ReviewRequest |-> {}]
  /\ sweep = {} /\ everPassed = FALSE
  /\ everApproved = {}

-----------------------------------------------------------------------------
(* The payment is released, for the first time or again: completedAt is now. *)
CollaborationCompletes ==
  /\ ~completed
  /\ completed' = TRUE
  /\ windowPassed' = FALSE
  /\ UNCHANGED <<reviews, consent, showcased, reviewCall, sweep, everPassed,
                 everApproved>>

(* The publication was removed within its retention period, or a submission   *)
(* decided before the release is written after it (Delivery): the status is   *)
(* DISPUTED, or IN_REVIEW.                                                    *)
CompletionUndone ==
  /\ completed
  /\ completed' = FALSE
  /\ UNCHANGED <<windowPassed, reviews, consent, showcased, reviewCall, sweep,
                 everPassed,
                 everApproved>>

(* REVIEW_REVEAL_WINDOW_DAYS after completedAt, whenever the reviews came; it *)
(* is looked at only while the collaboration is COMPLETED.                    *)
WindowPasses ==
  /\ completed /\ ~windowPassed
  /\ windowPassed' = TRUE
  /\ everPassed' = TRUE
  /\ UNCHANGED <<completed, reviews, consent, showcased, reviewCall, sweep,
                 everApproved>>

Counterparts(p) == Party \ {p}
Reviewed == {p \in Party : reviews[p] # "NONE"}

Calls(r, p, step) ==
  /\ reviewCall[r] = {}
  /\ completed
  /\ reviewCall' = [reviewCall EXCEPT ![r] = {[party |-> p, step |-> step]}]
  /\ UNCHANGED <<completed, windowPassed, reviews, consent, showcased, sweep,
                 everPassed, everApproved>>

(* submit reads the reviews: with one of the counterpart both are revealed. *)
SubmitRead(r, p) ==
  /\ p \notin Reviewed
  /\ \/ Counterparts(p) \subseteq Reviewed /\ Calls(r, p, "submitMutual")
     \/ ~(Counterparts(p) \subseteq Reviewed) /\ Calls(r, p, "submit")

CounterpartApproved(p) == \A q \in Counterparts(p) : consent[q] = "APPROVED"

(* giveShowcaseConsent: both reviews exist, no post, no refusal was read. *)
ConsentRead(r, p) ==
  /\ Reviewed = Party /\ ~showcased
  /\ \A q \in Counterparts(p) : consent[q] # "DECLINED"
  /\ \/ CounterpartApproved(p) /\ Calls(r, p, "publish")
     \/ ~CounterpartApproved(p) /\ Calls(r, p, "approve")

DeclineRead(r, p) == ~showcased /\ Calls(r, p, "decline")

(* Mutant: a review is published as soon as it is written. *)
RevealedAtOnce(p, mutual) == [reviews EXCEPT ![p] = "PUBLISHED"]

(* publishedAt of the new review, and of the one that was waiting for it. *)
Revealed(p, mutual) ==
  IF mutual THEN [q \in Party |-> "PUBLISHED"] ELSE [reviews EXCEPT ![p] = "HIDDEN"]

(* One review per party and collaboration; a second copy is refused. *)
SubmitWrite(r) ==
  /\ \E c \in reviewCall[r] :
       /\ c.step \in {"submit", "submitMutual"}
       /\ IF reviews[c.party] = "NONE"
            THEN reviews' = Revealed(c.party, c.step = "submitMutual")
            ELSE UNCHANGED reviews
  /\ reviewCall' = [reviewCall EXCEPT ![r] = {}]
  /\ UNCHANGED <<completed, windowPassed, consent, showcased, sweep, everPassed,
                 everApproved>>

(* The consent is written; with the counterpart's the post is created too, or *)
(* everything is rolled back where one exists.                                *)
ConsentWrite(r) ==
  /\ \E c \in reviewCall[r] :
       \/ /\ c.step \in {"approve", "publish"}
          /\ c.step = "publish" => ~showcased
          /\ consent' = [consent EXCEPT ![c.party] = "APPROVED"]
          /\ showcased' = (showcased \/ c.step = "publish")
          /\ everApproved' = everApproved \cup {c.party}
       \/ /\ c.step = "publish" /\ showcased
          /\ UNCHANGED <<consent, showcased, everApproved>>
       \/ /\ c.step = "decline"
          /\ consent' = [consent EXCEPT ![c.party] = "DECLINED"]
          /\ UNCHANGED <<showcased, everApproved>>
  /\ reviewCall' = [reviewCall EXCEPT ![r] = {}]
  /\ UNCHANGED <<completed, windowPassed, reviews, sweep, everPassed>>

AbandonReviewCall(r) ==
  /\ reviewCall[r] # {}
  /\ reviewCall' = [reviewCall EXCEPT ![r] = {}]
  /\ UNCHANGED <<completed, windowPassed, reviews, consent, showcased, sweep,
                 everPassed, everApproved>>

(* Mutant: the sweep leaves a collaboration with both reviews alone. *)
StaleOfOne ==
  {p \in Party : completed /\ windowPassed /\ Reviewed # Party /\ reviews[p] = "HIDDEN"}

(* staleUnrevealed: every hidden review, if the collaboration is COMPLETED    *)
(* and past its window.                                                       *)
Stale == {p \in Party : completed /\ windowPassed /\ reviews[p] = "HIDDEN"}

SweepRead ==
  /\ sweep = {} /\ Stale # {}
  /\ sweep' = Stale
  /\ UNCHANGED <<completed, windowPassed, reviews, consent, showcased,
                 reviewCall, everPassed,
                 everApproved>>

(* revealStale publishes what it has read, by id. *)
SweepWrite ==
  /\ sweep # {}
  /\ reviews' = [p \in Party |-> IF p \in sweep THEN "PUBLISHED" ELSE reviews[p]]
  /\ sweep' = {}
  /\ UNCHANGED <<completed, windowPassed, consent, showcased, reviewCall,
                 everPassed, everApproved>>

(* The job stops, or a collaboration before this one threw. *)
SweepStops ==
  /\ sweep # {}
  /\ sweep' = {}
  /\ UNCHANGED <<completed, windowPassed, reviews, consent, showcased,
                 reviewCall, everPassed, everApproved>>

ReviewsNext ==
  \/ CollaborationCompletes \/ CompletionUndone \/ WindowPasses
  \/ \E r \in ReviewRequest :
       \/ \E p \in Party : SubmitRead(r, p) \/ ConsentRead(r, p) \/ DeclineRead(r, p)
       \/ SubmitWrite(r) \/ ConsentWrite(r) \/ AbandonReviewCall(r)
  \/ SweepRead \/ SweepWrite \/ SweepStops

(* Time passes, the lifecycle job runs for ever, and not every run stops. *)
ReviewsFairness ==
  /\ WF_reviewVars(WindowPasses)
  /\ WF_reviewVars(SweepRead)
  /\ SF_reviewVars(SweepWrite)

ReviewsSpec == ReviewsInit /\ [][ReviewsNext]_reviewVars /\ ReviewsFairness

-----------------------------------------------------------------------------
(* Nothing is shown on the word of one party, however requests cross: a       *)
(* review is published only with the counterpart's, so that nobody reads the  *)
(* other's rating before writing their own, or after the window (the          *)
(* "simultaneous reveal" of review.service.js:14); the work is shown in the   *)
(* Showcase only if each party has approved it (giveShowcaseConsent).         *)
ShownByBoth ==
  /\ (\E p \in Party : reviews[p] = "PUBLISHED") => everPassed \/ Reviewed = Party
  /\ showcased => everApproved = Party

(* While the collaboration stays COMPLETED, every review is published in the  *)
(* end: two reviews written at once, neither of which saw the other, wait for *)
(* the sweep (revealStale).  Whenever it is COMPLETED again, this starts anew.*)
(* A review still hidden when a collaboration leaves COMPLETED for good is    *)
(* never published: staleUnrevealed passes over it.                           *)
EveryReviewRevealed ==
  \A p \in Party : reviews[p] # "NONE" ~> reviews[p] = "PUBLISHED" \/ ~completed
==============================================================================
