----------------------------- MODULE TaskState ------------------------------
(***************************************************************************)
(* workflow/state.rs: one task, its evidence and its acceptance, as pure   *)
(* operators on a task value.  A check or a review is abstracted to the    *)
(* digest of the files it is about and to its verdict; a history to its    *)
(* length.                                                                 *)
(***************************************************************************)
EXTENDS Naturals, Sequences

CONSTANTS
    Digests,          \* contents the workspace may have
    NoDigest,         \* Option::None for a digest
    NoReview,         \* Option::None for a review
    NoTask,           \* Option::None for a task
    Checks,           \* number of check commands selected for a task
    CorrectionLimit,  \* Settings::correction_limit
    HistoryLimit      \* evidence retention (128 in the code)

CheckReceipt  == [snapshot : Digests, success : BOOLEAN]
ReviewReceipt == [snapshot : Digests, generation : Nat, clear : BOOLEAN]

\* "clear" stands for the verdict Clear with no findings.
Task ==
    [checks        : Seq(CheckReceipt),
     review        : ReviewReceipt \union {NoReview},
     checkHistory  : Nat,
     reviewHistory : Nat,
     generation    : Nat,
     corrections   : Nat,
     stopped       : BOOLEAN,
     accepted      : Digests \union {NoDigest}]

ASSUME TaskAssumption ==
    /\ NoDigest \notin Digests
    /\ NoReview \notin ReviewReceipt
    /\ NoTask \notin Task
    /\ Checks \in Nat
    /\ CorrectionLimit \in Nat
    /\ HistoryLimit \in Nat

NewTask ==
    [checks        |-> <<>>,
     review        |-> NoReview,
     checkHistory  |-> 0,
     reviewHistory |-> 0,
     generation    |-> 0,
     corrections   |-> 0,
     stopped       |-> FALSE,
     accepted      |-> NoDigest]

\* Task::verified: every selected check passed on exactly these files.
Verified(t, d) ==
    /\ Checks > 0
    /\ Len(t.checks) = Checks
    /\ \A i \in 1..Len(t.checks) :
         t.checks[i].success /\ t.checks[i].snapshot = d

\* Task::reviewed: and a clear review of these files and of that verification.
Reviewed(t, d) ==
    /\ Verified(t, d)
    /\ t.review # NoReview
    /\ t.review.clear
    /\ t.review.snapshot = d
    /\ t.review.generation = t.generation

MutantMayAccept(t, d) ==
    t.stopped /\ t.review # NoReview /\ t.review.clear /\ t.review.snapshot = d

\* Task::accept.
MayAccept(t, d) == t.stopped /\ Verified(t, d) /\ Reviewed(t, d)
Accept(t, d) == [t EXCEPT !.accepted = d]

\* Task::invalidate: evidence moves to the histories, unless one is full.
MayInvalidate(t) == t.checkHistory < HistoryLimit /\ t.reviewHistory < HistoryLimit

MutantInvalidate(t) ==
    [t EXCEPT !.checks = <<>>,
              !.checkHistory = IF t.checks = <<>> THEN @ ELSE @ + 1]

Invalidate(t) ==
    [t EXCEPT !.checks = <<>>,
              !.checkHistory = IF t.checks = <<>> THEN @ ELSE @ + 1,
              !.review = NoReview,
              !.reviewHistory = IF t.review = NoReview THEN @ ELSE @ + 1]

\* Task::start_verification.
MayVerify(t) == t.accepted = NoDigest /\ Checks > 0 /\ MayInvalidate(t)
StartVerification(t) == [Invalidate(t) EXCEPT !.generation = @ + 1]

\* Task::start_work, of the first work and of a correction round.
MayWork(t) ==
    /\ t.accepted = NoDigest
    /\ t.generation = 0
    /\ t.review = NoReview /\ t.checks = <<>>
    /\ t.checkHistory = 0 /\ t.reviewHistory = 0
    /\ MayInvalidate(t)

MayCorrect(t) ==
    /\ t.accepted = NoDigest
    /\ t.corrections < CorrectionLimit
    /\ MayInvalidate(t)
StartWork(t) == [Invalidate(t) EXCEPT !.stopped = FALSE]
StartCorrection(t) == [StartWork(t) EXCEPT !.corrections = @ + 1]

\* Task::start_review: the current review becomes history.
MayReview(t) == t.accepted = NoDigest /\ t.reviewHistory < HistoryLimit
StartReview(t) ==
    [t EXCEPT !.review = NoReview,
              !.reviewHistory = IF t.review = NoReview THEN @ ELSE @ + 1]

\* Task::invalidate_for_integration.
InvalidateForIntegration(t) == [Invalidate(t) EXCEPT !.accepted = NoDigest]

Stop(t) == IF t = NoTask THEN NoTask ELSE [t EXCEPT !.stopped = TRUE]
=============================================================================
