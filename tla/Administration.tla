--------------------------- MODULE Administration ---------------------------
(* What an operator does to a running daemon, is shown by it and declares to it:     *)
(* revoking, editing the certificate list, authenticating, restoring, the page of    *)
(* the endpoints, onboarding. The six share no state, so a behaviour of all is an    *)
(* interleaving of one behaviour of each, and each part is explored on its own: part *)
(* says which one moves.                                                             *)
EXTENDS Revocation, Console, Lockout, Confirmation, Evidence, Onboarding

CONSTANT Parts
VARIABLE part
administration ==
    <<part, revocation, console, lockout, confirmation, evidence, onboarding>>

Init ==
    /\ part \in Parts
    /\ RevocationInit /\ ConsoleInit /\ LockoutInit /\ ConfirmationInit /\ EvidenceInit
    /\ OnboardingInit

Next ==
    /\ UNCHANGED part
    /\ \/ part = "revocation" /\ RevocationNext
          /\ UNCHANGED <<console, lockout, confirmation, evidence, onboarding>>
       \/ part = "console" /\ ConsoleNext
          /\ UNCHANGED <<revocation, lockout, confirmation, evidence, onboarding>>
       \/ part = "lockout" /\ LockoutNext
          /\ UNCHANGED <<revocation, console, confirmation, evidence, onboarding>>
       \/ part = "confirmation" /\ ConfirmationNext
          /\ UNCHANGED <<revocation, console, lockout, evidence, onboarding>>
       \/ part = "evidence" /\ EvidenceNext
          /\ UNCHANGED <<revocation, console, lockout, confirmation, onboarding>>
       \/ part = "onboarding" /\ OnboardingNext
          /\ UNCHANGED <<revocation, console, lockout, confirmation, evidence>>

\* Only the part that moves is asked to go on. A mutex that is waited for is had, and
\* days pass between runs.
Fairness ==
    /\ WF_revocation(part = "revocation" /\ DaemonGoesOn)
    /\ WF_revocation(part = "revocation" /\ CommandGoesOn)
    /\ WF_evidence(part = "evidence" /\ RoundGoesOn)
    /\ \A s \in Sites : /\ WF_evidence(part = "evidence" /\ PassGoesOn(s))
                        /\ SF_evidence(part = "evidence" /\ PassDials(s))
    /\ SF_onboarding(part = "onboarding" /\ DayPasses)

Spec == Init /\ [][Next]_administration
LiveSpec == Spec /\ Fairness

\* The types of every part.
AdministrationType ==
    /\ part \in Parts
    /\ RevocationType /\ ConsoleType /\ LockoutType /\ ConfirmationType /\ EvidenceType
    /\ OnboardingType
=============================================================================
