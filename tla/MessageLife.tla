----------------------------- MODULE MessageLife -----------------------------
(***************************************************************************)
(* What the delivery core promises to the components that build on it about *)
(* the standing of a message: a message is submitted while its authority   *)
(* holds, a submitted one may be verified, and one that lost its standing  *)
(* never regains it.  Coordinator implements this module.                  *)
(***************************************************************************)
CONSTANT Message

VARIABLE life

LifeStates == {"open", "submitted", "verified", "lost"}

LifeInit == life = [m \in Message |-> "open"]

\* The receiver accepted the message and its adapter acknowledged it.
BecomesSubmitted(m) ==
  /\ life[m] = "open"
  /\ life' = [life EXCEPT ![m] = "submitted"]

\* Trusted evidence of its effect was recorded.
BecomesVerified(m) ==
  /\ life[m] = "submitted"
  /\ life' = [life EXCEPT ![m] = "verified"]

\* Revocation, supersession, expiry, retirement or a final refusal; one step
\* may end the standing of many messages.  What is verified stays so.
LoseStanding(gone) ==
  life' = [m \in Message |->
    IF m \in gone /\ life[m] # "verified" THEN "lost" ELSE life[m]]

LifeNext ==
  \/ \E m \in Message : BecomesSubmitted(m) \/ BecomesVerified(m)
  \/ \E gone \in SUBSET Message : LoseStanding(gone)

LifeSpec == LifeInit /\ [][LifeNext]_life
=============================================================================
