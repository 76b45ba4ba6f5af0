------------------------- MODULE RelationshipPolicy -------------------------
(***************************************************************************)
(* src/policy/relationship-policy.mjs: the pure decision function that     *)
(* authorises one envelope under one grant against registry snapshots.     *)
(*                                                                         *)
(* An envelope is a record [relationship, source, target, intent, mode,    *)
(* fresh, expires]; "fresh" is the set of target runtime snapshots that    *)
(* satisfy its freshness expectations, {} when it carries none.  A grant   *)
(* is a record [relationship, source, target, version, type, intents,      *)
(* modes, expires]; an absent expiry is a time past the model's horizon.   *)
(* The reason of a denial is never used by a caller that changes state, so *)
(* the function is modelled by whether it allows.                          *)
(***************************************************************************)
EXTENDS Naturals

StateChangingIntents == {"steer", "interrupt"}
ElevatedRelationships == {"supervisor", "parent"}

\* What steer and interrupt need beyond an ordinary message: a freshness
\* expectation the target still meets, and an elevated relationship.
StateChangeAllowed(env, grant, target) ==
  /\ target.run \in env.fresh
  /\ grant.type \in ElevatedRelationships

\* evaluateRelationshipPolicy(...).decision = "allow".  "live" says that the
\* grant is present, unrevoked and the current version of its edge.
PolicyAllows(env, grant, live, source, target, now) ==
  /\ source.status = "active"
  /\ target.status = "active"
  /\ live
  /\ grant.relationship = env.relationship
  /\ grant.source = env.source
  /\ grant.target = env.target
  /\ now < grant.expires
  /\ env.intent \in StateChangingIntents => StateChangeAllowed(env, grant, target)
  /\ env.intent \in grant.intents
  /\ env.mode \in grant.modes
=============================================================================
