----------------------------- MODULE FrozenAudit -----------------------------
(***************************************************************************)
(* What an independent audit of frozen distributions simulates and what it *)
(* reads (src/cmfg_cce/evaluation/independent_audit.py,                    *)
(* experiments/revision_pipeline.py).                                      *)
(*                                                                         *)
(* A game has two manufacturers; a profile is the pair of their policies.  *)
(* A frozen distribution is its support: probabilities weigh the returns   *)
(* of the support profiles and their deviations and choose no others.      *)
(***************************************************************************)
EXTENDS Integers, Sequences, FiniteSets

CONSTANTS Core, New    \* policies of the core library, and those added to it

Agents == {1, 2}
Library(expanded) == IF expanded THEN Core \cup New ELSE Core
Profiles(policies) == policies \X policies

\* The jobs of the instance: every one is under the first mechanism but one, and has the
\* core library but one.
MechanismOf(job) == IF job = "target" THEN "m2" ELSE "m1"
PoliciesOf(job) == Library(job = "expanded")

\* The updates of a dict: by another one, and of a single key.
Merged(f, g) == [x \in DOMAIN f \cup DOMAIN g |-> IF x \in DOMAIN f THEN f[x] ELSE g[x]]
With(f, key, value) == [x \in DOMAIN f \cup {key} |-> IF x = key THEN value ELSE f[x]]

Deviate(profile, agent, policy) == [profile EXCEPT ![agent] = policy]

\* Faulty variant: the deviations are taken from the policies the support uses.
ClosureOfUsed(q, policies) ==
    q \cup {Deviate(p, a, x) : p \in q, a \in Agents, x \in {p2[a2] : p2 \in q, a2 \in Agents}}

\* support_deviation_closure: the support and every unilateral deviation from it.
Closure(q, policies) == q \cup {Deviate(p, a, x) : p \in q, a \in Agents, x \in policies}

\* frozen_closure of several distributions.
frozen_closure(qs, policies) == UNION {Closure(q, policies) : q \in qs}

\* What build_joint_audit_samples looks up, and raises KeyError for when it is not there:
\* the returns of q, and for every agent and policy those of each support profile in
\* which the agent plays another policy, with that policy put in.
Read(q, policies) ==
    q \cup {Deviate(t[1], t[2], t[3]) :
               t \in {u \in q \X Agents \X policies : u[1][u[2]] # u[3]}}

\* freeze_distribution accepts a support only if it is not empty and in the game.
Freezable(q, policies) == q # {} /\ q \subseteq Profiles(policies)
=============================================================================
