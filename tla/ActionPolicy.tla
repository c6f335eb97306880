---------------------------- MODULE ActionPolicy -----------------------------
(***************************************************************************)
(* packages/native_agent/policy/policy.py: whether a proposed call of a    *)
(* vendor tool may run.  The evaluation is a pure function of the intent,  *)
(* of what is known of the robot, of the time and of the approvals already *)
(* used.  Nothing in the repository calls it yet; the caller below does    *)
(* what the policy's documentation asks of one, no more: it passes in what *)
(* it last observed, keeps the key and the used approvals, and notes when  *)
(* the robot last moved.                                                   *)
(***************************************************************************)
EXTENDS Integers, Sequences, FiniteSets

CONSTANTS Unknown,     \* Python's None: not known, or not there
          Risks,       \* the risk classes (ToolRisk)
          RunModes,    \* the operating modes (RunMode)
          Intents,     \* proposed calls: tool, mode and arguments
          Asked,       \* the intents an operator is asked about
          Malformed,   \* the intents whose arguments have no canonical form
          Policy,      \* the allowlist: a rule for every risk, a risk for every tool
          MaxLifetime, \* MAX_APPROVAL_LIFETIME_SECONDS
          Nonces,
          Worlds,      \* what the robot can be like
          Losable,     \* the readings that can be missing
          MaxTime,     \* bound on the clock
          MaxCalls,     \* bound on the calls let through
          MaxIssued    \* bound on the approvals given

\* What a rule can demand to be known, and how it must be.
Wanted == [fault |-> FALSE, action_busy |-> FALSE, charging |-> FALSE,
           stationary |-> TRUE, person_present |-> TRUE]
Facts == DOMAIN Wanted

Rule == [allowed_modes : SUBSET RunModes, approval_modes : SUBSET RunModes,
         physical : BOOLEAN, demands : SUBSET Facts,
         minimum_battery : 0..100 \cup {Unknown},
         max_sensor_age : Nat \cup {Unknown}, cooldown : Nat]

\* What parse_action_allowlist lets through.
Accepted(policy) ==
  /\ policy.risks \in [Risks -> Rule]
  /\ \A r \in Risks : /\ policy.risks[r].allowed_modes # {}
                      /\ policy.risks[r].approval_modes \subseteq policy.risks[r].allowed_modes
  /\ DOMAIN policy.tools # {} /\ \A t \in DOMAIN policy.tools : policy.tools[t] \in Risks

ASSUME PolicyAssumption == Accepted(Policy)
ASSUME UnknownAssumption == Unknown \notin BOOLEAN /\ Unknown \notin Int
ASSUME WorldAssumption ==
  \A w \in Worlds : /\ DOMAIN w = Facts \cup {"battery"} /\ w.battery \in 0..100
                    /\ \A f \in Facts : w[f] \in BOOLEAN
ASSUME IntentAssumption == MaxLifetime \in Nat /\ Malformed \subseteq Intents /\ Asked \subseteq Intents

VARIABLES now,
          world,    \* what the robot is like, and since when nothing changed
          snapshot, \* what the caller last observed of it, and when
          caller,   \* which of the key, the used approvals and the history it has
          issued,   \* the approvals the operator gave
          consumed, \* the used approvals the caller noted
          lastMove, \* when the robot last moved, as the caller noted it
          runs      \* the calls that ran and were not free

vars == << now, world, snapshot, caller, issued, consumed, lastMove, runs >>

-----------------------------------------------------------------------------
(* The evaluation *)

\* The rule of each listed tool.
ToolRule == [tool \in DOMAIN Policy.tools |-> Policy.risks[Policy.tools[tool]]]
RuleOf(intent) == ToolRule[intent.tool]
NeedsApproval(intent) == intent.mode \in RuleOf(intent).approval_modes

\* _canonical_intent: only nested and sized within bounds, with named fields.
Canonical(intent) == intent \notin Malformed

Payload(a) == [intent |-> a.intent, issued |-> a.issued, expires |-> a.expires, nonce |-> a.nonce]
Approval(intent, from, until, nonce) ==
  LET p == [intent |-> intent, issued |-> from, expires |-> until, nonce |-> nonce]
  IN  [intent |-> intent, issued |-> from, expires |-> until, nonce |-> nonce, signature |-> p]

Lifetime(a) == a.expires - a.issued > 0 /\ a.expires - a.issued <= MaxLifetime

Reason(code, denied) == IF denied THEN {code} ELSE {}

\* Mutant: an approval is good for any call it is presented with.
ApprovalForAnything(intent, a, c, used, t) ==
  IF a = Unknown THEN {"action_approval_required"}
  ELSE Reason("approval_replayed", a.nonce \in used)
       \cup Reason("approval_expired", t > a.expires)
       \cup Reason("approval_signature_invalid", a.signature # Payload(a))

ApprovalReasons(intent, a, c, used, t) ==
  IF a = Unknown THEN {"action_approval_required"}
  ELSE Reason("approval_verifier_unavailable", c.key = "none")
       \cup Reason("approval_verifier_invalid", c.key = "short")
       \cup Reason("approval_replay_store_unavailable", ~c.store)
       \cup Reason("approval_intent_mismatch", a.intent # intent)
       \cup Reason("approval_replayed", c.store /\ a.nonce \in used)
       \cup Reason("approval_lifetime_invalid", ~Lifetime(a))
       \cup Reason("approval_not_yet_valid", t < a.issued)
       \cup Reason("approval_expired", t > a.expires)
       \cup Reason("approval_signature_invalid", c.key = "good" /\ a.signature # Payload(a))

\* Mutant: a reading that is missing denies nothing.
FactsIfKnown(rule, s) == {f \in rule.demands : s[f] # Unknown /\ s[f] # Wanted[f]}

\* fault, busy, charging, stationary and person gates.
FactReasons(rule, s) ==
  {f \in rule.demands : s[f] = Unknown \/ s[f] # Wanted[f]}

BatteryReasons(rule, s) ==
  IF rule.minimum_battery = Unknown THEN {}
  ELSE IF s.battery = Unknown THEN {"battery_state_unknown"}
  ELSE Reason("battery_below_minimum", s.battery < rule.minimum_battery)

SensorReasons(rule, s, t) ==
  IF rule.max_sensor_age = Unknown THEN {}
  ELSE IF s.at = Unknown THEN {"sensor_timestamp_unknown"}
  ELSE Reason("sensor_timestamp_in_future", t < s.at)
       \cup Reason("sensors_stale", t - s.at > rule.max_sensor_age)

\* Mutant: the cooldown starts over with a caller that knows no history.
CooldownIfKnown(rule, s, t) ==
  IF s.history # TRUE \/ s.moved = Unknown THEN {}
  ELSE Reason("cooldown_active", t - s.moved < rule.cooldown)

CooldownReasons(rule, s, t) ==
  IF ~(rule.physical /\ rule.cooldown > 0) THEN {}
  ELSE IF s.history # TRUE THEN {"cooldown_history_unknown"}
  ELSE IF s.moved = Unknown THEN {}
  ELSE Reason("cooldown_timestamp_in_future", t < s.moved)
       \cup Reason("cooldown_active", t >= s.moved /\ t - s.moved < rule.cooldown)

\* evaluate_action: the reasons to deny; none, and the call may run.
Evaluate(intent, a, s, c, used, t) ==
  IF intent.mode \notin RunModes THEN {"invalid_mode"}
  ELSE IF intent.tool \notin DOMAIN ToolRule THEN {"tool_not_allowlisted"}
  ELSE IF ~Canonical(intent) THEN {"invalid_arguments"}
  ELSE IF intent.mode \notin RuleOf(intent).allowed_modes THEN {"mode_not_allowed"}
  ELSE (IF NeedsApproval(intent)
        THEN ApprovalReasons(intent, a, c, used, t) ELSE {})
       \cup FactReasons(RuleOf(intent), s) \cup BatteryReasons(RuleOf(intent), s)
       \cup SensorReasons(RuleOf(intent), s, t) \cup CooldownReasons(RuleOf(intent), s, t)

Allowed(intent, a, s, c, used, t) == Evaluate(intent, a, s, c, used, t) = {}

-----------------------------------------------------------------------------
(* The robot, the operator and the caller *)

Fields == Facts \cup {"battery", "at", "history", "moved"}

\* The RobotState the caller passes in: its last readings and its own history.
State == [snapshot EXCEPT !["history"] = caller.history, !["moved"] = lastMove]

\* What can come with a call: nothing, an approval, or one with a part replaced.
Presented(intent) ==
  {Unknown} \cup issued
  \cup {[a EXCEPT !.intent = intent] : a \in issued}
  \cup {[a EXCEPT !.expires = @ + 1] : a \in issued}
  \cup {[a EXCEPT !.nonce = n] : a \in issued, n \in Nonces}

Init ==
  /\ now = 0
  /\ world \in [is : Worlds, since : {0}]
  /\ snapshot = [f \in Fields |-> Unknown]
  /\ caller \in [key : {"none", "short", "good"}, store : {TRUE}, history : {TRUE}]
  /\ issued = {} /\ consumed = {} /\ lastMove = Unknown /\ runs = << >>

TimePasses == /\ now < MaxTime /\ now' = now + 1
              /\ UNCHANGED << world, snapshot, caller, issued, consumed, lastMove, runs >>

WorldTurns(w) ==
  /\ w # world.is /\ world' = [is |-> w, since |-> now]
  /\ UNCHANGED << now, snapshot, caller, issued, consumed, lastMove, runs >>

\* The caller reads the robot; one reading may be missing.
Observe(lost) ==
  /\ snapshot' = [f \in Fields |-> IF f \in {lost, "history", "moved"} THEN Unknown
                                  ELSE IF f = "at" THEN now ELSE world.is[f]]
  /\ UNCHANGED << now, world, caller, issued, consumed, lastMove, runs >>

\* issue_action_approval.
Issue(intent, from, until, nonce) ==
  /\ caller.key = "good"
  /\ Canonical(intent)
  /\ Lifetime(Approval(intent, from, until, nonce))
  /\ \A a \in issued : a.nonce # nonce \* the operator draws a fresh one
  /\ Cardinality(issued) < MaxIssued
  /\ issued' = issued \cup {Approval(intent, from, until, nonce)}
  /\ UNCHANGED << now, world, snapshot, caller, consumed, lastMove, runs >>

\* The caller is restarted without the used approvals or without the history,
\* or finds them again.
CallerRestarts(without) ==
  /\ caller' = [caller EXCEPT ![without] = ~@]
  /\ UNCHANGED << now, world, snapshot, issued, consumed, lastMove, runs >>

Propose(intent, a) ==
  /\ Len(runs) < MaxCalls
  /\ Allowed(intent, a, State, caller, consumed, now)
  /\ runs' = IF NeedsApproval(intent) \/ RuleOf(intent).physical
             THEN Append(runs, [intent |-> intent, at |-> now,
                                nonce |-> IF NeedsApproval(intent) THEN a.nonce ELSE Unknown])
             ELSE runs
  /\ consumed' = IF NeedsApproval(intent) THEN consumed \cup {a.nonce} ELSE consumed
  /\ lastMove' = IF RuleOf(intent).physical THEN now ELSE lastMove
  /\ UNCHANGED << now, world, snapshot, caller, issued >>

Next ==
  \/ TimePasses
  \/ \E w \in Worlds : WorldTurns(w)
  \/ \E lost \in Losable \cup {Unknown} : Observe(lost)
  \/ \E intent \in Asked, from \in now .. now + 1,
        until \in now .. now + 1 + MaxLifetime, nonce \in Nonces :
        Issue(intent, from, until, nonce)
  \/ \E without \in {"store", "history"} : CallerRestarts(without)
  \/ \E intent \in Intents : \E a \in Presented(intent) : Propose(intent, a)

Spec == Init /\ [][Next]_vars

-----------------------------------------------------------------------------
TypeOK ==
  /\ now \in 0 .. MaxTime
  /\ world.is \in Worlds /\ world.since \in 0 .. now
  /\ snapshot.at \in 0 .. now \cup {Unknown}
  /\ caller.key \in {"none", "short", "good"}
  /\ \A a \in issued : a.intent \in Intents /\ a.nonce \in Nonces /\ a.signature = Payload(a)
  /\ consumed \subseteq Nonces
  /\ lastMove \in 0 .. now \cup {Unknown}
  /\ Len(runs) <= MaxCalls

(* Every call that ran in a mode that needs approval ran on an approval    *)
(* the operator gave for exactly that tool, mode and arguments, within its *)
(* lifetime, and no approval served two calls, whatever was presented and  *)
(* whatever the caller forgot in between.                                  *)
RunsAreApproved ==
  /\ \A i \in 1 .. Len(runs) : NeedsApproval(runs[i].intent) =>
        \E a \in issued : /\ a.intent = runs[i].intent /\ a.nonce = runs[i].nonce
                          /\ a.issued <= runs[i].at /\ runs[i].at <= a.expires
  /\ \A i, j \in 1 .. Len(runs) :
        i # j /\ NeedsApproval(runs[i].intent) /\ NeedsApproval(runs[j].intent)
           => runs[i].nonce # runs[j].nonce

Meets(w, rule) == /\ \A f \in rule.demands : w[f] = Wanted[f]
                  /\ rule.minimum_battery # Unknown => w.battery >= rule.minimum_battery

(* A call does not start when the robot has violated what its risk class   *)
(* demands for longer than the age the class allows its readings to have,  *)
(* although the caller only knows what it last read.                       *)
StartsOnFreshFacts ==
  [][runs' # runs =>
       LET rule == RuleOf(runs'[Len(runs')].intent)
       IN  rule.max_sensor_age # Unknown /\ now - world.since > rule.max_sensor_age
              => Meets(world.is, rule)]_vars

(* Between two moves of the robot lies at least the cooldown of the risk   *)
(* class of the second, also when the caller was restarted in between.     *)
MovesAreApart ==
  \A i, j \in 1 .. Len(runs) :
     i < j /\ RuleOf(runs[i].intent).physical /\ RuleOf(runs[j].intent).physical
        => runs[j].at - runs[i].at >= RuleOf(runs[j].intent).cooldown
=============================================================================
