---------------------------- MODULE TrustService ----------------------------
(***************************************************************************)
(* The trust service (trust/): a registry of agents, a policy per trust    *)
(* tier, a queue of approval requests and an audit log, all in memory.     *)
(*                                                                         *)
(* The registry, the queue and the log have a lock each, and the policies  *)
(* have none; nothing holds across two of them.  So an evaluation reads    *)
(* the agent, then its tier's policy, then appends to the log, and a       *)
(* policy file replaces one tier after another, each interleaved with      *)
(* whatever the other goroutines do.                                       *)
(*                                                                         *)
(* A repository or a scope pattern is the sequence of its segments between *)
(* slashes.  A capability is repo-scoped by its prefix ("repo.", "pr.").   *)
(* What a log entry or a request says beside the agent and the outcome,    *)
(* and an agent's rate limit and dates, which nothing reads, are left out. *)
(***************************************************************************)
EXTENDS Integers, SequencesExt

CONSTANTS
  Procs, Evaluators,   \* goroutines, and those of them that ask for evaluations
  Names, Caps, Repos,  \* the agents, capabilities, repositories asked about
  Scopes,              \* the ScopedRepos an agent may be registered with
  Configs,             \* the policy files that may be applied
  MaxEntries, MaxRequests,   \* bounds: audit entries, approval requests
  None

VARIABLES
  agents,     \* Registry.agents
  policies,   \* PolicyEngine.policies
  requests,   \* ApprovalQueue.requests: the one with id "approval-i" is the ith
  log,        \* AuditLog.entries
  frame       \* the call of each goroutine

vars == <<agents, policies, requests, log, frame>>

Valid(tier) == tier \in 1..3
RepoScoped == {"repo.push", "pr.merge", "pr.create", "secrets.read"}
Everything == RepoScoped \cup {"issue.create", "issue.comment", "cmd.privileged",
                               "workspace.access", "flows.modify"}

Policies == [allowed : SUBSET Everything, approval : SUBSET Everything, denied : SUBSET Everything]
Policy(allowed, approval, denied) ==
  [allowed |-> allowed, approval |-> approval, denied |-> denied]

Defaults ==
  <<Policy({"pr.create", "issue.comment"}, {}, Everything \ {"pr.create", "issue.comment"}),
    Policy({"repo.push", "pr.create", "issue.create", "issue.comment", "secrets.read"},
           {"pr.merge"}, {"workspace.access", "flows.modify", "cmd.privileged"}),
    Policy(Everything, {}, {})>>

ASSUME TrustAssumption ==
  /\ Evaluators \subseteq Procs /\ Caps \subseteq Everything
  /\ \A scope \in Scopes : \A pattern \in scope : pattern \in Seq(STRING)
  /\ Repos \subseteq Seq(STRING)
  /\ Configs \subseteq Seq([tier : Int, policy : Policies]) \ {<<>>}
  /\ {MaxEntries, MaxRequests} \subseteq Nat
  /\ None \notin [tier : 1..3, scope : Scopes]

Init ==
  /\ agents = [n \in Names |-> None] /\ policies = Defaults
  /\ requests = <<>> /\ log = <<>>
  /\ frame = [p \in Procs |-> None]

Idle(p) == frame[p] = None
At(p, pc) == frame[p] # None /\ frame[p].pc = pc
Do(p, f) == frame' = [frame EXCEPT ![p] = f]
Return(p) == frame' = [frame EXCEPT ![p] = None]

-----------------------------------------------------------------------------
(* The registry.  Register replaces; a *Agent that an evaluation has read   *)
(* is never changed, only left behind.                                      *)

\* Register with a mistake: the tier is not validated
RegisterUnchecked(n, tier, scope) ==
  /\ agents' = [agents EXCEPT ![n] = [tier |-> tier, scope |-> scope]]
  /\ UNCHANGED <<policies, requests, log, frame>>

Register(n, tier, scope) ==
  /\ Valid(tier)
  /\ agents' = [agents EXCEPT ![n] = [tier |-> tier, scope |-> scope]]
  /\ UNCHANGED <<policies, requests, log, frame>>

RemoveAgent(n) ==
  /\ agents' = [agents EXCEPT ![n] = None]
  /\ UNCHANGED <<policies, requests, log, frame>>

-----------------------------------------------------------------------------
(* Evaluate, and the handler's record of it in the audit log                *)

\* matchScope with a mistake: "core/*" matches at every depth
MatchesAnyDepth(pattern, repo) ==
  \/ pattern = repo
  \/ Last(pattern) \in {"*", "**"} /\ IsStrictPrefix(Front(pattern), repo)

\* matchScope: the pattern itself, anything below "prefix/**", or a direct
\* child of "prefix/*"; in both cases something must follow the slash
MatchScope(pattern, repo) ==
  \/ pattern = repo
  \/ /\ Len(pattern) > 1 /\ IsStrictPrefix(Front(pattern), repo)
     /\ \/ Last(pattern) = "**" /\ SubSeq(repo, Len(pattern), Len(repo)) # <<"">>
        \/ Last(pattern) = "*" /\ Len(repo) = Len(pattern) /\ Last(repo) # ""

\* Who has no scopes is not restricted, and the tier is not looked at (policy.go:130,
\* not as trust.go:100-101 has it); an empty repository is in no scope
RepoAllowed(scope, cap, repo) ==
  \/ cap \notin RepoScoped \/ scope = {}
  \/ repo # <<"">> /\ \E pattern \in scope : MatchScope(pattern, repo)

Decide(agent, cap, repo) ==
  LET policy == policies[agent.tier] IN
  IF cap \in policy.denied THEN "deny"
  ELSE IF cap \in policy.approval THEN "needs_approval"
  ELSE IF cap \in policy.allowed /\ RepoAllowed(agent.scope, cap, repo) THEN "allow"
  ELSE "deny"

Evaluation(pc, n, cap, repo) ==
  [pc |-> pc, name |-> n, agent |-> agents[n], cap |-> cap, repo |-> repo,
   decision |-> "deny"]

\* Evaluate with a mistake: an unknown agent is taken for an untrusted one
EvaluateUnknown(p, n, cap, repo) ==
  /\ Idle(p)
  /\ Do(p, [Evaluation("policy", n, cap, repo) EXCEPT
              !.agent = IF agents[n] = None THEN [tier |-> 1, scope |-> {}] ELSE agents[n]])
  /\ UNCHANGED <<agents, policies, requests, log>>

Evaluate(p, n, cap, repo) ==
  /\ Idle(p)
  /\ Do(p, Evaluation(IF agents[n] = None THEN "record" ELSE "policy", n, cap, repo))
  /\ UNCHANGED <<agents, policies, requests, log>>

ReadPolicy(p) ==
  /\ At(p, "policy")
  /\ Do(p, [frame[p] EXCEPT !.pc = "record",
              !.decision = Decide(frame[p].agent, frame[p].cap, frame[p].repo)])
  /\ UNCHANGED <<agents, policies, requests, log>>

Record(p) ==
  /\ At(p, "record") /\ Len(log) < MaxEntries
  /\ log' = Append(log, [name |-> frame[p].name, decision |-> frame[p].decision])
  /\ Return(p)
  /\ UNCHANGED <<agents, policies, requests>>

-----------------------------------------------------------------------------
(* ApplyPolicies: parse and convert the whole file, then set tier by tier   *)

\* ApplyPolicies with a mistake: the valid tiers of an invalid file are set
ApplyValidPart(p, config) ==
  /\ Idle(p)
  /\ Do(p, [pc |-> "set", todo |-> SelectSeq(config, LAMBDA c : Valid(c.tier))])
  /\ UNCHANGED <<agents, policies, requests, log>>

ApplyPolicies(p, config) ==
  /\ Idle(p) /\ \A i \in DOMAIN config : Valid(config[i].tier)
  /\ Do(p, [pc |-> "set", todo |-> config])
  /\ UNCHANGED <<agents, policies, requests, log>>

SetPolicy(p) ==
  /\ At(p, "set")
  /\ LET c == Head(frame[p].todo) IN policies' = [policies EXCEPT ![c.tier] = c.policy]
  /\ IF Len(frame[p].todo) = 1 THEN Return(p)
     ELSE frame' = [frame EXCEPT ![p].todo = Tail(@)]
  /\ UNCHANGED <<agents, requests, log>>

-----------------------------------------------------------------------------
(* The approval queue                                                       *)

Submit(n) ==
  /\ Len(requests) < MaxRequests
  /\ requests' = Append(requests, [name |-> n, status |-> "pending"])
  /\ UNCHANGED <<agents, policies, log, frame>>

\* A reviewer lists the pending requests and turns to one of them
Pending(p) ==
  /\ Idle(p)
  /\ \E id \in DOMAIN requests :
       /\ requests[id].status = "pending"
       /\ Do(p, [pc |-> "review", id |-> id])
  /\ UNCHANGED <<agents, policies, requests, log>>

\* Review with a mistake: the status is not looked at again under the lock
ReviewAnyway(p, verdict) ==
  /\ At(p, "review")
  /\ requests' = [requests EXCEPT ![frame[p].id].status = verdict]
  /\ Return(p)
  /\ UNCHANGED <<agents, policies, log>>

\* Approve or Deny; of a request that is no longer pending, an error
Review(p, verdict) ==
  /\ At(p, "review")
  /\ requests' = IF requests[frame[p].id].status = "pending"
                 THEN [requests EXCEPT ![frame[p].id].status = verdict] ELSE requests
  /\ Return(p)
  /\ UNCHANGED <<agents, policies, log>>

-----------------------------------------------------------------------------
\* The program stops and starts again with nothing remembered.  It also stops
\* when an evaluation reads the unlocked policies map while another goroutine
\* sets a policy and the Go runtime notices.
Restart ==
  /\ agents' = [n \in Names |-> None] /\ policies' = Defaults
  /\ requests' = <<>> /\ log' = <<>>
  /\ frame' = [p \in Procs |-> None]

Next ==
  \/ \E n \in Names :
       \/ \E tier \in 0..3, scope \in Scopes : Register(n, tier, scope)
       \/ RemoveAgent(n) \/ Submit(n)
       \/ \E p \in Evaluators, cap \in Caps, repo \in Repos : Evaluate(p, n, cap, repo)
  \/ \E p \in Procs :
       \/ ReadPolicy(p) \/ Record(p) \/ SetPolicy(p) \/ Pending(p)
       \/ \E config \in Configs : ApplyPolicies(p, config)
       \/ \E verdict \in {"approved", "denied"} : Review(p, verdict)
  \/ Restart

Spec == Init /\ [][Next]_vars

-----------------------------------------------------------------------------
Decisions == {"allow", "deny", "needs_approval"}

\* The types of the registry, policies, queue and log.
TypeOK ==
  /\ agents \in [Names -> [tier : 1..3, scope : Scopes] \cup {None}]
  /\ DOMAIN policies = 1..3
  /\ \A i \in DOMAIN requests : requests[i].status \in {"pending", "approved", "denied"}
  /\ \A i \in DOMAIN log : log[i].decision \in Decisions
  /\ \A p \in Procs : At(p, "review") => frame[p].id \in DOMAIN requests

\* What "core/*" and "core/**" cover (policy.go:237-240), said by where the
\* repository splits into the pattern's fixed part and the rest.
Covers(pattern, repo) ==
  \/ pattern = repo
  \/ \E i \in 1..(Len(repo) - 1) :
       /\ Front(pattern) = SubSeq(repo, 1, i)
       /\ SubSeq(repo, i + 1, Len(repo)) # <<"">>
       /\ Last(pattern) = "**" \/ (Last(pattern) = "*" /\ i = Len(repo) - 1)

\* Two exceptions to "ScopedRepos limits repo access for Tier 2 agents.  Empty
\* means no repo access.  Tier 3 agents ignore this field" (trust.go:100-101).
\* Evaluate takes an empty scope for no limit (policy.go:130; docs/history.md, F3),
\* and never asks for the tier: a scope that is not empty binds tier 3 as well.
Unscoped(agent) == agent.scope = {}

\* An agent that was registered with scoped repositories, of whatever tier, is
\* allowed no repo-scoped capability outside of them, whatever happens to the
\* agent and the policies meanwhile.  Of an unscoped agent nothing is claimed.
AllowedInScope ==
  \A p \in Procs : At(p, "record") /\ frame[p].decision = "allow" =>
    \/ frame[p].cap \notin RepoScoped \/ Unscoped(frame[p].agent)
    \/ \E pattern \in frame[p].agent.scope : Covers(pattern, frame[p].repo)

\* An agent that is removed, demoted, or whose tier loses a capability stays
\* without it: once it would be refused and no evaluation from before is under
\* way, none gives it anything until the registry or a policy changes again.
Refused(n, cap, repo) ==
  /\ agents[n] = None \/ Decide(agents[n], cap, repo) = "deny"
  /\ \A p \in Procs :
       LET f == frame[p] IN
       /\ At(p, "policy") /\ f.name = n /\ f.cap = cap /\ f.repo = repo
          => Decide(f.agent, cap, repo) = "deny"
       /\ At(p, "record") /\ f.name = n /\ f.cap = cap /\ f.repo = repo
          => f.decision = "deny"

RefusedStayRefused ==
  [][\A n \in Names, cap \in Caps, repo \in Repos :
       Refused(n, cap, repo) =>
         Refused(n, cap, repo)' \/ agents' # agents \/ policies' # policies]_vars

\* ApplyPolicies takes a file as a whole or not at all: what is in force for a
\* tier is its default or comes from a file in which every tier is valid.
RejectedFileChangesNothing ==
  \A t \in 1..3 :
    \/ policies[t] = Defaults[t]
    \/ \E config \in Configs :
         /\ \A i \in DOMAIN config : Valid(config[i].tier)
         /\ [tier |-> t, policy |-> policies[t]] \in Range(config)

\* Two reviewers of one request: the first verdict stands, and a request that
\* has one never changes nor disappears while the program runs.
FirstVerdictStands ==
  [][Restart \/ \A id \in DOMAIN requests :
       /\ id \in DOMAIN requests'
       /\ requests[id].status # "pending" => requests'[id] = requests[id]]_vars
=============================================================================
